------------------------ MODULE CandidateIdentityProofs ------------------------
(***************************************************************************)
(* What a person decided of a candidate outlasts every reading of its      *)
(* post, no candidate moves to another day, what did not change keeps its  *)
(* id, and reading a post once more changes nothing, for any readings,     *)
(* number of candidates and of processes, as long as reviews and answers   *)
(* do not fall into a batch and one pass at a time reads the post.         *)
(*                                                                         *)
(* The argument: a pass's copies of the stores are what the stores hold    *)
(* (Snapshots), what a person decided about is there (DecidedIsThere),     *)
(* nothing is stored before the first ingest (NothingBefore), what match() *)
(* pairs are a programme and a candidate of one day, one with one, and     *)
(* what did not change with itself.  Ids are given out one after another,  *)
(* so that what is created takes the next ones (InOrder); and a second     *)
(* reading pairs, tier by tier, what the first one paired (Retraces).      *)
(***************************************************************************)
EXTENDS CandidateIdentity, FiniteSetTheorems, WellFoundedInduction, TLAPS

Refused == {c \in Id : review[c] = "refused"}

Local == [job : Job, reading : Seq(Programme), existing : Existing, aware : BOOLEAN,
          reviewed : SUBSET Id, refused : SUBSET Id, decided : SUBSET Id]

PassIsTyped ==
  /\ pass \in [Process -> Local]
  /\ cand \in [Id -> Programme \cup {None, Gone}]
  /\ review \in [Id -> {"none", "kept", "refused"}] /\ decided \in SUBSET Id
  /\ text \in Reading

(* a pass's copies are what the stores hold                                *)
Snapshots ==
  \A p \in Process :
    /\ pass[p].job \in {"batch", "item"} =>
         /\ pass[p].reviewed = Reviewed /\ pass[p].refused = Refused
         /\ pass[p].decided = decided
    /\ pass[p].job = "item" =>
         /\ pass[p].existing = Stored
         /\ pass[p].aware \/ Present \cap Reviewed = {}

(* what a person decided about is there                                    *)
DecidedIsThere == Reviewed \cup decided \subseteq Present

(* one pass at a time, and nothing is stored before the first              *)
OneReads == \A p, q \in Process : pass[p].job # "none" /\ pass[q].job # "none" => p = q
NothingBefore ==
  /\ ~known => \A c \in Id : cand[c] = None
  /\ \A p \in Process : pass[p].job # "none" => known
  /\ \A p \in Process : pass[p].job = "ingest" => \A c \in Id : cand[c] = None

IdInv == PassIsTyped /\ Snapshots /\ DecidedIsThere /\ OneReads /\ NothingBefore

-----------------------------------------------------------------------------
(* A tier pairs programmes with candidates of their day.                   *)
SameDay(prs, old, new) ==
  \A pr \in prs : /\ pr \in (DOMAIN new) \X (DOMAIN old)
                  /\ new[pr[1]].date = old[pr[2]].date

LEMMA TierPairsADay ==
  ASSUME NEW n \in 1 .. 5, NEW old, NEW new, NEW m, SameDay(m.pairs, old, new)
  PROVE  SameDay(Tier(n, old, new, m).pairs, old, new)
<1> DEFINE tier == Tiers[n]
           single == Single(Alike(tier, old, new, m))
<1>1. Tier(n, old, new, m).pairs = m.pairs \cup single
  BY DEF Tier
<1>2. "date" \in tier.same
  <2>1. n = 1 \/ n = 2 \/ n = 3 \/ n = 4 \/ n = 5
    OBVIOUS
  <2> QED  BY <2>1 DEF Tiers, Field
<1> HIDE DEF tier
<1>3. ASSUME NEW pr \in single
      PROVE  pr \in (DOMAIN new) \X (DOMAIN old) /\ new[pr[1]].date = old[pr[2]].date
  <2>1. pr \in Alike(tier, old, new, m)
    BY <1>3 DEF Single
  <2>2. PICK news, olds : /\ news \subseteq DOMAIN new /\ olds \subseteq DOMAIN old
                          /\ pr \in news \X olds /\ SameKey(tier, new[pr[1]], old[pr[2]])
    BY <2>1, Zenon DEF Alike
  <2>3. new[pr[1]]["date"] = old[pr[2]]["date"]
    BY <1>2, <2>2 DEF SameKey
  <2> QED  BY <2>2, <2>3
<1> HIDE DEF single
<1> QED  BY <1>1, <1>3 DEF SameDay

(* match() pairs programmes with candidates of their day.                  *)
LEMMA MatchPairsADay ==
  ASSUME NEW old, NEW new
  PROVE  SameDay(Match(old, new).pairs, old, new)
<1> DEFINE m1 == Tier(1, old, new, [pairs |-> {}, heldNew |-> {}, heldOld |-> {}])
           m2 == Tier(2, old, new, m1)
           m3 == Tier(3, old, new, m2)
           m4 == Tier(4, old, new, m3)
<1>1. Match(old, new) = Tier(5, old, new, m4)
  BY DEF Match
<1>2. SameDay([pairs |-> {}, heldNew |-> {}, heldOld |-> {}].pairs, old, new)
  BY DEF SameDay
<1>3. SameDay(m1.pairs, old, new)
  BY <1>2, TierPairsADay
<1> HIDE DEF m1
<1>4. SameDay(m2.pairs, old, new)
  BY <1>3, TierPairsADay
<1> HIDE DEF m2
<1>5. SameDay(m3.pairs, old, new)
  BY <1>4, TierPairsADay
<1> HIDE DEF m3
<1>6. SameDay(m4.pairs, old, new)
  BY <1>5, TierPairsADay
<1> HIDE DEF m4
<1> QED  BY <1>1, <1>6, TierPairsADay

-----------------------------------------------------------------------------
(* What a re-read may do to a candidate, given the copies it has.          *)
Touches(change, old, new) ==
  /\ \A pr \in change.reread : pr \in (DOMAIN new) \X (DOMAIN old)
  /\ change.retired \subseteq DOMAIN old
  /\ change.created \subseteq DOMAIN new

Spares(change, old, new, aware, reviewed, refused, dec) ==
  /\ Touches(change, old, new)
  /\ \A pr \in change.reread : pr[2] \notin reviewed
  /\ change.retired \cap (reviewed \cup dec) = {}
  /\ \A i \in change.created, c \in DOMAIN old \cap reviewed \cap refused :
       new[i].date # None /\ new[i].date # old[c].date
  /\ \/ \A pr \in change.reread : new[pr[1]].date = old[pr[2]].date
     \/ /\ Cardinality(DOMAIN old) = 1 /\ Len(new) = 1
        /\ change.retired = {} /\ change.created = {}

(* A re-read touches what it has read, and spares what people decided.     *)
LEMMA ChangesSpare ==
  ASSUME NEW old \in Existing, NEW new \in Seq(Programme), NEW aware \in BOOLEAN,
         NEW reviewed, NEW refused, NEW dec,
         aware \/ DOMAIN old \cap reviewed = {}
  PROVE  Spares(Changes(old, new, aware, reviewed, refused, dec),
                old, new, aware, reviewed, refused, dec)
<1> DEFINE m == Match(old, new)
           change == Changes(old, new, aware, reviewed, refused, dec)
<1> SUFFICES Spares(change, old, new, aware, reviewed, refused, dec)
  OBVIOUS
<1>1. SameDay(m.pairs, old, new)
  BY MatchPairsADay
<1> HIDE DEF m
<1>2. Unpaired(m, new) \subseteq DOMAIN new /\ Removed(m, old) \subseteq DOMAIN old
  BY DEF Unpaired, Removed
<1>3. CASE aware
  <2>1. change = RereadAround(old, new, m, reviewed, refused)
    BY <1>3 DEF Changes, m
  <2>2. CASE m.heldOld # {}
    <3>1. change = NoChange
      BY <2>1, <2>2 DEF RereadAround
    <3>2. change.reread = {} /\ change.retired = {} /\ change.created = {}
      BY <3>1 DEF NoChange
    <3> HIDE DEF change
    <3> QED  BY <3>2 DEF Touches, Spares
  <2>3. CASE m.heldOld = {}
    <3> DEFINE days == {old[c].date : c \in DOMAIN old \cap reviewed \cap refused}
    <3>1. /\ change.reread = {pr \in m.pairs : pr[2] \notin reviewed}
          /\ change.retired = {}
          /\ change.created \subseteq {i \in Unpaired(m, new) :
                                         new[i].date # None /\ new[i].date \notin days}
      BY <2>1, <2>3 DEF RereadAround
    <3> HIDE DEF change
    <3> QED  BY <3>1, <1>1, <1>2 DEF SameDay, Touches, Spares
  <2> QED  BY <2>2, <2>3
<1>4. CASE ~aware /\ Cardinality(DOMAIN old) = 1 /\ Len(new) = 1
  <2>1. change = [NoChange EXCEPT !.reread = OneToOne(old, new)]
    BY <1>4 DEF Changes
  <2>2. change.reread = {<<1, c>> : c \in DOMAIN old} /\ change.retired = {}
        /\ change.created = {}
    BY <2>1 DEF NoChange, OneToOne
  <2>3. 1 \in DOMAIN new
    BY <1>4
  <2> HIDE DEF change
  <2> QED  BY <1>4, <2>2, <2>3 DEF Touches, Spares
<1>5. CASE ~aware /\ ~(Cardinality(DOMAIN old) = 1 /\ Len(new) = 1)
  <2>1. change = RereadAll(old, new, m, dec)
    BY <1>5 DEF Changes, m
  <2>2. /\ change.reread = m.pairs /\ change.retired = Removed(m, old) \ dec
        /\ change.created = Unpaired(m, new)
    BY <2>1 DEF RereadAll
  <2> HIDE DEF change
  <2> QED  BY <1>5, <2>2, <1>1, <1>2 DEF SameDay, Touches, Spares
<1> QED  BY <1>3, <1>4, <1>5

(* What is written of a candidate.                                         *)
LEMMA WrittenIs ==
  ASSUME NEW cands \in [Id -> Programme \cup {None, Gone}], NEW new \in Seq(Programme),
         NEW change, NEW old \in Existing, Touches(change, old, new)
  PROVE  /\ Written(cands, new, change) \in [Id -> Programme \cup {None, Gone}]
         /\ \A c \in Id :
              LET w == Written(cands, new, change)[c]
              IN \/ w = cands[c]
                 \/ cands[c] = None /\ \E i \in change.created : w = new[i]
                 \/ cands[c] \notin {None, Gone} /\ \E pr \in change.reread :
                      pr[2] = c /\ w = new[pr[1]]
                 \/ cands[c] \notin {None, Gone} /\ c \in change.retired /\ w = Gone
         /\ \A i \in change.created : new[i] \in Programme
         /\ \A pr \in change.reread : new[pr[1]] \in Programme
<1> DEFINE NewId(i) == Given(cands) + Cardinality({j \in change.created : j <= i})
           rereads(c) == {pr \in change.reread : pr[2] = c}
           creates(c) == {i \in change.created : NewId(i) = c}
           W(c) == CASE cands[c] = None /\ creates(c) # {} -> new[CHOOSE i \in creates(c) : TRUE]
                     [] cands[c] \notin {None, Gone} /\ rereads(c) # {} ->
                          new[(CHOOSE pr \in rereads(c) : TRUE)[1]]
                     [] cands[c] \notin {None, Gone} /\ c \in change.retired /\ rereads(c) = {} -> Gone
                     [] OTHER -> cands[c]
<1>1. Written(cands, new, change) = [c \in Id |-> W(c)]
  BY DEF Written
<1>2. \A i \in change.created : new[i] \in Programme
  BY DEF Touches
<1>3. \A pr \in change.reread : new[pr[1]] \in Programme
  BY DEF Touches
<1>4. ASSUME NEW c \in Id
      PROVE  \/ W(c) = cands[c]
             \/ cands[c] = None /\ \E i \in change.created : W(c) = new[i]
             \/ cands[c] \notin {None, Gone} /\ \E pr \in change.reread :
                  pr[2] = c /\ W(c) = new[pr[1]]
             \/ cands[c] \notin {None, Gone} /\ c \in change.retired /\ W(c) = Gone
  <2>1. CASE cands[c] = None /\ creates(c) # {}
    <3>1. (CHOOSE i \in creates(c) : TRUE) \in creates(c)
      BY <2>1
    <3>2. creates(c) \subseteq change.created
      OBVIOUS
    <3>3. W(c) = new[CHOOSE i \in creates(c) : TRUE]
      BY <2>1
    <3> HIDE DEF W, creates
    <3> QED  BY <2>1, <3>1, <3>2, <3>3
  <2>2. CASE cands[c] \notin {None, Gone} /\ rereads(c) # {}
    <3>1. (CHOOSE pr \in rereads(c) : TRUE) \in rereads(c)
      BY <2>2
    <3>2. \A pr \in rereads(c) : pr \in change.reread /\ pr[2] = c
      OBVIOUS
    <3>3. W(c) = new[(CHOOSE pr \in rereads(c) : TRUE)[1]]
      BY <2>2
    <3> HIDE DEF W, rereads
    <3> QED  BY <2>2, <3>1, <3>2, <3>3
  <2>3. CASE cands[c] \notin {None, Gone} /\ c \in change.retired /\ rereads(c) = {}
    BY <2>3
  <2>4. CASE ~(cands[c] = None /\ creates(c) # {})
             /\ ~(cands[c] \notin {None, Gone} /\ rereads(c) # {})
             /\ ~(cands[c] \notin {None, Gone} /\ c \in change.retired /\ rereads(c) = {})
    BY <2>4
  <2> QED  BY <2>1, <2>2, <2>3, <2>4
<1> HIDE DEF W
<1>5. \A c \in Id : W(c) \in Programme \cup {None, Gone}
  BY <1>2, <1>3, <1>4
<1> QED  BY <1>1, <1>2, <1>3, <1>4, <1>5

-----------------------------------------------------------------------------
(* Nobody but the pass at work reads the post, and its copies are current. *)
Serial == "person" \notin Beside /\ "reader" \notin Beside

LEMMA IdleIsLocal == Idle \in Local
<1>1. [c \in {} |-> None] \in [{} -> Programme]
  OBVIOUS
<1>2. [c \in {} |-> None] \in Existing
  BY <1>1 DEF Existing
<1>3. <<>> \in Seq(Programme)
  OBVIOUS
<1> QED  BY <1>2, <1>3 DEF Idle, Local, Job

LEMMA StoredExists ==
  ASSUME PassIsTyped
  PROVE  Stored \in Existing /\ DOMAIN Stored = Present /\ Present \subseteq Id
<1>1. Stored \in [Present -> Programme]
  BY DEF Stored, Present, PresentIn, PassIsTyped
<1>2. Present \subseteq Id
  BY DEF Present, PresentIn
<1> QED  BY <1>1, <1>2 DEF Existing

LEMMA InitIdInv == Init => IdInv
<1> SUFFICES ASSUME Init PROVE IdInv
  OBVIOUS
<1> USE IdentityAssumption
<1>1. Idle \in Local
  BY IdleIsLocal
<1>2. PassIsTyped
  BY <1>1 DEF Init, PassIsTyped
<1>3. \A p \in Process : pass[p].job = "none"
  BY DEF Init, Idle
<1>4. Reviewed = {} /\ decided = {}
  BY DEF Init, Reviewed
<1>5. \A c \in Id : cand[c] = None
  BY DEF Init
<1>6. Snapshots
  BY <1>3 DEF Snapshots
<1>7. DecidedIsThere
  BY <1>4 DEF DecidedIsThere
<1>8. OneReads /\ NothingBefore
  BY <1>3, <1>5 DEF OneReads, NothingBefore
<1> QED  BY <1>2, <1>6, <1>7, <1>8 DEF IdInv

(* What the end of a pass must see to, the rest being as it was.           *)
LEMMA PassEnds ==
  ASSUME IdInv, Serial, NEW p \in Process, pass[p].job # "none",
         pass' = [pass EXCEPT ![p] = Idle], UNCHANGED <<text, known, review, decided>>,
         cand' \in [Id -> Programme \cup {None, Gone}],
         \A c \in Reviewed \cup decided : cand'[c] \notin {None, Gone}
  PROVE  IdInv'
<1> USE IdentityAssumption
<1>1. Idle \in Local
  BY IdleIsLocal
<1>2. PassIsTyped'
  BY <1>1 DEF IdInv, PassIsTyped
<1>3. \A q \in Process : pass'[q].job = "none"
  BY DEF IdInv, PassIsTyped, OneReads, Idle
<1>4. Snapshots'
  BY <1>3 DEF Snapshots
<1>5. Reviewed' = Reviewed /\ decided' = decided
  BY DEF Reviewed
<1>6. DecidedIsThere'
  BY <1>5 DEF DecidedIsThere, Present, PresentIn, Reviewed, IdInv, PassIsTyped
<1>7. known' /\ known
  BY DEF IdInv, NothingBefore
<1>8. OneReads' /\ NothingBefore'
  BY <1>3, <1>7 DEF OneReads, NothingBefore
<1> QED  BY <1>2, <1>4, <1>6, <1>8 DEF IdInv

(* What a re-read does to a candidate, whose copy is current.              *)
LEMMA RereadDoes ==
  ASSUME IdInv, NEW p \in Process, Reread(p)
  PROVE  LET s == pass[p]
             change == Changes(s.existing, s.reading, s.aware, s.reviewed, s.refused, s.decided)
         IN /\ s \in Local /\ s.existing = Stored
            /\ s.reviewed = Reviewed /\ s.refused = Refused /\ s.decided = decided
            /\ s.aware \/ Present \cap Reviewed = {}
            /\ Spares(change, Stored, s.reading, s.aware, Reviewed, Refused, decided)
            /\ cand' = Written(cand, s.reading, change)
<1> DEFINE s == pass[p]
           change == Changes(s.existing, s.reading, s.aware, s.reviewed, s.refused, s.decided)
<1>1. s \in Local
  BY DEF IdInv, PassIsTyped
<1>2. s.job = "item" /\ cand' = Written(cand, s.reading, change)
  BY DEF Reread
<1>3. /\ s.existing = Stored /\ s.reviewed = Reviewed /\ s.refused = Refused
      /\ s.decided = decided /\ (s.aware \/ Present \cap Reviewed = {})
  BY <1>2 DEF IdInv, Snapshots
<1>4. DOMAIN s.existing = Present
  BY <1>3 DEF Stored
<1>5. s.aware \/ DOMAIN s.existing \cap s.reviewed = {}
  BY <1>3, <1>4
<1>6. s.existing \in Existing /\ s.reading \in Seq(Programme) /\ s.aware \in BOOLEAN
  BY <1>1 DEF Local
<1>7. Spares(change, s.existing, s.reading, s.aware, s.reviewed, s.refused, s.decided)
  BY <1>5, <1>6, ChangesSpare
<1> HIDE DEF change
<1>8. Spares(change, Stored, s.reading, s.aware, Reviewed, Refused, decided)
  BY <1>3, <1>7
<1> USE DEF change
<1> QED  BY <1>1, <1>2, <1>3, <1>8

(* A re-read leaves what people decided, its days and its candidates' own. *)
LEMMA RereadSpares ==
  ASSUME IdInv, NEW p \in Process, Reread(p)
  PROVE  /\ cand' \in [Id -> Programme \cup {None, Gone}]
         /\ \A c \in Reviewed : cand'[c] = cand[c]
         /\ \A c \in decided : cand'[c] \notin {None, Gone}
         /\ \A c, d \in Id :
              c \in Refused /\ cand[d] = None /\ cand'[d] \notin {None, Gone}
              => cand'[d].date # cand[c].date
         /\ \A c \in Present :
              c \in PresentIn(cand') /\ cand'[c].date # cand[c].date
              => Present = {c} /\ PresentIn(cand') = {c}
<1> USE IdentityAssumption
<1> DEFINE s == pass[p]
           change == Changes(s.existing, s.reading, s.aware, s.reviewed, s.refused, s.decided)
<1>1. /\ s \in Local
      /\ s.aware \/ Present \cap Reviewed = {}
      /\ Spares(change, Stored, s.reading, s.aware, Reviewed, Refused, decided)
      /\ cand' = Written(cand, s.reading, change)
  BY RereadDoes
<1> HIDE DEF change
<1>2. s.reading \in Seq(Programme)
  BY <1>1 DEF Local
<1>3. Stored \in Existing /\ DOMAIN Stored = Present /\ Present \subseteq Id
  BY StoredExists DEF IdInv
<1>4. /\ cand \in [Id -> Programme \cup {None, Gone}]
      /\ Reviewed \subseteq Present /\ decided \subseteq Present /\ Refused \subseteq Reviewed
  BY DEF IdInv, PassIsTyped, DecidedIsThere, Refused, Reviewed
<1>5. Touches(change, Stored, s.reading)
  BY <1>1 DEF Spares
<1>6. /\ cand' \in [Id -> Programme \cup {None, Gone}]
      /\ \A c \in Id :
           \/ cand'[c] = cand[c]
           \/ cand[c] = None /\ \E i \in change.created : cand'[c] = s.reading[i]
           \/ cand[c] \notin {None, Gone} /\ \E pr \in change.reread :
                pr[2] = c /\ cand'[c] = s.reading[pr[1]]
           \/ cand[c] \notin {None, Gone} /\ c \in change.retired /\ cand'[c] = Gone
      /\ \A pr \in change.reread : s.reading[pr[1]] \in Programme
  BY <1>1, <1>2, <1>3, <1>4, <1>5, WrittenIs
<1>7. /\ \A pr \in change.reread : pr[2] \notin Reviewed
      /\ change.retired \cap (Reviewed \cup decided) = {}
      /\ \A i \in change.created, c \in Present \cap Reviewed \cap Refused :
           s.reading[i].date # None /\ s.reading[i].date # Stored[c].date
      /\ \/ \A pr \in change.reread : s.reading[pr[1]].date = Stored[pr[2]].date
         \/ /\ Cardinality(Present) = 1
            /\ change.retired = {} /\ change.created = {}
  BY <1>1, <1>3 DEF Spares
<1>8. \A c \in Present : cand[c] \notin {None, Gone} /\ Stored[c] = cand[c]
  BY DEF Present, PresentIn, Stored
<1> HIDE DEF s
<1>9. \A c \in Reviewed : cand'[c] = cand[c]
  BY <1>3, <1>4, <1>6, <1>7, <1>8
<1>10. \A c \in decided : cand'[c] \notin {None, Gone}
  BY <1>3, <1>4, <1>6, <1>7, <1>8
<1>11. ASSUME NEW c \in Id, NEW d \in Id,
              c \in Refused, cand[d] = None, cand'[d] \notin {None, Gone}
       PROVE  cand'[d].date # cand[c].date
  <2>1. c \in Present /\ c \in Reviewed /\ Stored[c] = cand[c]
    BY <1>4, <1>8, <1>11
  <2>2. PICK i \in change.created : cand'[d] = s.reading[i]
    BY <1>6, <1>11
  <2> QED  BY <1>7, <1>11, <2>1, <2>2
<1>12. ASSUME NEW c \in Present, c \in PresentIn(cand'), cand'[c].date # cand[c].date
       PROVE  Present = {c} /\ PresentIn(cand') = {c}
  <2>1. c \in Id /\ cand[c] \notin {None, Gone} /\ cand'[c] \notin {None, Gone}
    BY <1>3, <1>8, <1>12 DEF PresentIn
  <2>2. PICK pr \in change.reread : pr[2] = c /\ cand'[c] = s.reading[pr[1]]
    BY <1>6, <1>12, <2>1
  <2>3. s.reading[pr[1]].date # Stored[pr[2]].date
    BY <1>8, <1>12, <2>2
  <2>4. Cardinality(Present) = 1 /\ change.retired = {} /\ change.created = {}
    BY <1>7, <2>3
  <2>5. Present = {c}
    <3>1. IsFiniteSet(Id)
      <4>1. MaxId \in Int /\ 1 \in Int
        BY IdentityAssumption
      <4> HIDE IdentityAssumption
      <4> QED  BY <4>1, FS_Interval DEF Id
    <3>2. IsFiniteSet(Present)
      BY <1>3, <3>1, FS_Subset
    <3>3. PICK x : Present = {x}
      BY <2>4, <3>2, FS_Singleton
    <3> QED  BY <3>3
  <2>6. \A d \in Id : d \in PresentIn(cand') => d = c
    <3> SUFFICES ASSUME NEW d \in Id, d # c PROVE cand'[d] \in {None, Gone}
      BY DEF PresentIn
    <3>1. cand[d] \in {None, Gone}
      BY <2>5 DEF Present, PresentIn
    <3> QED  BY <1>6, <2>4, <3>1
  <2> QED  BY <2>1, <2>5, <2>6, <1>12 DEF PresentIn
<1> QED  BY <1>6, <1>9, <1>10, <1>11, <1>12

(* The inductive invariant.                                                *)
LEMMA StepIdInv == Serial /\ IdInv /\ [Next]_vars => IdInv'
<1> SUFFICES ASSUME Serial, IdInv, [Next]_vars PROVE IdInv'
  OBVIOUS
<1> USE IdentityAssumption
<1>1. ASSUME UNCHANGED vars PROVE IdInv'
  BY <1>1 DEF vars, IdInv, PassIsTyped, Snapshots, DecidedIsThere, OneReads, NothingBefore,
              Reviewed, Refused, Present, PresentIn, Stored
<1>2. ASSUME Edit PROVE IdInv'
  <2>1. /\ text' \in Reading
        /\ UNCHANGED <<known, cand, review, decided, pass>>
    BY <1>2 DEF Edit, person
  <2> QED
    BY <2>1 DEF IdInv, PassIsTyped, Snapshots, DecidedIsThere, OneReads, NothingBefore,
                Reviewed, Refused, Present, PresentIn, Stored
<1>3. ASSUME NobodyReads, NEW c \in Present,
             UNCHANGED <<text, known, cand, pass>>,
             review' \in [Id -> {"none", "kept", "refused"}], decided' \in SUBSET Id,
             \A d \in Id \ {c} : review'[d] = review[d] /\ (d \in decided' => d \in decided)
      PROVE  IdInv'
  <2>1. \A p \in Process : pass'[p].job \notin {"batch", "item"}
    BY <1>3 DEF NobodyReads, Serial
  <2>2. PassIsTyped' /\ OneReads' /\ NothingBefore'
    BY <1>3 DEF IdInv, PassIsTyped, OneReads, NothingBefore
  <2>3. Snapshots'
    BY <2>1 DEF Snapshots
  <2>4. DecidedIsThere'
    BY <1>3 DEF IdInv, PassIsTyped, DecidedIsThere, Reviewed, Present, PresentIn
  <2> QED  BY <2>2, <2>3, <2>4 DEF IdInv
<1>4. ASSUME NEW c \in Id, Review(c) PROVE IdInv'
  <2>1. PICK as \in {"kept", "refused"} : review' = [review EXCEPT ![c] = as]
    BY <1>4 DEF Review
  <2>2. NobodyReads /\ c \in Present /\ UNCHANGED <<text, known, cand, decided, pass>>
    BY <1>4 DEF Review
  <2> QED  BY <1>3, <2>1, <2>2 DEF IdInv, PassIsTyped
<1>5. ASSUME NEW c \in Id, Answer(c) PROVE IdInv'
  <2>1. /\ NobodyReads /\ c \in Present /\ decided' = decided \cup {c}
        /\ UNCHANGED <<text, known, cand, review, pass>>
    BY <1>5 DEF Answer
  <2> QED  BY <1>3, <2>1 DEF IdInv, PassIsTyped
<1>6. ASSUME NEW p \in Process, Ingest(p) PROVE IdInv'
  <2>1. /\ \A q \in Process : pass[q].job = "none" /\ ~known /\ known'
        /\ pass' = [pass EXCEPT ![p] = [Idle EXCEPT !.job = "ingest", !.reading = text]]
        /\ UNCHANGED <<text, cand, review, decided>>
    BY <1>6 DEF Ingest, Alone, Serial, person
  <2>2. [Idle EXCEPT !.job = "ingest", !.reading = text] \in Local
    BY IdleIsLocal DEF IdInv, PassIsTyped, Local, Job
  <2>3. PassIsTyped'
    BY <2>1, <2>2 DEF IdInv, PassIsTyped
  <2>4. \A q \in Process : pass'[q].job = IF q = p THEN "ingest" ELSE "none"
    BY <2>1 DEF IdInv, PassIsTyped, Idle
  <2>5. Snapshots' /\ OneReads'
    BY <2>4 DEF Snapshots, OneReads
  <2>6. DecidedIsThere' /\ NothingBefore'
    BY <2>1 DEF IdInv, DecidedIsThere, NothingBefore, Reviewed, Present, PresentIn
  <2> QED  BY <2>3, <2>5, <2>6 DEF IdInv
<1>7. ASSUME NEW p \in Process, IngestEvents(p) PROVE IdInv'
  <2>1. Reviewed \cup decided = {} /\ pass[p].job # "none"
    BY <1>7 DEF IngestEvents, IdInv, NothingBefore, DecidedIsThere, Present, PresentIn
  <2> DEFINE change == [NoChange EXCEPT !.created = DOMAIN pass[p].reading]
  <2>2. /\ cand' = Written(cand, pass[p].reading, change)
        /\ pass' = [pass EXCEPT ![p] = Idle]
        /\ UNCHANGED <<text, known, review, decided>>
    BY <1>7 DEF IngestEvents, person
  <2>3. Touches(change, Idle.existing, pass[p].reading)
    BY DEF Touches, NoChange
  <2> HIDE DEF change
  <2>4. Idle.existing \in Existing /\ pass[p].reading \in Seq(Programme)
    BY IdleIsLocal DEF IdInv, PassIsTyped, Local
  <2>5. cand' \in [Id -> Programme \cup {None, Gone}]
    BY <2>2, <2>3, <2>4, WrittenIs DEF IdInv, PassIsTyped
  <2> QED  BY <2>1, <2>2, <2>5, PassEnds
<1>8. ASSUME NEW p \in Process, StartBatch(p) PROVE IdInv'
  <2> DEFINE local == [Idle EXCEPT
               !.job = "batch", !.reading = text, !.reviewed = Reviewed,
               !.refused = {c \in Id : review[c] = "refused"}, !.decided = decided]
  <2>1. /\ \A q \in Process : pass[q].job = "none" /\ known
        /\ pass' = [pass EXCEPT ![p] = local]
        /\ UNCHANGED <<text, known, cand, review, decided>>
    BY <1>8 DEF StartBatch, Alone, Serial, person
  <2>2. local \in Local /\ local.job = "batch" /\ local.reviewed = Reviewed
        /\ local.refused = Refused /\ local.decided = decided
    BY IdleIsLocal DEF IdInv, PassIsTyped, Local, Job, Reviewed, Refused
  <2> HIDE DEF local
  <2>3. PassIsTyped'
    BY <2>1, <2>2 DEF IdInv, PassIsTyped
  <2>4. \A q \in Process : pass'[q] = IF q = p THEN local ELSE pass[q]
    BY <2>1 DEF IdInv, PassIsTyped
  <2>5. Snapshots'
    BY <2>1, <2>2, <2>4 DEF Snapshots, Reviewed, Refused
  <2>6. OneReads'
    BY <2>1, <2>4 DEF OneReads
  <2>7. DecidedIsThere' /\ NothingBefore'
    BY <2>1, <2>2, <2>4 DEF IdInv, DecidedIsThere, NothingBefore, Reviewed, Present, PresentIn
  <2> QED  BY <2>3, <2>5, <2>6, <2>7 DEF IdInv
<1>9. ASSUME NEW p \in Process, ReadStored(p) PROVE IdInv'
  <2>1. /\ pass[p].job = "batch" /\ UNCHANGED <<text, known, cand, review, decided>>
    BY <1>9 DEF ReadStored, person
  <2>2. CASE pass' = [pass EXCEPT ![p] = Idle]
    <3>1. \A c \in Reviewed \cup decided : cand'[c] \notin {None, Gone}
      BY <2>1 DEF IdInv, DecidedIsThere, Present, PresentIn
    <3> QED  BY <2>1, <2>2, <3>1, PassEnds DEF IdInv, PassIsTyped
  <2>3. CASE \E aware \in BOOLEAN :
               /\ Present \cap pass[p].reviewed = {} \/ aware
               /\ pass' = [pass EXCEPT ![p].job = "item", ![p].existing = Stored,
                                      ![p].aware = aware]
    <3>1. PICK aware \in BOOLEAN :
               /\ Present \cap pass[p].reviewed = {} \/ aware
               /\ pass' = [pass EXCEPT ![p].job = "item", ![p].existing = Stored,
                                      ![p].aware = aware]
      BY <2>3
    <3> DEFINE local == [pass[p] EXCEPT !.job = "item", !.existing = Stored, !.aware = aware]
    <3>2. pass[p] \in Local
      BY DEF IdInv, PassIsTyped
    <3>3. Stored \in Existing
      BY StoredExists DEF IdInv
    <3>4. local \in Local /\ local.job = "item" /\ local.existing = Stored
          /\ local.aware = aware /\ local.reviewed = pass[p].reviewed
          /\ local.refused = pass[p].refused /\ local.decided = pass[p].decided
      BY <3>2, <3>3 DEF Local, Job
    <3>5. pass' = [pass EXCEPT ![p] = local]
      BY <3>1, <3>2 DEF IdInv, PassIsTyped, Local
    <3> HIDE DEF local
    <3>6. PassIsTyped'
      BY <2>1, <3>4, <3>5 DEF IdInv, PassIsTyped
    <3>7. \A q \in Process : pass'[q] = IF q = p THEN local ELSE pass[q]
      BY <3>5 DEF IdInv, PassIsTyped
    <3>8. /\ pass[p].reviewed = Reviewed /\ pass[p].refused = Refused
          /\ pass[p].decided = decided
      BY <2>1 DEF IdInv, Snapshots
    <3>9. Reviewed' = Reviewed /\ Refused' = Refused /\ Stored' = Stored
          /\ Present' = Present
      BY <2>1 DEF Reviewed, Refused, Stored, Present, PresentIn
    <3>10. Snapshots'
      BY ZenonT(60), <2>1, <3>1, <3>4, <3>7, <3>8, <3>9 DEF IdInv, Snapshots
    <3>11. OneReads' /\ NothingBefore' /\ DecidedIsThere'
      BY <2>1, <3>4, <3>7, <3>9 DEF IdInv, OneReads, NothingBefore, DecidedIsThere
    <3> QED  BY <3>6, <3>10, <3>11 DEF IdInv
  <2> QED  BY <1>9, <2>2, <2>3 DEF ReadStored
<1>10. ASSUME NEW p \in Process, Reread(p) PROVE IdInv'
  <2>1. /\ pass[p].job # "none" /\ pass' = [pass EXCEPT ![p] = Idle]
        /\ UNCHANGED <<text, known, review, decided>>
    BY <1>10 DEF Reread, person
  <2>2. \A c \in Reviewed : cand[c] \notin {None, Gone}
    BY DEF IdInv, DecidedIsThere, Present, PresentIn
  <2>3. /\ cand' \in [Id -> Programme \cup {None, Gone}]
        /\ \A c \in Reviewed \cup decided : cand'[c] \notin {None, Gone}
    BY <1>10, <2>2, RereadSpares
  <2> QED  BY <2>1, <2>3, PassEnds
<1>11. ASSUME NEW p \in Process, Crash(p) PROVE IdInv'
  <2>1. /\ pass[p].job # "none" /\ pass' = [pass EXCEPT ![p] = Idle]
        /\ UNCHANGED <<text, known, cand, review, decided>>
    BY <1>11 DEF Crash, person
  <2>2. \A c \in Reviewed \cup decided : cand'[c] \notin {None, Gone}
    BY <2>1 DEF IdInv, DecidedIsThere, Present, PresentIn
  <2> QED  BY <2>1, <2>2, PassEnds DEF IdInv, PassIsTyped
<1> QED
  BY <1>1, <1>2, <1>4, <1>5, <1>6, <1>7, <1>8, <1>9, <1>10, <1>11 DEF Next

(* What a step may do to the candidates: all that RereadSpares says.       *)
Spared ==
  /\ \A c \in Reviewed : cand'[c] = cand[c]
  /\ \A c \in decided : cand'[c] # Gone
  /\ \A c, d \in Id :
       review[c] = "refused" /\ cand[d] = None /\ d \in PresentIn(cand')
       => cand'[d].date # cand[c].date \/ cand[c].date = None
  /\ \A c \in Present : c \in PresentIn(cand') /\ cand'[c].date # cand[c].date
       => Present = {c} /\ PresentIn(cand') = {c}

LEMMA StepSpares == Serial /\ IdInv /\ [Next]_vars => Spared
<1> SUFFICES ASSUME Serial, IdInv, [Next]_vars PROVE Spared
  OBVIOUS
<1> USE IdentityAssumption
<1>1. ASSUME cand' = cand PROVE Spared
  BY <1>1 DEF Spared, IdInv, DecidedIsThere, Present, PresentIn
<1>2. ASSUME NEW p \in Process, IngestEvents(p) PROVE Spared
  <2>1. \A c \in Id : cand[c] = None
    BY <1>2 DEF IngestEvents, IdInv, NothingBefore
  <2>2. Present = {} /\ Reviewed = {} /\ decided = {}
    BY <2>1 DEF IdInv, DecidedIsThere, Present, PresentIn
  <2> QED  BY <2>2 DEF Spared, Reviewed
<1>3. ASSUME NEW p \in Process, Reread(p) PROVE Spared
  <2>1. \A c \in Id : review[c] = "refused" => c \in Refused
    BY DEF Refused
  <2>2. \A d \in PresentIn(cand') : d \in Id /\ cand'[d] \notin {None, Gone}
    BY DEF PresentIn
  <2> QED  BY <1>3, <2>1, <2>2, RereadSpares DEF Spared
<1>4. CASE UNCHANGED vars
  BY <1>1, <1>4 DEF vars
<1>5. CASE Edit
  BY <1>1, <1>5 DEF Edit
<1>6. ASSUME NEW c \in Id, Review(c) \/ Answer(c) PROVE Spared
  BY <1>1, <1>6 DEF Review, Answer
<1>7. ASSUME NEW p \in Process,
             Ingest(p) \/ StartBatch(p) \/ ReadStored(p) \/ Crash(p)
      PROVE  Spared
  BY <1>1, <1>7 DEF Ingest, StartBatch, ReadStored, Crash
<1> QED  BY <1>2, <1>3, <1>4, <1>5, <1>6, <1>7 DEF Next

LEMMA SpecSpares ==
  ASSUME Serial
  PROVE  Spec => [][Spared]_vars
<1>1. Init => IdInv
  BY InitIdInv
<1>2. IdInv /\ [Next]_vars => IdInv' /\ [Spared]_vars
  BY StepIdInv, StepSpares
<1> QED  BY <1>1, <1>2, PTL DEF Spec

(* "A reviewed candidate is never re-read, retired or renumbered, paired   *)
(* or not", whatever the post says and whatever match() finds.             *)
THEOREM ReviewedIsNeverTouched ==
  ASSUME Serial
  PROVE  Spec => ReviewedStays
<1>1. [Spared]_vars => [\A c \in Reviewed : cand'[c] = cand[c]]_vars
  BY DEF Spared
<1> QED  BY <1>1, SpecSpares, PTL DEF ReviewedStays

(* An event a person answered a duplicate question about keeps its         *)
(* candidate, though the post no longer has it.                            *)
THEOREM AnsweredIsNeverRetired ==
  ASSUME Serial
  PROVE  Spec => AnsweredStays
<1>1. [Spared]_vars => [\A c \in decided : cand'[c] # Gone]_vars
  BY DEF Spared
<1> QED  BY <1>1, SpecSpares, PTL DEF AnsweredStays

(* While a refused candidate stands, no pass gives its day a further one.  *)
THEOREM RefusedDayIsKept ==
  ASSUME Serial
  PROVE  Spec => RefusedDayStays
<1>1. [Spared]_vars =>
        [\A c, d \in Id :
           review[c] = "refused" /\ cand[d] = None /\ d \in PresentIn(cand')
           => cand'[d].date # cand[c].date \/ cand[c].date = None]_vars
  BY DEF Spared
<1> QED  BY <1>1, SpecSpares, PTL DEF RefusedDayStays

(* Only the post that had one programme and has one moves a candidate to   *)
(* another day.                                                            *)
THEOREM NoDayIsMoved ==
  ASSUME Serial
  PROVE  Spec => NoDayMoves
<1>1. [Spared]_vars =>
        [\A c \in Present : c \in PresentIn(cand') /\ cand'[c].date # cand[c].date
           => Present = {c} /\ PresentIn(cand') = {c}]_vars
  BY DEF Spared
<1> QED  BY <1>1, SpecSpares, PTL DEF NoDayMoves

-----------------------------------------------------------------------------
(* Ids are given out in order.                                             *)

Below == {b \in Nat \X Nat : b[1] < b[2]}

LEMMA LeastExists ==
  ASSUME NEW S, S \subseteq Nat, S # {}
  PROVE  \E x \in S : \A y \in S : x <= y
<1>1. IsWellFoundedOn(Below, Nat)
  BY NatLessThanWellFounded DEF OpToRel, Below
<1>2. PICK x \in S : \A y \in S : ~(<<y, x>> \in Below)
  BY <1>1, WFMin
<1>3. \A y \in S : ~(y < x)
  BY <1>2 DEF Below
<1> QED  BY <1>3

UpTo(S, n) == {j \in S : j <= n}

(* Of the members of a finite set, some is the k-th.                       *)
LEMMA RanksAreTaken ==
  ASSUME NEW n \in Nat, NEW S \in SUBSET (1 .. n), NEW k \in 1 .. Cardinality(S)
  PROVE  \E i \in S : Cardinality(UpTo(S, i)) = k
<1>0. \A j \in S : j \in Nat /\ 1 <= j /\ j <= n
  OBVIOUS
<1>1. IsFiniteSet(S)
  <2>1. IsFiniteSet(1 .. n)
    BY FS_Interval
  <2> QED  BY <2>1, FS_Subset
<1>2. \A m : IsFiniteSet(UpTo(S, m)) /\ Cardinality(UpTo(S, m)) \in Nat
  BY <1>1, FS_Subset, FS_CardinalityType DEF UpTo
<1> DEFINE enough == {m \in Nat : k <= Cardinality(UpTo(S, m))}
<1>3. n \in enough
  <2>1. UpTo(S, n) = S
    BY <1>0 DEF UpTo
  <2>2. k <= Cardinality(S)
    BY <1>1, FS_CardinalityType
  <2> QED  BY <2>1, <2>2
<1>4. PICK m \in enough : \A l \in enough : m <= l
  BY <1>3, LeastExists
<1>5. m # 0
  <2>0. \A j \in S : ~(j <= 0)
    BY <1>0
  <2>1. UpTo(S, 0) = {}
    BY <2>0, Zenon DEF UpTo
  <2>2. Cardinality(UpTo(S, 0)) = 0
    BY <2>1, FS_EmptySet
  <2> QED  BY <2>2
<1>6. m - 1 \in Nat /\ m - 1 \notin enough
  BY <1>4, <1>5
<1>7. Cardinality(UpTo(S, m - 1)) < k /\ k <= Cardinality(UpTo(S, m))
  BY <1>2, <1>4, <1>6
<1>8. m \in S /\ UpTo(S, m) = UpTo(S, m - 1) \cup {m}
  <2>0. \A j \in S : j <= m <=> (j <= m - 1 \/ j = m)
    BY <1>0, <1>6
  <2>1. m \notin S => UpTo(S, m) = UpTo(S, m - 1)
    BY <2>0, Zenon DEF UpTo
  <2>2. m \in S
    BY <1>2, <1>7, <2>1
  <2>3. UpTo(S, m) = UpTo(S, m - 1) \cup {m}
    <3>1. \A j : j \in UpTo(S, m) <=> j \in UpTo(S, m - 1) \/ j = m
      BY <2>0, <2>2, Zenon DEF UpTo
    <3> QED  BY <3>1, Zenon
  <2> QED  BY <2>2, <2>3
<1>9. m \notin UpTo(S, m - 1)
  BY <1>8 DEF UpTo
<1>10. Cardinality(UpTo(S, m)) = Cardinality(UpTo(S, m - 1)) + 1
  BY <1>2, <1>8, <1>9, FS_AddElement
<1>11. Cardinality(UpTo(S, m)) = k
  BY <1>2, <1>7, <1>10
<1> QED  BY <1>8, <1>11

InOrder(cands) == \A c, d \in Id : c < d /\ cands[d] # None => cands[c] # None

LEMMA GivenAreFirst ==
  ASSUME NEW cands, InOrder(cands)
  PROVE  Given(cands) \in Nat /\ {c \in Id : cands[c] # None} = 1 .. Given(cands)
<1>1. MaxId \in Nat
  BY IdentityAssumption
<1> DEFINE given == {c \in Id : cands[c] # None}
           free == {n \in Nat : n + 1 \notin given}
<1>2. MaxId \in free
  BY <1>1 DEF Id
<1>3. PICK n \in free : \A m \in free : n <= m
  BY <1>2, LeastExists
<1>4. \A c \in 1 .. n : c \in given
  <2> TAKE c \in 1 .. n
  <2>1. c - 1 \in Nat /\ c - 1 \notin free
    BY <1>3
  <2> QED  BY <2>1
<1>5. \A c \in given : c \in 1 .. n
  <2> TAKE c \in given
  <2>1. c \in 1 .. MaxId /\ n + 1 \in Nat
    BY <1>3 DEF Id
  <2>2. ASSUME n + 1 < c PROVE FALSE
    <3>1. n + 1 \in Id
      BY <1>1, <1>3, <2>1, <2>2 DEF Id
    <3> QED  BY <1>3, <2>2, <3>1 DEF InOrder
  <2>3. c # n + 1
    BY <1>3
  <2> QED  BY <1>3, <2>1, <2>2, <2>3
<1>6. given = 1 .. n
  BY <1>4, <1>5
<1>7. Cardinality(given) = n
  <2>1. n \in Nat /\ 1 \in Int
    BY <1>3
  <2>2. Cardinality(1 .. n) = n
    BY <2>1, FS_Interval
  <2> QED  BY <1>6, <2>2
<1>8. Given(cands) = n
  BY <1>7 DEF Given
<1> QED  BY <1>3, <1>6, <1>8

-----------------------------------------------------------------------------
(* Where what is written of a candidate comes from.                        *)
NewIdOf(cands, change, i) == Given(cands) + Cardinality(UpTo(change.created, i))

LEMMA WrittenFrom ==
  ASSUME NEW cands, NEW new, NEW change, NEW c \in Id
  PROVE  LET w == Written(cands, new, change)[c]
             creates == {i \in change.created : NewIdOf(cands, change, i) = c}
             rereads == {pr \in change.reread : pr[2] = c}
         IN /\ cands[c] = None =>
                 \/ creates = {} /\ w = None
                 \/ \E i \in creates : w = new[i]
            /\ cands[c] = Gone /\ None # Gone => w = Gone
            /\ cands[c] \notin {None, Gone} =>
                 \/ rereads = {} /\ c \in change.retired /\ w = Gone
                 \/ rereads = {} /\ c \notin change.retired /\ w = cands[c]
                 \/ \E pr \in rereads : w = new[pr[1]]
<1> DEFINE creates == {i \in change.created : NewIdOf(cands, change, i) = c}
           rereads == {pr \in change.reread : pr[2] = c}
           w == CASE cands[c] = None /\ creates # {} -> new[CHOOSE i \in creates : TRUE]
                  [] cands[c] \notin {None, Gone} /\ rereads # {} ->
                       new[(CHOOSE pr \in rereads : TRUE)[1]]
                  [] cands[c] \notin {None, Gone} /\ c \in change.retired /\ rereads = {} -> Gone
                  [] OTHER -> cands[c]
<1>1. Written(cands, new, change)[c] = w
  BY DEF Written, NewIdOf, UpTo
<1>2. creates # {} => (CHOOSE i \in creates : TRUE) \in creates
  OBVIOUS
<1>3. rereads # {} => (CHOOSE pr \in rereads : TRUE) \in rereads
  OBVIOUS
<1> HIDE DEF creates, rereads
<1>4. CASE cands[c] = None /\ creates # {}
  <2>1. w = new[CHOOSE i \in creates : TRUE]
    BY <1>4
  <2> HIDE DEF w
  <2> QED  BY <1>1, <1>2, <1>4, <2>1 DEF creates, rereads
<1>5. CASE cands[c] = None /\ creates = {}
  <2>1. w = cands[c]
    BY <1>5
  <2> HIDE DEF w
  <2> QED  BY <1>1, <1>5, <2>1 DEF creates, rereads
<1>6. CASE cands[c] = Gone /\ None # Gone
  <2>1. w = cands[c]
    BY <1>6
  <2> HIDE DEF w
  <2> QED  BY <1>1, <1>6, <2>1
<1>7. CASE cands[c] \notin {None, Gone} /\ rereads # {}
  <2>1. w = new[(CHOOSE pr \in rereads : TRUE)[1]]
    BY <1>7
  <2> HIDE DEF w
  <2> QED  BY <1>1, <1>3, <1>7, <2>1 DEF creates, rereads
<1>8. CASE cands[c] \notin {None, Gone} /\ rereads = {}
  <2>1. w = IF c \in change.retired THEN Gone ELSE cands[c]
    BY <1>8
  <2> HIDE DEF w
  <2> QED  BY <1>1, <1>8, <2>1 DEF creates, rereads
<1> HIDE DEF w
<1> QED  BY <1>4, <1>5, <1>6, <1>7, <1>8

LEMMA WrittenInOrder ==
  ASSUME NEW cands \in [Id -> Programme \cup {None, Gone}], NEW new \in Seq(Programme),
         NEW change, NEW old \in Existing, Touches(change, old, new), InOrder(cands)
  PROVE  InOrder(Written(cands, new, change))
<1> DEFINE W == Written(cands, new, change)
           S == change.created
<1>1. S \in SUBSET (1 .. Len(new)) /\ Len(new) \in Nat
  BY DEF Touches
<1>2. None \notin Programme /\ None # Gone
  BY IdentityAssumption
<1>3. \A i \in S : new[i] \in Programme
  BY <1>1
<1>4. \A c \in Id : cands[c] # None => W[c] # None
  BY <1>2, WrittenIs
<1>5. Given(cands) \in Nat /\ {c \in Id : cands[c] # None} = 1 .. Given(cands)
  BY GivenAreFirst
<1>6. \A i : IsFiniteSet(UpTo(S, i)) /\ Cardinality(UpTo(S, i)) \in Nat
               /\ Cardinality(UpTo(S, i)) <= Cardinality(S) /\ Cardinality(S) \in Nat
  <2>1. IsFiniteSet(1 .. Len(new))
    BY <1>1, FS_Interval
  <2>2. IsFiniteSet(S)
    BY <1>1, <2>1, FS_Subset
  <2> QED  BY <2>2, FS_Subset, FS_CardinalityType DEF UpTo
<1>7. \A c \in Id : cands[c] = None =>
        \/ W[c] = None
        \/ \E i \in S : NewIdOf(cands, change, i) = c
  BY WrittenFrom
<1>8. \A c \in Id : cands[c] = None /\ (\E i \in S : NewIdOf(cands, change, i) = c)
        => \E i \in S : W[c] = new[i]
  BY WrittenFrom
<1> HIDE DEF W
<1> SUFFICES ASSUME NEW c \in Id, NEW d \in Id, c < d, W[d] # None
             PROVE  W[c] # None
  BY DEF InOrder, W
<1>9. CASE cands[c] # None
  BY <1>4, <1>9
<1>10. CASE cands[c] = None /\ cands[d] # None
  BY <1>10 DEF InOrder
<1>11. CASE cands[c] = None /\ cands[d] = None
  <2>1. PICK i \in S : NewIdOf(cands, change, i) = d
    BY <1>7, <1>11
  <2>2. c \in Nat /\ d \in Nat /\ 1 <= c
    BY IdentityAssumption DEF Id
  <2>3. Given(cands) < c
    BY <1>5, <1>11, <2>2
  <2> DEFINE k == c - Given(cands)
  <2>4. k \in 1 .. Cardinality(S)
    BY <1>5, <1>6, <2>1, <2>2, <2>3 DEF NewIdOf
  <2>5. PICK j \in S : Cardinality(UpTo(S, j)) = k
    BY <1>1, <2>4, RanksAreTaken
  <2>6. NewIdOf(cands, change, j) = c
    BY <1>5, <2>2, <2>5 DEF NewIdOf
  <2> QED  BY <1>2, <1>3, <1>8, <1>11, <2>6
<1> QED  BY <1>9, <1>10, <1>11

LEMMA ChangesTouch ==
  ASSUME NEW old \in Existing, NEW new \in Seq(Programme), NEW aware \in BOOLEAN,
         NEW reviewed, NEW refused, NEW dec
  PROVE  Touches(Changes(old, new, aware, reviewed, refused, dec), old, new)
<1> DEFINE m == Match(old, new)
           change == Changes(old, new, aware, reviewed, refused, dec)
<1> SUFFICES Touches(change, old, new)
  OBVIOUS
<1>1. \A pr \in m.pairs : pr \in (DOMAIN new) \X (DOMAIN old)
  BY MatchPairsADay DEF SameDay
<1> HIDE DEF m
<1>2. Unpaired(m, new) \subseteq DOMAIN new /\ Removed(m, old) \subseteq DOMAIN old
  BY DEF Unpaired, Removed
<1>3. CASE aware
  <2>1. change = RereadAround(old, new, m, reviewed, refused)
    BY <1>3 DEF Changes, m
  <2>2. /\ change.reread \subseteq m.pairs /\ change.retired = {}
        /\ change.created \subseteq Unpaired(m, new)
    BY <2>1 DEF RereadAround, NoChange
  <2> HIDE DEF change
  <2> QED  BY <1>1, <1>2, <2>2 DEF Touches
<1>4. CASE ~aware /\ Cardinality(DOMAIN old) = 1 /\ Len(new) = 1
  <2>1. change = [NoChange EXCEPT !.reread = OneToOne(old, new)]
    BY <1>4 DEF Changes
  <2>2. change.reread = {<<1, c>> : c \in DOMAIN old} /\ change.retired = {}
        /\ change.created = {}
    BY <2>1 DEF NoChange, OneToOne
  <2>3. 1 \in DOMAIN new
    BY <1>4
  <2> HIDE DEF change
  <2> QED  BY <2>2, <2>3 DEF Touches
<1>5. CASE ~aware /\ ~(Cardinality(DOMAIN old) = 1 /\ Len(new) = 1)
  <2>1. change = RereadAll(old, new, m, dec)
    BY <1>5 DEF Changes, m
  <2>2. /\ change.reread = m.pairs /\ change.retired = Removed(m, old) \ dec
        /\ change.created = Unpaired(m, new)
    BY <2>1 DEF RereadAll
  <2> HIDE DEF change
  <2> QED  BY <1>1, <1>2, <2>2 DEF Touches
<1> QED  BY <1>3, <1>4, <1>5

LEMMA IdleIsTyped == Idle \in Pass
<1>1. [c \in {} |-> None] \in [{} -> Programme]
  OBVIOUS
<1>2. [c \in {} |-> None] \in Existing
  BY <1>1 DEF Existing
<1> QED  BY <1>2 DEF Idle, Pass, Job

LEMMA TypeStep == TypeOK /\ [Next]_vars => TypeOK'
<1> SUFFICES ASSUME TypeOK, [Next]_vars PROVE TypeOK'
  OBVIOUS
<1> DEFINE Cands == [Id -> Programme \cup {None, Gone}]
<1>0. /\ MaxEdits \in Nat /\ MaxAnswers \in Nat /\ Reading \subseteq Seq(Programme)
  BY IdentityAssumption
<1>a. Reading \cup {<<>>} \subseteq Seq(Programme)
  <2>1. <<>> \in Seq(Programme)
    OBVIOUS
  <2> QED  BY <1>0, <2>1
<1>1. cand \in Cands /\ InOrder(cand)
  BY DEF TypeOK, InOrder
<1>2. ASSUME NEW p \in Process, NEW s \in Pass, pass' = [pass EXCEPT ![p] = s],
             cand' \in Cands, InOrder(cand'), known' \in BOOLEAN, UNCHANGED <<text, person, edits>>
      PROVE  TypeOK'
  BY <1>2 DEF TypeOK, InOrder, person
<1>3. ASSUME NEW p \in Process, NEW new \in Reading \cup {<<>>}, NEW old \in Existing,
             NEW change, Touches(change, old, new), cand' = Written(cand, new, change)
      PROVE  cand' \in Cands /\ InOrder(cand')
  <2>1. new \in Seq(Programme)
    BY <1>a
  <2> QED  BY <1>1, <1>3, <2>1, WrittenIs, WrittenInOrder
<1>4. CASE Edit
  BY <1>0, <1>4 DEF Edit, TypeOK, person
<1>5. ASSUME NEW c \in Id, Review(c)
      PROVE  TypeOK'
  BY <1>5 DEF Review, TypeOK
<1>6. ASSUME NEW c \in Id, Answer(c)
      PROVE  TypeOK'
  <2>1. c \in Id /\ answers' \in 0 .. MaxAnswers
    BY <1>0, <1>6 DEF Answer, TypeOK
  <2> QED  BY <1>6, <2>1 DEF Answer, TypeOK
<1>7. ASSUME NEW p \in Process, Ingest(p)
      PROVE  TypeOK'
  <2>1. [Idle EXCEPT !.job = "ingest", !.reading = text] \in Pass
    BY IdleIsTyped DEF Pass, Job, TypeOK
  <2> QED  BY <1>1, <1>2, <1>7, <2>1 DEF Ingest
<1>8. ASSUME NEW p \in Process, IngestEvents(p)
      PROVE  TypeOK'
  <2> DEFINE change == [NoChange EXCEPT !.created = DOMAIN pass[p].reading]
  <2>1. /\ cand' = Written(cand, pass[p].reading, change)
        /\ pass' = [pass EXCEPT ![p] = Idle] /\ known' = known
        /\ UNCHANGED <<text, person, edits>>
    BY <1>8 DEF IngestEvents
  <2>2. Touches(change, Idle.existing, pass[p].reading)
    BY DEF Touches, NoChange
  <2>3. Idle.existing \in Existing /\ pass[p].reading \in Reading \cup {<<>>}
    BY IdleIsTyped DEF Pass, TypeOK
  <2> HIDE DEF change
  <2>4. cand' \in Cands /\ InOrder(cand')
    BY <1>3, <2>1, <2>2, <2>3
  <2>5. known' \in BOOLEAN
    BY <2>1 DEF TypeOK
  <2> QED  BY <1>2, <2>1, <2>4, <2>5, IdleIsTyped
<1>9. ASSUME NEW p \in Process, StartBatch(p)
      PROVE  TypeOK'
  <2> DEFINE local == [Idle EXCEPT
               !.job = "batch", !.reading = text, !.reviewed = Reviewed,
               !.refused = {c \in Id : review[c] = "refused"}, !.decided = decided]
  <2>1. local \in Pass
    BY IdleIsTyped DEF Pass, Job, TypeOK, Reviewed
  <2>2. /\ pass' = [pass EXCEPT ![p] = local]
        /\ UNCHANGED <<text, known, cand, person, edits>>
    BY <1>9 DEF StartBatch
  <2> HIDE DEF local
  <2> QED  BY <1>1, <1>2, <2>1, <2>2 DEF TypeOK
<1>10. ASSUME NEW p \in Process, ReadStored(p)
       PROVE  TypeOK'
  <2>1. UNCHANGED <<text, known, cand, person, edits>>
    BY <1>10 DEF ReadStored
  <2>2. CASE pass' = [pass EXCEPT ![p] = Idle]
    BY <1>1, <1>2, <2>1, <2>2, IdleIsTyped DEF TypeOK
  <2>3. CASE \E aware \in BOOLEAN :
               pass' = [pass EXCEPT ![p].job = "item", ![p].existing = Stored, ![p].aware = aware]
    <3>1. PICK aware \in BOOLEAN :
               pass' = [pass EXCEPT ![p].job = "item", ![p].existing = Stored, ![p].aware = aware]
      BY <2>3
    <3> DEFINE local == [pass[p] EXCEPT !.job = "item", !.existing = Stored, !.aware = aware]
    <3>2. Stored \in Existing
      <4>1. Stored \in [Present -> Programme]
        BY DEF Stored, Present, PresentIn, TypeOK
      <4>2. Present \subseteq Id
        BY DEF Present, PresentIn
      <4> QED  BY <4>1, <4>2 DEF Existing
    <3>3. local \in Pass
      BY <3>2 DEF Pass, Job, TypeOK
    <3>4. pass' = [pass EXCEPT ![p] = local]
      BY <3>1 DEF TypeOK, Pass
    <3> HIDE DEF local
    <3> QED  BY <1>1, <1>2, <2>1, <3>3, <3>4 DEF TypeOK
  <2> QED  BY <1>10, <2>2, <2>3 DEF ReadStored
<1>11. ASSUME NEW p \in Process, Reread(p)
       PROVE  TypeOK'
  <2> DEFINE s == pass[p]
             change == Changes(s.existing, s.reading, s.aware, s.reviewed, s.refused, s.decided)
  <2>1. /\ cand' = Written(cand, s.reading, change)
        /\ pass' = [pass EXCEPT ![p] = Idle] /\ known' = known
        /\ UNCHANGED <<text, person, edits>>
    BY <1>11 DEF Reread
  <2>2. s.existing \in Existing /\ s.reading \in Reading \cup {<<>>} /\ s.aware \in BOOLEAN
    BY DEF Pass, TypeOK
  <2>3. s.reading \in Seq(Programme)
    BY <1>a, <2>2
  <2>4. Touches(change, s.existing, s.reading)
    BY <2>2, <2>3, ChangesTouch
  <2> HIDE DEF change
  <2>5. cand' \in Cands /\ InOrder(cand')
    BY <1>3, <2>1, <2>2, <2>4
  <2>6. known' \in BOOLEAN
    BY <2>1 DEF TypeOK
  <2> QED  BY <1>2, <2>1, <2>5, <2>6, IdleIsTyped
<1>12. ASSUME NEW p \in Process, Crash(p)
       PROVE  TypeOK'
  BY <1>1, <1>2, <1>12, IdleIsTyped DEF Crash, TypeOK
<1>13. CASE UNCHANGED vars
  BY <1>13 DEF vars, person, TypeOK
<1> QED
  BY <1>4, <1>5, <1>6, <1>7, <1>8, <1>9, <1>10, <1>11, <1>12, <1>13 DEF Next

(* The types, whatever reads and decides beside a pass: ids are given out  *)
(* one after the other and never again.                                    *)
THEOREM TypeCorrect == Spec => []TypeOK
<1>1. Init => TypeOK
  <2> SUFFICES ASSUME Init PROVE TypeOK
    OBVIOUS
  <2>1. pass \in [Process -> Pass]
    BY IdleIsTyped DEF Init
  <2>2. 0 \in 0 .. MaxEdits /\ 0 \in 0 .. MaxAnswers
    BY IdentityAssumption
  <2> QED  BY <2>1, <2>2 DEF Init, TypeOK
<1>2. TypeOK /\ [Next]_vars => TypeOK'
  BY TypeStep
<1> QED  BY <1>1, <1>2, PTL DEF Spec

-----------------------------------------------------------------------------
(* match() pairs one with one, and what did not change with itself.        *)
OneEach(prs) == \A pr, qr \in prs : pr[1] = qr[1] <=> pr[2] = qr[2]

LEMMA TierPairsOnce ==
  ASSUME NEW n, NEW old, NEW new, NEW m, OneEach(m.pairs)
  PROVE  /\ OneEach(Tier(n, old, new, m).pairs)
         /\ m.pairs \subseteq Tier(n, old, new, m).pairs
<1> DEFINE alike == Alike(Tiers[n], old, new, m)
           single == Single(alike)
<1>1. Tier(n, old, new, m).pairs = m.pairs \cup single
  BY DEF Tier
<1>2. \A pr \in alike, qr \in m.pairs : pr[1] # qr[1] /\ pr[2] # qr[2]
  <2> TAKE pr \in alike, qr \in m.pairs
  <2>1. PICK news, olds : /\ \A i \in news : \A ps \in m.pairs : ps[1] # i
                          /\ \A c \in olds : \A ps \in m.pairs : ps[2] # c
                          /\ pr \in news \X olds
    BY Zenon DEF Alike
  <2> QED  BY <2>1
<1>3. \A pr \in single : pr \in alike /\ \A qr \in single : pr[1] = qr[1] <=> pr[2] = qr[2]
  BY DEF Single
<1> HIDE DEF single, alike
<1> QED  BY <1>1, <1>2, <1>3 DEF OneEach

NothingPaired == [pairs |-> {}, heldNew |-> {}, heldOld |-> {}]

LEMMA MatchPairsOnce ==
  ASSUME NEW old, NEW new
  PROVE  /\ OneEach(Match(old, new).pairs)
         /\ Tier(1, old, new, NothingPaired).pairs \subseteq Match(old, new).pairs
<1> DEFINE m1 == Tier(1, old, new, NothingPaired)
           m2 == Tier(2, old, new, m1)
           m3 == Tier(3, old, new, m2)
           m4 == Tier(4, old, new, m3)
           m5 == Tier(5, old, new, m4)
<1>1. Match(old, new) = m5
  BY DEF Match, NothingPaired
<1>2. OneEach(NothingPaired.pairs)
  BY DEF OneEach, NothingPaired
<1>3. OneEach(m1.pairs)
  BY <1>2, TierPairsOnce
<1> HIDE DEF m1
<1>4. OneEach(m2.pairs) /\ m1.pairs \subseteq m2.pairs
  BY <1>3, TierPairsOnce
<1> HIDE DEF m2
<1>5. OneEach(m3.pairs) /\ m2.pairs \subseteq m3.pairs
  BY <1>4, TierPairsOnce
<1> HIDE DEF m3
<1>6. OneEach(m4.pairs) /\ m3.pairs \subseteq m4.pairs
  BY <1>5, TierPairsOnce
<1> HIDE DEF m4
<1>7. OneEach(m5.pairs) /\ m4.pairs \subseteq m5.pairs
  BY <1>6, TierPairsOnce
<1> HIDE DEF m5
<1> QED  BY <1>1, <1>4, <1>5, <1>6, <1>7 DEF m1

(* A programme that is one of a kind before and after is there again.      *)
Again1(old, new, c, i) ==
  /\ c \in DOMAIN old /\ i \in DOMAIN new /\ old[c] = new[i] /\ old[c].date # None
  /\ \A d \in DOMAIN old : old[d] = old[c] => d = c
  /\ \A j \in DOMAIN new : new[j] = new[i] => j = i

LEMMA SameFieldsSameProgramme ==
  ASSUME NEW f \in Programme, NEW g \in Programme, SameKey(Tiers[1], f, g)
  PROVE  f = g
<1>1. f = [x \in Field |-> f[x]] /\ g = [x \in Field |-> g[x]]
  BY FieldsTellProgrammes
<1>2. \A x \in Field : f[x] = g[x]
  BY DEF SameKey, Tiers
<1>3. [x \in Field |-> f[x]] = [x \in Field |-> g[x]]
  BY <1>2
<1> QED  BY <1>1, <1>3

LEMMA FirstTierPairsTheSame ==
  ASSUME NEW old \in Existing, NEW new \in Seq(Programme), NEW c, NEW i, Again1(old, new, c, i)
  PROVE  <<i, c>> \in Tier(1, old, new, NothingPaired).pairs
<1> DEFINE alike == Alike(Tiers[1], old, new, NothingPaired)
<1>1. \A d \in DOMAIN old : old[d] \in Programme
  BY DEF Existing
<1>2. \A j \in DOMAIN new : new[j] \in Programme
  OBVIOUS
<1>3. c \in DOMAIN old /\ i \in DOMAIN new /\ old[c] = new[i] /\ old[c].date # None
  BY DEF Again1
<1>4. HasKey(Tiers[1], old[c]) /\ HasKey(Tiers[1], new[i])
  BY <1>3 DEF HasKey, Tiers
<1>5. SameKey(Tiers[1], new[i], old[c])
  BY <1>3 DEF SameKey
<1>6. <<i, c>> \in alike
  BY <1>3, <1>4, <1>5 DEF Alike, NothingPaired
<1>7. \A pr \in alike : /\ pr[1] \in DOMAIN new /\ pr[2] \in DOMAIN old
                        /\ SameKey(Tiers[1], new[pr[1]], old[pr[2]])
  BY DEF Alike
<1> HIDE DEF alike
<1>8. \A pr \in alike : new[pr[1]] = old[pr[2]]
  BY <1>1, <1>2, <1>7, SameFieldsSameProgramme
<1>9. \A pr \in alike : i = pr[1] <=> c = pr[2]
  BY <1>3, <1>7, <1>8 DEF Again1
<1>10. <<i, c>> \in Single(alike)
  BY <1>6, <1>9 DEF Single
<1> QED  BY <1>10 DEF alike, Tier

LEMMA MatchPairsTheSame ==
  ASSUME NEW old \in Existing, NEW new \in Seq(Programme), NEW c, NEW i, Again1(old, new, c, i)
  PROVE  <<i, c>> \in Match(old, new).pairs
BY FirstTierPairsTheSame, MatchPairsOnce

(* What a re-read makes of the pairs.                                      *)
KeepsApart(change, old, new) ==
  /\ OneEach(change.reread)
  /\ \A pr \in change.reread : pr[1] \notin change.created
  /\ \A c, i : Again1(old, new, c, i) =>
       /\ i \notin change.created /\ c \notin change.retired
       /\ \A pr \in change.reread : pr[1] = i <=> pr[2] = c

LEMMA ChangesKeepApart ==
  ASSUME NEW old \in Existing, NEW new \in Seq(Programme), NEW aware \in BOOLEAN,
         NEW reviewed, NEW refused, NEW dec
  PROVE  KeepsApart(Changes(old, new, aware, reviewed, refused, dec), old, new)
<1> DEFINE m == Match(old, new)
           change == Changes(old, new, aware, reviewed, refused, dec)
<1> SUFFICES KeepsApart(change, old, new)
  OBVIOUS
<1>1. OneEach(m.pairs)
  BY MatchPairsOnce
<1>2. \A c, i : Again1(old, new, c, i) => <<i, c>> \in m.pairs
  BY MatchPairsTheSame
<1> HIDE DEF m
<1>3. \A pr \in m.pairs : pr[1] \notin Unpaired(m, new) /\ pr[2] \notin Removed(m, old)
  BY DEF Unpaired, Removed
<1>4. ASSUME change.reread \subseteq m.pairs, change.created \subseteq Unpaired(m, new),
             change.retired \subseteq Removed(m, old)
      PROVE  KeepsApart(change, old, new)
  <2> HIDE DEF change
  <2>1. OneEach(change.reread) /\ \A pr \in change.reread : pr[1] \notin change.created
    BY <1>1, <1>3, <1>4 DEF OneEach
  <2>2. ASSUME NEW c, NEW i, Again1(old, new, c, i)
        PROVE  /\ i \notin change.created /\ c \notin change.retired
               /\ \A pr \in change.reread : pr[1] = i <=> pr[2] = c
    <3>1. <<i, c>> \in m.pairs /\ <<i, c>>[1] = i /\ <<i, c>>[2] = c
      BY <1>2, <2>2
    <3>2. i \notin change.created /\ c \notin change.retired
      BY <1>3, <1>4, <3>1
    <3>3. \A pr \in change.reread : pr[1] = i <=> pr[2] = c
      BY <1>1, <1>4, <3>1 DEF OneEach
    <3> QED  BY <3>2, <3>3
  <2> QED  BY <2>1, <2>2 DEF KeepsApart
<1>5. CASE aware
  <2>1. change = RereadAround(old, new, m, reviewed, refused)
    BY <1>5 DEF Changes, m
  <2>2. /\ change.reread \subseteq m.pairs /\ change.retired = {}
        /\ change.created \subseteq Unpaired(m, new)
    BY <2>1 DEF RereadAround, NoChange
  <2> HIDE DEF change
  <2> QED  BY <1>4, <2>2
<1>6. CASE ~aware /\ Cardinality(DOMAIN old) = 1 /\ Len(new) = 1
  <2>1. change = [NoChange EXCEPT !.reread = OneToOne(old, new)]
    BY <1>6 DEF Changes
  <2>2. change.reread = {<<1, c>> : c \in DOMAIN old} /\ change.retired = {}
        /\ change.created = {}
    BY <2>1 DEF NoChange, OneToOne
  <2>3. PICK x : DOMAIN old = {x}
    <3>1. IsFiniteSet(DOMAIN old)
      <4>1. DOMAIN old \in SUBSET (1 .. MaxId) /\ MaxId \in Nat
        BY IdentityAssumption DEF Existing, Id
      <4>2. IsFiniteSet(1 .. MaxId)
        BY <4>1, FS_Interval
      <4> QED  BY <4>1, <4>2, FS_Subset
    <3> QED  BY <1>6, <3>1, FS_Singleton
  <2>4. DOMAIN new = {1}
    BY <1>6
  <2> HIDE DEF change
  <2>5. \A pr \in change.reread : pr[1] = 1 /\ pr[2] = x
    BY <2>2, <2>3
  <2> QED  BY <2>2, <2>3, <2>4, <2>5 DEF KeepsApart, OneEach, Again1
<1>7. CASE ~aware /\ ~(Cardinality(DOMAIN old) = 1 /\ Len(new) = 1)
  <2>1. change = RereadAll(old, new, m, dec)
    BY <1>7 DEF Changes, m
  <2>2. /\ change.reread = m.pairs /\ change.retired \subseteq Removed(m, old)
        /\ change.created = Unpaired(m, new)
    BY <2>1 DEF RereadAll
  <2> HIDE DEF change
  <2> QED  BY <1>4, <2>2
<1> QED  BY <1>5, <1>6, <1>7

-----------------------------------------------------------------------------
(* The programmes of a post stay apart.                                    *)
ApartIn(cands) ==
  \A c \in PresentIn(cands) :
    /\ cands[c].date # None
    /\ \A d \in PresentIn(cands) : cands[c] = cands[d] => c = d

LEMMA WrittenApart ==
  ASSUME NEW cands \in [Id -> Programme \cup {None, Gone}], NEW new \in Seq(Programme),
         NEW change, NEW old \in Existing, Touches(change, old, new), Telling(new), ApartIn(cands),
         OneEach(change.reread), \A pr \in change.reread : pr[1] \notin change.created,
         \A c \in PresentIn(cands), i \in DOMAIN new : cands[c] = new[i] =>
           i \notin change.created /\ \A pr \in change.reread : pr[1] = i => pr[2] = c
  PROVE  ApartIn(Written(cands, new, change))
<1> DEFINE W == Written(cands, new, change)
           NewOne(c) == \E i \in change.created : NewIdOf(cands, change, i) = c /\ W[c] = new[i]
           Read(c) == \E pr \in change.reread : pr[2] = c /\ W[c] = new[pr[1]]
           Left(c) == /\ c \in PresentIn(cands) /\ W[c] = cands[c]
                      /\ \A pr \in change.reread : pr[2] # c
<1>1. None # Gone
  BY IdentityAssumption
<1>2. change.created \subseteq DOMAIN new /\ \A pr \in change.reread : pr[1] \in DOMAIN new
  BY DEF Touches
<1>3. ASSUME NEW c \in PresentIn(W)
      PROVE  NewOne(c) \/ Read(c) \/ Left(c)
  <2>1. c \in Id /\ W[c] # None /\ W[c] # Gone
    BY DEF PresentIn
  <2>2. CASE cands[c] = None
    BY <2>1, <2>2, WrittenFrom
  <2>3. CASE cands[c] = Gone
    BY <1>1, <2>1, <2>3, WrittenFrom
  <2>4. CASE cands[c] \notin {None, Gone}
    <3>1. c \in PresentIn(cands)
      BY <2>1, <2>4 DEF PresentIn
    <3> QED  BY <2>1, <2>4, <3>1, WrittenFrom
  <2> QED  BY <2>2, <2>3, <2>4
<1> HIDE DEF W
<1>4. \A i, j \in DOMAIN new : new[i] = new[j] => i = j
  BY DEF Telling
<1>5. ASSUME NEW c \in PresentIn(W)
      PROVE  W[c].date # None
  BY <1>2, <1>3, <1>5 DEF Telling, ApartIn
<1>6. ASSUME NEW c \in PresentIn(W), NEW d \in PresentIn(W), W[c] = W[d], NewOne(c)
      PROVE  c = d
  <2>1. PICK i \in change.created : NewIdOf(cands, change, i) = c /\ W[c] = new[i]
    BY <1>6
  <2>2. CASE NewOne(d)
    BY <1>2, <1>4, <1>6, <2>1, <2>2
  <2>3. CASE Read(d)
    <3>1. PICK pr \in change.reread : pr[2] = d /\ W[d] = new[pr[1]]
      BY <2>3
    <3>2. i = pr[1]
      BY <1>2, <1>4, <1>6, <2>1, <3>1
    <3> QED  BY <2>1, <3>1, <3>2
  <2>4. CASE Left(d)
    BY <1>2, <1>6, <2>1, <2>4
  <2> QED  BY <1>3, <2>2, <2>3, <2>4
<1>7. ASSUME NEW c \in PresentIn(W), NEW d \in PresentIn(W), W[c] = W[d], Read(c), ~NewOne(d)
      PROVE  c = d
  <2>1. PICK pr \in change.reread : pr[2] = c /\ W[c] = new[pr[1]]
    BY <1>7
  <2>2. CASE Read(d)
    <3>1. PICK qr \in change.reread : qr[2] = d /\ W[d] = new[qr[1]]
      BY <2>2
    <3>2. pr[1] = qr[1]
      BY ZenonT(60), <1>2, <1>4, <1>7, <2>1, <3>1
    <3> QED  BY <2>1, <3>1, <3>2 DEF OneEach
  <2>3. CASE Left(d)
    BY ZenonT(60), <1>2, <1>7, <2>1, <2>3
  <2> QED  BY <1>3, <1>7, <2>2, <2>3
<1>8. ASSUME NEW c \in PresentIn(W), NEW d \in PresentIn(W), W[c] = W[d], Left(c), Left(d)
      PROVE  c = d
  BY <1>8 DEF ApartIn
<1>9. \A c, d \in PresentIn(W) : W[c] = W[d] => c = d
  BY <1>3, <1>6, <1>7, <1>8
<1> QED  BY <1>5, <1>9 DEF ApartIn, W

ApartInv == IdInv /\ TypeOK /\ ApartIn(cand)

AllTell == \A r \in Reading : Telling(r)

(* What a re-read makes of candidates that are apart.                      *)
LEMMA RereadKeepsApart ==
  ASSUME IdInv, TypeOK, NEW p \in Process, Reread(p)
  PROVE  LET s == pass[p]
             change == Changes(s.existing, s.reading, s.aware, s.reviewed, s.refused, s.decided)
         IN /\ s.reading \in Seq(Programme) /\ s.reading \in Reading \cup {<<>>}
            /\ s.aware \in BOOLEAN
            /\ Stored \in Existing /\ DOMAIN Stored = Present
            /\ Touches(change, Stored, s.reading) /\ KeepsApart(change, Stored, s.reading)
            /\ cand' = Written(cand, s.reading, change)
<1> DEFINE s == pass[p]
           change == Changes(s.existing, s.reading, s.aware, s.reviewed, s.refused, s.decided)
<1>1. /\ s \in Local /\ s.existing = Stored
      /\ Spares(change, Stored, s.reading, s.aware, Reviewed, Refused, decided)
      /\ cand' = Written(cand, s.reading, change)
  BY RereadDoes
<1>2. s.reading \in Seq(Programme) /\ s.aware \in BOOLEAN
  BY <1>1 DEF Local
<1>3. s.reading \in Reading \cup {<<>>}
  BY DEF TypeOK, Pass
<1>4. Stored \in Existing /\ DOMAIN Stored = Present
  BY StoredExists DEF IdInv
<1>5. KeepsApart(change, s.existing, s.reading)
  BY <1>1, <1>2, <1>4, ChangesKeepApart
<1> HIDE DEF change
<1>6. Touches(change, Stored, s.reading) /\ KeepsApart(change, Stored, s.reading)
  BY <1>1, <1>5 DEF Spares
<1> USE DEF change
<1> QED  BY <1>1, <1>2, <1>3, <1>4, <1>6

LEMMA InitApart == Init => ApartInv
<1>1. Init => \A c \in Id : cand[c] = None
  BY DEF Init
<1>2. Init => TypeOK
  <2> SUFFICES ASSUME Init PROVE TypeOK
    OBVIOUS
  <2>1. pass \in [Process -> Pass]
    BY IdleIsTyped DEF Init
  <2>2. 0 \in 0 .. MaxEdits /\ 0 \in 0 .. MaxAnswers
    BY IdentityAssumption
  <2> QED  BY <2>1, <2>2 DEF Init, TypeOK
<1> QED  BY <1>1, <1>2, InitIdInv DEF ApartInv, ApartIn, PresentIn

LEMMA ApartStep == Serial /\ AllTell /\ ApartInv /\ [Next]_vars => ApartInv'
<1> SUFFICES ASSUME Serial, AllTell, ApartInv, [Next]_vars PROVE ApartInv'
  OBVIOUS
<1>1. IdInv /\ TypeOK /\ IdInv' /\ TypeOK' /\ ApartIn(cand)
  BY StepIdInv, TypeStep DEF ApartInv
<1>2. \A r \in Reading \cup {<<>>} : Telling(r)
  BY DEF AllTell, Telling
<1>3. cand \in [Id -> Programme \cup {None, Gone}]
  BY <1>1 DEF TypeOK
<1>4. ASSUME cand' = cand PROVE ApartIn(cand')
  BY <1>1, <1>4 DEF ApartIn, PresentIn
<1>5. ASSUME NEW p \in Process, IngestEvents(p)
      PROVE  ApartIn(cand')
  <2> DEFINE change == [NoChange EXCEPT !.created = DOMAIN pass[p].reading]
  <2>1. cand' = Written(cand, pass[p].reading, change)
    BY <1>5 DEF IngestEvents
  <2>2. PresentIn(cand) = {}
    BY <1>1, <1>5 DEF IngestEvents, IdInv, NothingBefore, PresentIn
  <2>3. Touches(change, Idle.existing, pass[p].reading)
    BY DEF Touches, NoChange
  <2>4. change.reread = {}
    BY DEF NoChange
  <2>5. pass[p].reading \in Reading \cup {<<>>} /\ pass[p].reading \in Seq(Programme)
    BY <1>1 DEF TypeOK, Pass, IdInv, PassIsTyped, Local
  <2>6. Idle.existing \in Existing
    BY IdleIsTyped DEF Pass
  <2> HIDE DEF change
  <2>7. OneEach(change.reread) /\ \A pr \in change.reread : pr[1] \notin change.created
    BY <2>4 DEF OneEach
  <2>8. ApartIn(Written(cand, pass[p].reading, change))
    BY <1>1, <1>2, <1>3, <2>2, <2>3, <2>5, <2>6, <2>7, WrittenApart
  <2> QED  BY <2>1, <2>8
<1>6. ASSUME NEW p \in Process, Reread(p)
      PROVE  ApartIn(cand')
  <2> DEFINE s == pass[p]
             change == Changes(s.existing, s.reading, s.aware, s.reviewed, s.refused, s.decided)
  <2>1. /\ s.reading \in Seq(Programme) /\ s.reading \in Reading \cup {<<>>}
        /\ Stored \in Existing /\ DOMAIN Stored = Present
        /\ Touches(change, Stored, s.reading) /\ KeepsApart(change, Stored, s.reading)
        /\ cand' = Written(cand, s.reading, change)
    BY <1>1, <1>6, RereadKeepsApart
  <2> HIDE DEF change, s
  <2>2. Telling(s.reading)
    BY <1>2, <2>1
  <2>3. \A c \in Present : Stored[c] = cand[c]
    BY DEF Stored
  <2>4. \A c \in Present, i \in DOMAIN s.reading :
          cand[c] = s.reading[i] => Again1(Stored, s.reading, c, i)
    BY <1>1, <2>1, <2>2, <2>3 DEF Again1, ApartIn, Telling, Present
  <2>5. \A c \in PresentIn(cand), i \in DOMAIN s.reading : cand[c] = s.reading[i] =>
          i \notin change.created /\ \A pr \in change.reread : pr[1] = i => pr[2] = c
    BY <2>1, <2>4 DEF KeepsApart, Present
  <2>6. OneEach(change.reread) /\ \A pr \in change.reread : pr[1] \notin change.created
    BY <2>1 DEF KeepsApart
  <2>7. ApartIn(Written(cand, s.reading, change))
    BY <1>1, <1>3, <2>1, <2>2, <2>5, <2>6, WrittenApart
  <2> QED  BY <2>1, <2>7
<1>7. CASE UNCHANGED vars \/ Edit
  BY <1>1, <1>4, <1>7 DEF vars, Edit, ApartInv
<1>8. ASSUME NEW c \in Id, Review(c) \/ Answer(c) PROVE ApartIn(cand')
  BY <1>4, <1>8 DEF Review, Answer
<1>9. ASSUME NEW p \in Process,
             Ingest(p) \/ StartBatch(p) \/ ReadStored(p) \/ Crash(p)
      PROVE  ApartIn(cand')
  BY <1>4, <1>9 DEF Ingest, StartBatch, ReadStored, Crash
<1>10. ApartIn(cand')
  BY <1>4, <1>5, <1>6, <1>7, <1>8, <1>9 DEF Next, vars, Edit
<1> QED  BY <1>1, <1>10 DEF ApartInv, ApartIn

(* Where one pass at a time reads the post and its programmes tell         *)
(* themselves apart, none is stored twice, whatever is edited, reviewed,   *)
(* answered and retried.                                                   *)
THEOREM NoProgrammeIsStoredTwice ==
  ASSUME Serial
  PROVE  Spec => []NoProgrammeTwice
<1>1. CASE AllTell
  <2>1. Init => ApartInv
    BY InitApart
  <2>2. ApartInv /\ [Next]_vars => ApartInv'
    BY <1>1, ApartStep
  <2>3. ApartInv => NoProgrammeTwice
    BY DEF ApartInv, ApartIn, NoProgrammeTwice, Present
  <2> QED  BY <2>1, <2>2, <2>3, PTL DEF Spec
<1>2. CASE ~AllTell
  <2>1. NoProgrammeTwice
    BY <1>2 DEF AllTell, NoProgrammeTwice
  <2>2. NoProgrammeTwice'
    BY <1>2 DEF AllTell, NoProgrammeTwice
  <2>3. Init => NoProgrammeTwice
    BY <2>1
  <2>4. NoProgrammeTwice /\ [Next]_vars => NoProgrammeTwice'
    BY <2>2
  <2> QED  BY <2>3, <2>4, PTL DEF Spec
<1> QED  BY <1>1, <1>2

LEMMA RereadKeepsUnchanged ==
  ASSUME IdInv, TypeOK, NEW p \in Process, Reread(p), NEW c \in Present,
         NEW i \in DOMAIN pass[p].reading, Again1(Stored, pass[p].reading, c, i)
  PROVE  cand'[c] = cand[c]
<1> DEFINE s == pass[p]
           change == Changes(s.existing, s.reading, s.aware, s.reviewed, s.refused, s.decided)
<1>1. /\ KeepsApart(change, Stored, s.reading)
      /\ cand' = Written(cand, s.reading, change)
  BY RereadKeepsApart
<1> HIDE DEF change
<1>2. c \notin change.retired /\ \A pr \in change.reread : pr[1] = i <=> pr[2] = c
  BY <1>1 DEF KeepsApart
<1>3. s.reading[i] = cand[c]
  BY DEF Again1, Stored
<1>4. c \in Id /\ cand[c] \notin {None, Gone}
  BY DEF Present, PresentIn
<1> QED  BY <1>1, <1>2, <1>3, <1>4, WrittenFrom

UnchangedKept ==
  \A p \in Process : pass[p].job = "item" /\ cand' # cand =>
    \A c \in Present :
      LET again == {i \in DOMAIN pass[p].reading : pass[p].reading[i] = cand[c]}
      IN /\ cand[c].date # None
         /\ Cardinality(again) = 1 /\ \A d \in Present : cand[d] = cand[c] => d = c
         => cand'[c] = cand[c]

(* A programme that did not change, and is one of a kind on its post before*)
(* and after, keeps its id, whatever else of the post changed, where one   *)
(* pass at a time reads the post.                                          *)
THEOREM UnchangedIsKept ==
  ASSUME Serial
  PROVE  Spec => UnchangedKeepsItsId
<1>1. ASSUME IdInv, TypeOK, [Next]_vars
      PROVE  [UnchangedKept]_vars
  <2> SUFFICES ASSUME NEW p \in Process, pass[p].job = "item", cand' # cand,
                      NEW c \in Present, cand[c].date # None,
                      Cardinality({i \in DOMAIN pass[p].reading : pass[p].reading[i] = cand[c]}) = 1,
                      \A d \in Present : cand[d] = cand[c] => d = c
               PROVE  cand'[c] = cand[c]
    BY DEF UnchangedKept
  <2>1. \A q \in Process : pass[q].job # "none" => q = p
    BY <1>1 DEF IdInv, OneReads
  <2>2. \A q \in Process : ~IngestEvents(q)
    BY <2>1 DEF IngestEvents
  <2>3. PICK q \in Process : Reread(q)
    BY <1>1, <2>2 DEF Next, vars, Edit, Review, Answer, Ingest, StartBatch, ReadStored, Crash
  <2>4. Reread(p)
    BY <2>1, <2>3 DEF Reread
  <2> DEFINE r == pass[p].reading
             again == {i \in DOMAIN r : r[i] = cand[c]}
  <2>5. r \in Seq(Programme) /\ Stored \in Existing /\ DOMAIN Stored = Present
    BY <1>1, <2>4, RereadKeepsApart
  <2>6. PICK i : again = {i}
    <3>1. Len(r) \in Nat /\ DOMAIN r = 1 .. Len(r)
      BY <2>5
    <3> HIDE DEF r
    <3>2. IsFiniteSet(1 .. Len(r))
      BY <3>1, FS_Interval
    <3>3. again \subseteq 1 .. Len(r)
      BY <3>1
    <3>4. IsFiniteSet(again)
      BY <3>2, <3>3, FS_Subset
    <3> USE DEF r
    <3> QED  BY <3>4, FS_Singleton
  <2>7. Again1(Stored, r, c, i)
    BY <2>5, <2>6 DEF Again1, Stored
  <2> QED  BY <1>1, <2>4, <2>6, <2>7, RereadKeepsUnchanged
<1>2. Init => IdInv
  BY InitIdInv
<1>3. IdInv /\ [Next]_vars => IdInv'
  BY StepIdInv
<1>4. IdInv /\ TypeOK /\ [Next]_vars => [UnchangedKept]_vars
  BY <1>1
<1>5. [UnchangedKept]_vars =>
        [\A p \in Process : pass[p].job = "item" /\ cand' # cand =>
           \A c \in Present :
             LET again == {i \in DOMAIN pass[p].reading : pass[p].reading[i] = cand[c]}
             IN /\ cand[c].date # None
                /\ Cardinality(again) = 1 /\ \A d \in Present : cand[d] = cand[c] => d = c
                => cand'[c] = cand[c]]_vars
  BY DEF UnchangedKept
<1> QED  BY <1>2, <1>3, <1>4, <1>5, TypeCorrect, PTL DEF Spec, UnchangedKeepsItsId

-----------------------------------------------------------------------------
(* Reading a post once more.  What a first reading has paired, a second    *)
(* pairs again, tier by tier, and what else it pairs says what the         *)
(* candidate already says (Retraces).                                      *)

Free(m) == m.heldOld = {} /\ m.heldNew = {}

Pairable(tier, old, new, m, pr) ==
  /\ pr \in (DOMAIN new) \X (DOMAIN old)
  /\ HasKey(tier, new[pr[1]]) /\ HasKey(tier, old[pr[2]]) /\ SameKey(tier, new[pr[1]], old[pr[2]])
  /\ \A qr \in m.pairs : qr[1] # pr[1] /\ qr[2] # pr[2]

(* A tier that holds nothing back pairs all it may.                        *)
LEMMA TierPairsAll ==
  ASSUME NEW n, NEW old, NEW new, NEW m, m.heldNew = {}, Tier(n, old, new, m).heldOld = {}
  PROVE  /\ Free(m) /\ Free(Tier(n, old, new, m))
         /\ \A pr : pr \in Tier(n, old, new, m).pairs
                   <=> pr \in m.pairs \/ Pairable(Tiers[n], old, new, m, pr)
<1> DEFINE alike == Alike(Tiers[n], old, new, m)
           single == Single(alike)
<1>1. /\ Tier(n, old, new, m).pairs = m.pairs \cup single
      /\ Tier(n, old, new, m).heldOld = m.heldOld \cup {pr[2] : pr \in alike \ single}
      /\ Tier(n, old, new, m).heldNew = m.heldNew \cup {pr[1] : pr \in alike \ single}
  BY DEF Tier
<1>2. single \subseteq alike
  BY DEF Single
<1>3. m.heldOld = {} /\ m.heldNew = {}
  BY <1>1
<1>4. \A pr : pr \in alike <=> Pairable(Tiers[n], old, new, m, pr)
  BY <1>3 DEF Alike, Pairable
<1> HIDE DEF alike, single
<1>5. alike \ single = {}
  BY <1>1
<1>6. single = alike
  BY <1>2, <1>5
<1> QED  BY <1>1, <1>3, <1>4, <1>5, <1>6 DEF Free

LEMMA TierHolds ==
  ASSUME NEW n, NEW old, NEW new, NEW m
  PROVE  m.heldOld \subseteq Tier(n, old, new, m).heldOld
BY DEF Tier

Says(old, new, pr) == pr \in (DOMAIN new) \X (DOMAIN old) /\ old[pr[2]] = new[pr[1]]

(* old, paired by m, has become old2, paired by m2.                        *)
Became(old, new, old2, m, m2) ==
  /\ DOMAIN old \subseteq DOMAIN old2
  /\ \A c \in DOMAIN old2 :
       \/ \E i \in DOMAIN new : old2[c] = new[i]
       \/ c \in DOMAIN old /\ old2[c] = old[c]
  /\ \A pr : Says(old2, new, pr) =>
       /\ pr \in m2.pairs
       /\ \A qr \in m.pairs : qr[1] = pr[1] <=> qr[2] = pr[2]
  /\ OneEach(m.pairs) /\ OneEach(m2.pairs)

Retraces(old2, new, k, k2) ==
  /\ k.pairs \subseteq k2.pairs
  /\ \A pr \in k2.pairs : pr \in k.pairs \/ Says(old2, new, pr)

LEMMA TierRetraces ==
  ASSUME NEW n, NEW old, NEW new, NEW old2, NEW m, NEW m2, Became(old, new, old2, m, m2),
         NEW k, NEW k2, Free(k), Free(k2), Retraces(old2, new, k, k2),
         Tier(n, old, new, k).heldOld = {}, Tier(n, old2, new, k2).heldOld = {},
         Tier(n, old, new, k).pairs \subseteq m.pairs,
         Tier(n, old2, new, k2).pairs \subseteq m2.pairs,
         \A pr : Says(old2, new, pr) => pr \in Tier(n, old2, new, k2).pairs
  PROVE  Retraces(old2, new, Tier(n, old, new, k), Tier(n, old2, new, k2))
<1> DEFINE tier == Tiers[n]
           t == Tier(n, old, new, k)
           t2 == Tier(n, old2, new, k2)
<1>1. \A pr : pr \in t.pairs <=> pr \in k.pairs \/ Pairable(tier, old, new, k, pr)
  BY TierPairsAll DEF Free
<1>2. \A pr : pr \in t2.pairs <=> pr \in k2.pairs \/ Pairable(tier, old2, new, k2, pr)
  BY TierPairsAll DEF Free
<1> HIDE DEF tier, t, t2
<1>3. /\ t.pairs \subseteq m.pairs /\ t2.pairs \subseteq m2.pairs
      /\ \A pr : Says(old2, new, pr) => pr \in t2.pairs
  BY DEF t, t2
<1>4. ASSUME NEW pr \in t.pairs, pr \notin k.pairs, ~Says(old2, new, pr)
      PROVE  pr \in t2.pairs
  <2>1. Pairable(tier, old, new, k, pr) /\ pr \in m.pairs
    BY <1>1, <1>3, <1>4
  <2>2. pr \in (DOMAIN new) \X (DOMAIN old) /\ pr[1] \in DOMAIN new /\ pr[2] \in DOMAIN old
    BY <2>1 DEF Pairable
  <2>3. pr \in (DOMAIN new) \X (DOMAIN old2)
    BY <2>2 DEF Became
  <2>4. ASSUME NEW qr, Says(old2, new, qr), qr[1] = pr[1] \/ qr[2] = pr[2]
        PROVE  FALSE
    <3>1. qr[1] = pr[1] /\ qr[2] = pr[2]
      BY <2>1, <2>4 DEF Became
    <3>2. old2[qr[2]] = new[qr[1]]
      BY <2>4 DEF Says
    <3> QED  BY <1>4, <2>3, <3>1, <3>2 DEF Says
  <2>5. old2[pr[2]] = old[pr[2]]
    <3>1. ASSUME NEW i \in DOMAIN new, old2[pr[2]] = new[i]
          PROVE  FALSE
      <4>1. Says(old2, new, <<i, pr[2]>>)
        BY <2>2, <3>1 DEF Says, Became
      <4> QED  BY <2>4, <4>1
    <3> QED  BY <2>2, <3>1 DEF Became
  <2>6. \A qr \in k2.pairs : qr[1] # pr[1] /\ qr[2] # pr[2]
    BY <2>1, <2>4 DEF Retraces, Pairable
  <2>7. Pairable(tier, old2, new, k2, pr)
    BY <2>1, <2>3, <2>5, <2>6 DEF Pairable
  <2> QED  BY <1>2, <2>7
<1>5. ASSUME NEW pr \in t2.pairs, pr \notin k2.pairs, ~Says(old2, new, pr)
      PROVE  pr \in t.pairs
  <2>1. Pairable(tier, old2, new, k2, pr) /\ pr \in m2.pairs
    BY <1>2, <1>3, <1>5
  <2>2. pr \in (DOMAIN new) \X (DOMAIN old2) /\ pr[1] \in DOMAIN new /\ pr[2] \in DOMAIN old2
    BY <2>1 DEF Pairable
  <2>3. pr[2] \in DOMAIN old /\ old2[pr[2]] = old[pr[2]]
    <3>1. ASSUME NEW i \in DOMAIN new, old2[pr[2]] = new[i]
          PROVE  FALSE
      <4>1. Says(old2, new, <<i, pr[2]>>)
        BY <2>2, <3>1 DEF Says
      <4>2. <<i, pr[2]>> \in m2.pairs /\ <<i, pr[2]>>[2] = pr[2] /\ <<i, pr[2]>>[1] = i
        BY <4>1 DEF Became
      <4>3. i = pr[1]
        BY <2>1, <4>2 DEF Became, OneEach
      <4> QED  BY <1>5, <2>2, <3>1, <4>3 DEF Says
    <3> QED  BY <2>2, <3>1 DEF Became
  <2>4. pr \in (DOMAIN new) \X (DOMAIN old)
    BY <2>2, <2>3
  <2>5. \A qr \in k.pairs : qr[1] # pr[1] /\ qr[2] # pr[2]
    BY <2>1 DEF Retraces, Pairable
  <2>6. Pairable(tier, old, new, k, pr)
    BY <2>1, <2>3, <2>4, <2>5 DEF Pairable
  <2> QED  BY <1>1, <2>6
<1>6. t.pairs \subseteq t2.pairs
  BY <1>2, <1>3, <1>4 DEF Retraces
<1>7. \A pr \in t2.pairs : pr \in t.pairs \/ Says(old2, new, pr)
  BY <1>1, <1>5 DEF Retraces
<1> QED  BY <1>6, <1>7 DEF Retraces, t, t2

LEMMA MatchRetraces ==
  ASSUME NEW old, NEW new, NEW old2,
         Became(old, new, old2, Match(old, new), Match(old2, new)),
         Match(old, new).heldOld = {}, Match(old2, new).heldOld = {},
         \A pr : Says(old2, new, pr) => pr \in Tier(1, old2, new, NothingPaired).pairs
  PROVE  Retraces(old2, new, Match(old, new), Match(old2, new))
<1> DEFINE M(o) == Match(o, new)
           m1(o) == Tier(1, o, new, NothingPaired)
           m2(o) == Tier(2, o, new, m1(o))
           m3(o) == Tier(3, o, new, m2(o))
           m4(o) == Tier(4, o, new, m3(o))
           m5(o) == Tier(5, o, new, m4(o))
<1>1. \A o : M(o) = m5(o)
  BY DEF Match, NothingPaired
<1>2. Free(NothingPaired) /\ Retraces(old2, new, NothingPaired, NothingPaired)
      /\ OneEach(NothingPaired.pairs)
  BY DEF Free, NothingPaired, Retraces, OneEach
<1>3. \A o : /\ OneEach(m1(o).pairs) /\ OneEach(m2(o).pairs) /\ OneEach(m3(o).pairs)
             /\ OneEach(m4(o).pairs)
  <2> TAKE o
  <2>1. OneEach(m1(o).pairs)
    BY <1>2, TierPairsOnce
  <2> HIDE DEF m1
  <2>2. OneEach(m2(o).pairs)
    BY <2>1, TierPairsOnce
  <2> HIDE DEF m2
  <2>3. OneEach(m3(o).pairs)
    BY <2>2, TierPairsOnce
  <2> HIDE DEF m3
  <2>4. OneEach(m4(o).pairs)
    BY <2>3, TierPairsOnce
  <2> HIDE DEF m4
  <2> QED  BY <2>1, <2>2, <2>3, <2>4
<1>4. \A o : /\ m1(o).pairs \subseteq m2(o).pairs /\ m2(o).pairs \subseteq m3(o).pairs
             /\ m3(o).pairs \subseteq m4(o).pairs /\ m4(o).pairs \subseteq m5(o).pairs
             /\ m1(o).heldOld \subseteq m2(o).heldOld /\ m2(o).heldOld \subseteq m3(o).heldOld
             /\ m3(o).heldOld \subseteq m4(o).heldOld /\ m4(o).heldOld \subseteq m5(o).heldOld
  <2> TAKE o
  <2>1. OneEach(m1(o).pairs) /\ OneEach(m2(o).pairs) /\ OneEach(m3(o).pairs)
        /\ OneEach(m4(o).pairs)
    BY <1>3
  <2> HIDE DEF m1
  <2>2. m1(o).pairs \subseteq m2(o).pairs /\ m1(o).heldOld \subseteq m2(o).heldOld
    BY <2>1, TierPairsOnce, TierHolds
  <2> HIDE DEF m2
  <2>3. m2(o).pairs \subseteq m3(o).pairs /\ m2(o).heldOld \subseteq m3(o).heldOld
    BY <2>1, TierPairsOnce, TierHolds
  <2> HIDE DEF m3
  <2>4. m3(o).pairs \subseteq m4(o).pairs /\ m3(o).heldOld \subseteq m4(o).heldOld
    BY <2>1, TierPairsOnce, TierHolds
  <2> HIDE DEF m4
  <2>5. m4(o).pairs \subseteq m5(o).pairs /\ m4(o).heldOld \subseteq m5(o).heldOld
    BY <2>1, TierPairsOnce, TierHolds
  <2> HIDE DEF m5
  <2> QED  BY <2>2, <2>3, <2>4, <2>5
<1>5. \A o \in {old, old2} :
        /\ m1(o).heldOld = {} /\ m2(o).heldOld = {} /\ m3(o).heldOld = {}
        /\ m4(o).heldOld = {} /\ m5(o).heldOld = {}
        /\ m1(o).pairs \subseteq M(o).pairs /\ m2(o).pairs \subseteq M(o).pairs
        /\ m3(o).pairs \subseteq M(o).pairs /\ m4(o).pairs \subseteq M(o).pairs
        /\ m5(o).pairs \subseteq M(o).pairs
  <2> HIDE DEF m1, m2, m3, m4, m5
  <2> QED  BY <1>1, <1>4
<1>6. \A pr : Says(old2, new, pr) =>
        pr \in m1(old2).pairs /\ pr \in m2(old2).pairs /\ pr \in m3(old2).pairs
        /\ pr \in m4(old2).pairs /\ pr \in m5(old2).pairs
  <2>1. \A pr : Says(old2, new, pr) => pr \in m1(old2).pairs
    OBVIOUS
  <2> HIDE DEF m1, m2, m3, m4, m5
  <2> QED  BY <1>4, <2>1
<1>7. \A o \in {old, old2} : Free(m1(o)) /\ Free(m2(o)) /\ Free(m3(o)) /\ Free(m4(o))
  <2> TAKE o \in {old, old2}
  <2>1. NothingPaired.heldNew = {} /\ m1(o).heldOld = {} /\ m2(o).heldOld = {}
        /\ m3(o).heldOld = {} /\ m4(o).heldOld = {}
    BY <1>5 DEF NothingPaired
  <2>2. Free(m1(o))
    BY <2>1, TierPairsAll
  <2> HIDE DEF m1
  <2>3. Free(m2(o))
    BY <2>1, <2>2, TierPairsAll DEF Free
  <2> HIDE DEF m2
  <2>4. Free(m3(o))
    BY <2>1, <2>3, TierPairsAll DEF Free
  <2> HIDE DEF m3
  <2>5. Free(m4(o))
    BY <2>1, <2>4, TierPairsAll DEF Free
  <2> QED  BY <2>2, <2>3, <2>4, <2>5
<1>8. Retraces(old2, new, m1(old), m1(old2))
  BY <1>2, <1>5, <1>6, TierRetraces
<1> HIDE DEF m1
<1>9. Retraces(old2, new, m2(old), m2(old2))
  BY <1>5, <1>6, <1>7, <1>8, TierRetraces
<1> HIDE DEF m2
<1>10. Retraces(old2, new, m3(old), m3(old2))
  BY <1>5, <1>6, <1>7, <1>9, TierRetraces
<1> HIDE DEF m3
<1>11. Retraces(old2, new, m4(old), m4(old2))
  BY <1>5, <1>6, <1>7, <1>10, TierRetraces
<1> HIDE DEF m4
<1>12. Retraces(old2, new, m5(old), m5(old2))
  BY <1>5, <1>6, <1>7, <1>11, TierRetraces
<1> HIDE DEF m5
<1> QED  BY <1>1, <1>12

-----------------------------------------------------------------------------
(* What a reading leaves, in full.                                         *)
Leaves(cands, new, change, W) ==
  /\ \A i \in change.created : \E c \in Id : cands[c] = None /\ W[c] = new[i]
  /\ \A pr \in change.reread : pr[2] \in PresentIn(cands) /\ W[pr[2]] = new[pr[1]]
  /\ \A c \in PresentIn(W) :
       \/ \E i \in change.created : cands[c] = None /\ W[c] = new[i]
       \/ \E pr \in change.reread : pr[2] = c /\ W[c] = new[pr[1]]
       \/ /\ c \in PresentIn(cands) /\ W[c] = cands[c] /\ c \notin change.retired
          /\ \A pr \in change.reread : pr[2] # c
  /\ \A c \in PresentIn(cands) :
       \/ W[c] \notin {None, Gone}
       \/ c \in change.retired /\ \A pr \in change.reread : pr[2] # c

LEMMA WrittenWhole ==
  ASSUME NEW cands \in [Id -> Programme \cup {None, Gone}], NEW new \in Seq(Programme),
         NEW change, NEW old \in Existing, Touches(change, old, new), InOrder(cands),
         DOMAIN old = PresentIn(cands), OneEach(change.reread), Fits(cands, change)
  PROVE  Leaves(cands, new, change, Written(cands, new, change))
<1> DEFINE W == Written(cands, new, change)
           S == change.created
<1>1. S \in SUBSET (1 .. Len(new)) /\ Len(new) \in Nat
  BY DEF Touches
<1>2. None \notin Programme /\ Gone \notin Programme /\ None # Gone /\ MaxId \in Nat
  BY IdentityAssumption
<1>3. /\ \A i \in S : new[i] \in Programme
      /\ \A pr \in change.reread : new[pr[1]] \in Programme
  BY <1>1 DEF Touches
<1>4. Given(cands) \in Nat /\ {c \in Id : cands[c] # None} = 1 .. Given(cands)
  BY GivenAreFirst
<1>5. IsFiniteSet(S) /\ Cardinality(S) \in Nat
  <2>1. IsFiniteSet(1 .. Len(new))
    BY <1>1, FS_Interval
  <2> QED  BY <1>1, <2>1, FS_Subset, FS_CardinalityType
<1>6. \A i : IsFiniteSet(UpTo(S, i)) /\ Cardinality(UpTo(S, i)) \in Nat
               /\ Cardinality(UpTo(S, i)) <= Cardinality(S)
  BY <1>5, FS_Subset, FS_CardinalityType DEF UpTo
<1>7. \A i, j \in S : i < j => Cardinality(UpTo(S, i)) < Cardinality(UpTo(S, j))
  <2> SUFFICES ASSUME NEW i \in S, NEW j \in S, i < j
               PROVE  Cardinality(UpTo(S, i)) < Cardinality(UpTo(S, j))
    OBVIOUS
  <2>1. i \in Nat /\ j \in Nat /\ \A k \in S : k \in Nat
    BY <1>1
  <2>2. UpTo(S, i) \in SUBSET UpTo(S, j)
    BY <2>1 DEF UpTo
  <2>3. j \in UpTo(S, j) /\ j \notin UpTo(S, i)
    BY <2>1 DEF UpTo
  <2>4. /\ Cardinality(UpTo(S, i)) <= Cardinality(UpTo(S, j))
        /\ Cardinality(UpTo(S, i)) # Cardinality(UpTo(S, j))
    BY <1>6, <2>2, <2>3, FS_Subset
  <2> QED  BY <1>6, <2>4
<1>8. ASSUME NEW i \in S PROVE Cardinality(UpTo(S, i)) >= 1
  <2>1. i \in UpTo(S, i)
    BY <1>1 DEF UpTo
  <2>2. Cardinality(UpTo(S, i)) # 0
    BY <1>6, <2>1, FS_EmptySet
  <2> QED  BY <1>6, <2>2
<1>9. ASSUME NEW i \in S PROVE \E c \in Id : cands[c] = None /\ W[c] = new[i]
  <2> DEFINE c == NewIdOf(cands, change, i)
  <2>1. c \in Nat /\ c > Given(cands) /\ c <= MaxId
    BY <1>2, <1>4, <1>5, <1>6, <1>8 DEF NewIdOf, Fits
  <2>2. c \in Id /\ cands[c] = None
    BY <1>2, <1>4, <2>1 DEF Id
  <2>3. \A j \in S : NewIdOf(cands, change, j) = c => j = i
    <3> TAKE j \in S
    <3>1. i \in Nat /\ j \in Nat
      BY <1>1
    <3> QED  BY <1>4, <1>6, <1>7, <3>1 DEF NewIdOf
  <2> HIDE DEF c
  <2>4. NewIdOf(cands, change, i) = c
    BY DEF c
  <2>5. W[c] = new[i]
    BY <2>2, <2>3, <2>4, WrittenFrom
  <2> QED  BY <2>2, <2>5
<1>10. ASSUME NEW pr \in change.reread
       PROVE  pr[2] \in PresentIn(cands) /\ W[pr[2]] = new[pr[1]]
  <2>1. pr[2] \in PresentIn(cands)
    BY DEF Touches
  <2>2. pr[2] \in Id /\ cands[pr[2]] \notin {None, Gone}
    BY <2>1 DEF PresentIn
  <2>3. \A qr \in change.reread : qr[2] = pr[2] => qr[1] = pr[1]
    BY DEF OneEach
  <2>4. \E qr \in change.reread : qr[2] = pr[2] /\ W[pr[2]] = new[qr[1]]
    BY <2>2, WrittenFrom
  <2> QED  BY <2>1, <2>3, <2>4
<1>11. ASSUME NEW c \in PresentIn(W)
       PROVE  \/ \E i \in change.created : cands[c] = None /\ W[c] = new[i]
              \/ \E pr \in change.reread : pr[2] = c /\ W[c] = new[pr[1]]
              \/ /\ c \in PresentIn(cands) /\ W[c] = cands[c] /\ c \notin change.retired
                 /\ \A pr \in change.reread : pr[2] # c
  <2>1. c \in Id /\ W[c] # None /\ W[c] # Gone
    BY DEF PresentIn
  <2>2. CASE cands[c] = None
    BY <2>1, <2>2, WrittenFrom
  <2>3. CASE cands[c] = Gone
    BY <1>2, <2>1, <2>3, WrittenFrom
  <2>4. CASE cands[c] \notin {None, Gone}
    <3>1. c \in PresentIn(cands)
      BY <2>1, <2>4 DEF PresentIn
    <3> QED  BY <2>1, <2>4, <3>1, WrittenFrom
  <2> QED  BY <2>2, <2>3, <2>4
<1>12. ASSUME NEW c \in PresentIn(cands)
       PROVE  \/ W[c] \notin {None, Gone}
              \/ c \in change.retired /\ \A pr \in change.reread : pr[2] # c
  <2>1. c \in Id /\ cands[c] \notin {None, Gone}
    BY DEF PresentIn
  <2> QED  BY <1>2, <1>3, <2>1, WrittenFrom
<1> HIDE DEF W
<1>13. Leaves(cands, new, change, W)
  BY <1>9, <1>10, <1>11, <1>12 DEF Leaves
<1> QED  BY <1>13 DEF W

(* A change that rereads what is said already, and no more, changes        *)
(* nothing.                                                                *)
LEMMA NothingIsWritten ==
  ASSUME NEW cands \in [Id -> Programme \cup {None, Gone}], NEW new, NEW change,
         change.created = {},
         \A pr \in change.reread : pr[2] \in PresentIn(cands) => cands[pr[2]] = new[pr[1]],
         \A c \in change.retired : \E pr \in change.reread : pr[2] = c
  PROVE  Written(cands, new, change) = cands
<1> DEFINE W == Written(cands, new, change)
<1>1. W = [c \in Id |-> W[c]]
  BY DEF Written
<1>2. cands = [c \in Id |-> cands[c]]
  OBVIOUS
<1>3. None # Gone
  BY IdentityAssumption
<1>4. ASSUME NEW c \in Id PROVE W[c] = cands[c]
  <2>1. cands[c] \notin {None, Gone} => c \in PresentIn(cands)
    BY DEF PresentIn
  <2> QED  BY <1>3, <2>1, WrittenFrom
<1> HIDE DEF W
<1>5. W = cands
  BY <1>1, <1>2, <1>4
<1> QED  BY <1>5 DEF W

StoredIn(cands) == [c \in PresentIn(cands) |-> cands[c]]

(* What a candidate says already, match() pairs it with.                   *)
LEMMA SaidIsPaired ==
  ASSUME NEW W \in [Id -> Programme \cup {None, Gone}], NEW new \in Seq(Programme),
         Telling(new), ApartIn(W),
         NEW c \in PresentIn(W), NEW i \in DOMAIN new, W[c] = new[i]
  PROVE  /\ StoredIn(W) \in Existing
         /\ <<i, c>> \in Tier(1, StoredIn(W), new, NothingPaired).pairs
         /\ <<i, c>> \in Match(StoredIn(W), new).pairs
<1> DEFINE old == StoredIn(W)
<1>1. PresentIn(W) \in SUBSET Id /\ \A d \in PresentIn(W) : W[d] \in Programme
  BY DEF PresentIn
<1>2. old \in [PresentIn(W) -> Programme]
  BY <1>1 DEF StoredIn
<1>3. old \in Existing
  BY <1>1, <1>2 DEF Existing
<1>4. DOMAIN old = PresentIn(W) /\ \A d \in PresentIn(W) : old[d] = W[d]
  BY DEF StoredIn
<1> HIDE DEF old
<1>5. Again1(old, new, c, i)
  BY <1>4 DEF Again1, ApartIn, Telling
<1>6. /\ <<i, c>> \in Tier(1, old, new, NothingPaired).pairs
      /\ <<i, c>> \in Match(old, new).pairs
  BY <1>3, <1>5, FirstTierPairsTheSame, MatchPairsTheSame
<1> QED  BY <1>3, <1>6 DEF old

(* A change that rereads what is said already, and no more.                *)
Settled(W, new, change) ==
  /\ change.created = {}
  /\ \A pr \in change.reread : W[pr[2]] = new[pr[1]]
  /\ change.retired = {}

LEMMA AgainWithoutReviews ==
  ASSUME NEW cands \in [Id -> Programme \cup {None, Gone}],
         NEW W \in [Id -> Programme \cup {None, Gone}], NEW new \in Seq(Programme),
         NEW reviewed, NEW refused, NEW dec,
         Telling(new), ApartIn(W),
         StoredIn(cands) \in Existing, StoredIn(W) \in Existing,
         Leaves(cands, new, Changes(StoredIn(cands), new, FALSE, reviewed, refused, dec), W)
  PROVE  Settled(W, new, Changes(StoredIn(W), new, FALSE, reviewed, refused, dec))
<1> DEFINE old == StoredIn(cands)
           old2 == StoredIn(W)
           m == Match(old, new)
           m2 == Match(old2, new)
           change == Changes(old, new, FALSE, reviewed, refused, dec)
           change2 == Changes(old2, new, FALSE, reviewed, refused, dec)
           One(o) == Cardinality(DOMAIN o) = 1 /\ Len(new) = 1
<1>1. ASSUME NEW o, One(o)
      PROVE  LET ch == Changes(o, new, FALSE, reviewed, refused, dec)
             IN ch.reread = {<<1, c>> : c \in DOMAIN o} /\ ch.retired = {} /\ ch.created = {}
  <2>1. Changes(o, new, FALSE, reviewed, refused, dec)
          = [NoChange EXCEPT !.reread = OneToOne(o, new)]
    BY <1>1 DEF Changes
  <2> QED  BY <2>1 DEF NoChange, OneToOne
<1>2. ASSUME NEW o, ~One(o)
      PROVE  LET ch == Changes(o, new, FALSE, reviewed, refused, dec)
             IN /\ ch.reread = Match(o, new).pairs /\ ch.retired = Removed(Match(o, new), o) \ dec
                /\ ch.created = Unpaired(Match(o, new), new)
  <2>1. Changes(o, new, FALSE, reviewed, refused, dec) = RereadAll(o, new, Match(o, new), dec)
    BY <1>2 DEF Changes
  <2> DEFINE x == Match(o, new)
  <2> HIDE DEF x
  <2>2. /\ RereadAll(o, new, x, dec).reread = x.pairs
        /\ RereadAll(o, new, x, dec).retired = Removed(x, o) \ dec
        /\ RereadAll(o, new, x, dec).created = Unpaired(x, new)
    BY DEF RereadAll
  <2> USE DEF x
  <2> QED  BY <2>1, <2>2
<1>3. DOMAIN old = PresentIn(cands) /\ DOMAIN old2 = PresentIn(W)
  BY DEF StoredIn
<1>4. Leaves(cands, new, change, W)
  OBVIOUS
<1>5. \A c \in Id, i \in DOMAIN new : W[c] = new[i] => c \in PresentIn(W)
  BY IdentityAssumption DEF PresentIn
<1>6. \A c \in PresentIn(W), i \in DOMAIN new : W[c] = new[i] => <<i, c>> \in m2.pairs
  BY SaidIsPaired
<1>7. /\ One(old) => change.reread = {<<1, c>> : c \in DOMAIN old} /\ change.retired = {}
                      /\ change.created = {}
      /\ One(old2) => change2.reread = {<<1, c>> : c \in DOMAIN old2} /\ change2.retired = {}
                       /\ change2.created = {}
  BY <1>1
<1>8. /\ ~One(old) => change.reread = m.pairs /\ change.retired = Removed(m, old) \ dec
                       /\ change.created = Unpaired(m, new)
      /\ ~One(old2) => change2.reread = m2.pairs /\ change2.retired = Removed(m2, old2) \ dec
                        /\ change2.created = Unpaired(m2, new)
  BY <1>2
<1>9. /\ OneEach(m2.pairs)
      /\ \A pr \in m.pairs : pr \in (DOMAIN new) \X (DOMAIN old)
      /\ \A pr \in m2.pairs : pr \in (DOMAIN new) \X (DOMAIN old2)
  BY MatchPairsOnce, MatchPairsADay DEF SameDay
<1>10. /\ IsFiniteSet(DOMAIN old) /\ IsFiniteSet(DOMAIN old2)
  <2>1. DOMAIN old \in SUBSET (1 .. MaxId) /\ DOMAIN old2 \in SUBSET (1 .. MaxId) /\ MaxId \in Nat
    BY <1>3, IdentityAssumption DEF PresentIn, Id
  <2>2. IsFiniteSet(1 .. MaxId)
    BY <2>1, FS_Interval
  <2> QED  BY <2>1, <2>2, FS_Subset
<1>11. /\ \A o \in {old, old2} : One(o) => \E x : DOMAIN o = {x}
       /\ \A x : Cardinality({x}) = 1
  BY <1>10, FS_Singleton
<1>12. DOMAIN new = 1 .. Len(new) /\ Len(new) \in Nat
  OBVIOUS
<1> HIDE DEF old, old2, m, m2, change, change2
<1>13. \A i \in DOMAIN new : \E c \in PresentIn(W) : W[c] = new[i]
  <2> TAKE i \in DOMAIN new
  <2>1. CASE One(old)
    <3>1. PICK x : DOMAIN old = {x}
      BY <1>11, <2>1
    <3>2. <<1, x>> \in change.reread /\ i = 1 /\ <<1, x>>[1] = 1 /\ <<1, x>>[2] = x
      BY <1>7, <1>12, <2>1, <3>1
    <3>3. x \in PresentIn(cands) /\ W[x] = new[1]
      BY <1>4, <3>2 DEF Leaves
    <3> QED  BY <1>5, <3>2, <3>3 DEF PresentIn
  <2>2. CASE ~One(old)
    <3>1. CASE i \in change.created
      BY <1>4, <1>5, <3>1 DEF Leaves
    <3>2. CASE i \notin change.created
      <4>1. PICK pr \in change.reread : pr[1] = i
        BY <1>8, <2>2, <3>2 DEF Unpaired
      <4>2. pr[2] \in PresentIn(cands) /\ W[pr[2]] = new[i]
        BY <1>4, <4>1 DEF Leaves
      <4> QED  BY <1>5, <4>2 DEF PresentIn
    <3> QED  BY <3>1, <3>2
  <2> QED  BY <2>1, <2>2
<1>14. ASSUME One(old2) PROVE Settled(W, new, change2)
  <2>1. PICK x : DOMAIN old2 = {x}
    BY <1>11, <1>14
  <2>2. W[x] = new[1]
    BY <1>3, <1>12, <1>13, <1>14, <2>1
  <2> QED  BY <1>7, <1>14, <2>1, <2>2 DEF Settled
<1>15. ASSUME ~One(old2) PROVE Settled(W, new, change2)
  <2>1. ~One(old)
    <3>1. SUFFICES ASSUME One(old) PROVE One(old2)
      BY <1>15
    <3>2. PICK x : DOMAIN old = {x}
      BY <1>11, <3>1
    <3>3. \A c \in PresentIn(W) : c = x
      BY <1>3, <1>4, <1>7, <3>1, <3>2 DEF Leaves
    <3>4. 1 \in DOMAIN new
      BY <1>12, <3>1
    <3>5. DOMAIN old2 = {x}
      BY <1>3, <1>13, <3>3, <3>4
    <3> QED  BY <1>11, <3>1, <3>5
  <2>2. \A pr \in m2.pairs : W[pr[2]] = new[pr[1]]
    <3> TAKE pr \in m2.pairs
    <3>1. PICK c \in PresentIn(W) : W[c] = new[pr[1]]
      BY <1>9, <1>13
    <3>2. <<pr[1], c>> \in m2.pairs /\ <<pr[1], c>>[1] = pr[1] /\ <<pr[1], c>>[2] = c
      BY <1>6, <1>9, <3>1
    <3>3. pr[2] = c
      BY <1>9, <3>2 DEF OneEach
    <3> QED  BY <3>1, <3>3
  <2>3. Unpaired(m2, new) = {}
    <3> SUFFICES ASSUME NEW i \in DOMAIN new PROVE \E pr \in m2.pairs : pr[1] = i
      BY DEF Unpaired
    <3>1. PICK c \in PresentIn(W) : W[c] = new[i]
      BY <1>13
    <3>2. <<i, c>> \in m2.pairs /\ <<i, c>>[1] = i
      BY <1>6, <3>1
    <3> QED  BY <3>2
  <2>4. Removed(m2, old2) \subseteq dec
    <3> SUFFICES ASSUME NEW c \in PresentIn(W), \A pr \in m2.pairs : pr[2] # c
                 PROVE  c \in dec
      BY <1>3 DEF Removed
    <3>1. \A i \in DOMAIN new : W[c] # new[i]
      <4> SUFFICES ASSUME NEW i \in DOMAIN new, W[c] = new[i] PROVE FALSE
        OBVIOUS
      <4>1. <<i, c>> \in m2.pairs /\ <<i, c>>[2] = c
        BY <1>6
      <4> QED  BY <4>1
    <3>2. change.created \subseteq DOMAIN new /\ \A pr \in change.reread : pr[1] \in DOMAIN new
      BY <1>8, <1>9, <2>1 DEF Unpaired
    <3>3. /\ c \in PresentIn(cands) /\ c \notin change.retired
          /\ \A pr \in change.reread : pr[2] # c
      BY <1>4, <3>1, <3>2 DEF Leaves
    <3> QED  BY <1>3, <1>8, <2>1, <3>3 DEF Removed
  <2> QED  BY <1>8, <1>15, <2>2, <2>3, <2>4 DEF Settled
<1>16. Settled(W, new, change2)
  BY <1>14, <1>15
<1> QED  BY <1>16 DEF change2, old2

LEMMA AgainAroundReviews ==
  ASSUME NEW cands \in [Id -> Programme \cup {None, Gone}],
         NEW W \in [Id -> Programme \cup {None, Gone}], NEW new \in Seq(Programme),
         NEW reviewed, NEW refused, NEW dec,
         Telling(new), ApartIn(cands), ApartIn(W),
         Leaves(cands, new, Changes(StoredIn(cands), new, TRUE, reviewed, refused, dec), W),
         Changes(StoredIn(cands), new, TRUE, reviewed, refused, dec) = NoChange => W = cands
  PROVE  Settled(W, new, Changes(StoredIn(W), new, TRUE, reviewed, refused, dec))
<1> DEFINE old == StoredIn(cands)
           old2 == StoredIn(W)
           m == Match(old, new)
           m2 == Match(old2, new)
           change == Changes(old, new, TRUE, reviewed, refused, dec)
           change2 == Changes(old2, new, TRUE, reviewed, refused, dec)
           days(o) == {o[c].date : c \in DOMAIN o \cap reviewed \cap refused}
<1>1. \A o : Changes(o, new, TRUE, reviewed, refused, dec)
              = RereadAround(o, new, Match(o, new), reviewed, refused)
  BY DEF Changes
<1>2. ASSUME NEW o, Match(o, new).heldOld # {}
      PROVE  Changes(o, new, TRUE, reviewed, refused, dec) = NoChange
  BY <1>1, <1>2 DEF RereadAround
<1>3. ASSUME NEW o, Match(o, new).heldOld = {}
      PROVE  LET ch == Changes(o, new, TRUE, reviewed, refused, dec)
             IN /\ ch.reread = {pr \in Match(o, new).pairs : pr[2] \notin reviewed}
                /\ ch.retired = {}
                /\ ch.created = IF Removed(Match(o, new), o) # {} THEN {}
                                ELSE {i \in Unpaired(Match(o, new), new) :
                                        new[i].date # None /\ new[i].date \notin days(o)}
  <2> DEFINE x == Match(o, new)
  <2>0. x.heldOld = {}
    BY <1>3
  <2> HIDE DEF x
  <2>1. LET ch == RereadAround(o, new, x, reviewed, refused)
        IN /\ ch.reread = {pr \in x.pairs : pr[2] \notin reviewed}
           /\ ch.retired = {}
           /\ ch.created = IF Removed(x, o) # {} THEN {}
                           ELSE {i \in Unpaired(x, new) :
                                   new[i].date # None /\ new[i].date \notin days(o)}
    BY <2>0 DEF RereadAround
  <2>2. Changes(o, new, TRUE, reviewed, refused, dec)
          = RereadAround(o, new, x, reviewed, refused)
    BY <1>1 DEF x
  <2> USE DEF x
  <2> QED  BY <2>1, <2>2
<1>4. /\ DOMAIN old = PresentIn(cands) /\ \A c \in PresentIn(cands) : old[c] = cands[c]
      /\ DOMAIN old2 = PresentIn(W) /\ \A c \in PresentIn(W) : old2[c] = W[c]
  BY DEF StoredIn
<1>5. Leaves(cands, new, change, W)
  OBVIOUS
<1>6. \A c \in Id, i \in DOMAIN new : W[c] = new[i] => c \in PresentIn(W)
  BY IdentityAssumption DEF PresentIn
<1>7. \A c \in PresentIn(W), i \in DOMAIN new : W[c] = new[i] =>
        <<i, c>> \in m2.pairs /\ <<i, c>> \in Tier(1, old2, new, NothingPaired).pairs
  BY SaidIsPaired
<1>8. \A c \in PresentIn(cands), i \in DOMAIN new : cands[c] = new[i] => <<i, c>> \in m.pairs
  BY SaidIsPaired
<1>9. /\ OneEach(m.pairs) /\ OneEach(m2.pairs)
      /\ \A pr \in m.pairs : pr \in (DOMAIN new) \X (DOMAIN old)
      /\ \A pr \in m2.pairs : pr \in (DOMAIN new) \X (DOMAIN old2)
  BY MatchPairsOnce, MatchPairsADay DEF SameDay
<1>10. CASE m2.heldOld # {}
  <2>1. change2 = NoChange
    BY <1>2, <1>10
  <2> HIDE DEF change2
  <2>2. Settled(W, new, change2)
    BY <2>1 DEF Settled, NoChange
  <2> QED  BY <2>2 DEF change2
<1>11. CASE m2.heldOld = {} /\ m.heldOld # {}
  <2>1. W = cands
    BY <1>2, <1>11
  <2> QED  BY <1>11, <2>1
<1>12. CASE m2.heldOld = {} /\ m.heldOld = {}
  <2>1. /\ change.reread = {pr \in m.pairs : pr[2] \notin reviewed} /\ change.retired = {}
        /\ change.created = IF Removed(m, old) # {} THEN {}
                            ELSE {i \in Unpaired(m, new) :
                                    new[i].date # None /\ new[i].date \notin days(old)}
    BY <1>3, <1>12
  <2>2. /\ change2.reread = {pr \in m2.pairs : pr[2] \notin reviewed} /\ change2.retired = {}
        /\ change2.created = IF Removed(m2, old2) # {} THEN {}
                             ELSE {i \in Unpaired(m2, new) :
                                     new[i].date # None /\ new[i].date \notin days(old2)}
    BY <1>3, <1>12
  <2>3. \A pr : Says(old2, new, pr) => pr \in Tier(1, old2, new, NothingPaired).pairs
    <3> SUFFICES ASSUME NEW pr, Says(old2, new, pr)
                 PROVE  pr \in Tier(1, old2, new, NothingPaired).pairs
      OBVIOUS
    <3>1. pr = <<pr[1], pr[2]>> /\ pr[1] \in DOMAIN new /\ pr[2] \in PresentIn(W)
          /\ W[pr[2]] = new[pr[1]]
      BY <1>4 DEF Says
    <3> QED  BY <1>7, <3>1
  <2>4. m.heldOld = {} /\ m2.heldOld = {}
    BY <1>12
  <2>5. Became(old, new, old2, m, m2) => Retraces(old2, new, m, m2)
    BY <2>3, <2>4, MatchRetraces
  <2> HIDE DEF m, m2, old, old2, change, change2
  <2>6. PresentIn(cands) \subseteq PresentIn(W)
    BY <1>5, <2>1 DEF Leaves, PresentIn
  <2>7. change.created \subseteq Unpaired(m, new)
    BY <2>1
  <2>8. \A c \in PresentIn(W) :
          \/ \E i \in DOMAIN new : W[c] = new[i]
          \/ c \in PresentIn(cands) /\ W[c] = cands[c]
    <3>1. change.created \subseteq DOMAIN new
      BY <2>7 DEF Unpaired
    <3>2. \A pr \in change.reread : pr[1] \in DOMAIN new
      BY <1>9, <2>1
    <3> QED  BY <1>5, <3>1, <3>2 DEF Leaves
  <2>9. ASSUME NEW pr, Says(old2, new, pr)
        PROVE  /\ pr \in m2.pairs
               /\ \A qr \in m.pairs : qr[1] = pr[1] <=> qr[2] = pr[2]
               /\ pr[2] \in PresentIn(cands) => pr \in m.pairs
    <3>1. pr = <<pr[1], pr[2]>> /\ pr[1] \in DOMAIN new /\ pr[2] \in PresentIn(W)
          /\ W[pr[2]] = new[pr[1]]
      BY <1>4, <2>9 DEF Says
    <3>2. pr \in m2.pairs
      BY <1>7, <3>1
    <3>3. CASE \E i \in change.created : cands[pr[2]] = None /\ W[pr[2]] = new[i]
      <4>1. PICK i \in change.created : cands[pr[2]] = None /\ W[pr[2]] = new[i]
        BY <3>3
      <4>2. i = pr[1] /\ \A qr \in m.pairs : qr[1] # pr[1]
        BY <2>7, <3>1, <4>1 DEF Unpaired, Telling
      <4>3. pr[2] \notin PresentIn(cands)
        BY <4>1 DEF PresentIn
      <4>4. \A qr \in m.pairs : qr[2] # pr[2]
        BY <1>4, <1>9, <4>3
      <4> QED  BY <3>2, <4>2, <4>3, <4>4
    <3>4. CASE pr \in m.pairs
      BY <1>9, <3>2, <3>4 DEF OneEach
    <3>5. CASE \E qr \in change.reread : qr[2] = pr[2] /\ W[pr[2]] = new[qr[1]]
      <4>1. PICK qr \in change.reread : qr[2] = pr[2] /\ W[pr[2]] = new[qr[1]]
        BY <3>5
      <4>2. qr \in m.pairs /\ qr = <<qr[1], qr[2]>> /\ qr[1] \in DOMAIN new
        BY <1>9, <2>1, <4>1
      <4>3. qr[1] = pr[1]
        BY <3>1, <4>1, <4>2 DEF Telling
      <4>4. pr \in m.pairs
        BY <3>1, <4>1, <4>2, <4>3
      <4> QED  BY <3>4, <4>4
    <3>6. CASE pr[2] \in PresentIn(cands) /\ W[pr[2]] = cands[pr[2]]
      <4>1. pr \in m.pairs
        BY <1>8, <3>1, <3>6
      <4> QED  BY <3>4, <4>1
    <3> QED  BY <1>5, <3>1, <3>3, <3>5, <3>6 DEF Leaves
  <2>10. Became(old, new, old2, m, m2)
    <3>1. DOMAIN old \subseteq DOMAIN old2
      BY <1>4, <2>6
    <3>2. \A c \in DOMAIN old2 :
            \/ \E i \in DOMAIN new : old2[c] = new[i]
            \/ c \in DOMAIN old /\ old2[c] = old[c]
      BY <1>4, <2>8
    <3> QED  BY <1>9, <2>9, <3>1, <3>2 DEF Became
  <2>11. Retraces(old2, new, m, m2)
    BY <2>5, <2>10
  <2>12. \A pr \in change2.reread : W[pr[2]] = new[pr[1]]
    <3> TAKE pr \in change2.reread
    <3>1. pr \in m2.pairs /\ pr[2] \notin reviewed
      BY <2>2
    <3>2. CASE pr \in m.pairs
      BY <1>5, <2>1, <3>1, <3>2 DEF Leaves
    <3>3. CASE Says(old2, new, pr)
      BY <1>4, <3>3 DEF Says
    <3> QED  BY <2>11, <3>1, <3>2, <3>3 DEF Retraces
  <2>13. ASSUME NEW i \in change2.created PROVE FALSE
    <3>1. /\ Removed(m2, old2) = {} /\ i \in Unpaired(m2, new)
          /\ new[i].date # None /\ new[i].date \notin days(old2)
      BY <2>2, <2>13
    <3>2. i \in Unpaired(m, new) /\ i \in DOMAIN new
      BY <2>11, <3>1 DEF Unpaired, Retraces
    <3>3. Removed(m, old) = {}
      <4> SUFFICES ASSUME NEW c \in PresentIn(cands) PROVE \E pr \in m.pairs : pr[2] = c
        BY <1>4 DEF Removed
      <4>1. PICK pr \in m2.pairs : pr[2] = c
        BY <1>4, <2>6, <3>1 DEF Removed
      <4> QED  BY <2>9, <2>11, <4>1 DEF Retraces
    <3>4. \A c \in PresentIn(cands) \cap reviewed : W[c] = cands[c] /\ c \in PresentIn(W)
      <4> TAKE c \in PresentIn(cands) \cap reviewed
      <4>1. c \in PresentIn(W) /\ cands[c] # None
        BY <2>6 DEF PresentIn
      <4> QED  BY <1>5, <2>1, <4>1 DEF Leaves
    <3>5. days(old) \subseteq days(old2)
      <4> SUFFICES ASSUME NEW c \in PresentIn(cands) \cap reviewed \cap refused
                   PROVE  old[c].date \in days(old2)
        BY <1>4
      <4>1. c \in PresentIn(W) /\ old2[c] = old[c]
        BY <1>4, <3>4
      <4> QED  BY <1>4, <4>1
    <3>6. i \in change.created
      BY <2>1, <3>1, <3>2, <3>3, <3>5
    <3>7. PICK c \in Id : W[c] = new[i]
      BY <1>5, <3>6 DEF Leaves
    <3>8. <<i, c>> \in m2.pairs /\ <<i, c>>[1] = i
      BY <1>6, <1>7, <3>2, <3>7
    <3> QED  BY <3>1, <3>8 DEF Unpaired
  <2>14. Settled(W, new, change2)
    BY <2>2, <2>12, <2>13 DEF Settled
  <2> QED  BY <2>14 DEF change2, old2
<1> QED  BY <1>10, <1>11, <1>12

StableReread ==
  \A p \in Process :
    LET r == pass[p].reading
    IN Telling(r) /\ Reread(p) /\ Fits(cand', Again(cand', r, pass[p]))
       => Written(cand', r, Again(cand', r, pass[p])) = cand'

LEMMA RereadAgain ==
  ASSUME Serial, AllTell, ApartInv, [Next]_vars, NEW p \in Process, Reread(p)
  PROVE  Written(cand', pass[p].reading, Again(cand', pass[p].reading, pass[p])) = cand'
<1>1. IdInv /\ TypeOK /\ ApartIn(cand) /\ TypeOK' /\ ApartIn(cand')
  BY ApartStep, TypeStep DEF ApartInv
<1>2. PICK s : s = pass[p]
  OBVIOUS
<1>3. PICK W : W = cand'
  OBVIOUS
<1> DEFINE ch(cands) == Changes(StoredIn(cands), s.reading, s.aware, s.reviewed, s.refused,
                                s.decided)
<1>4. /\ cand \in [Id -> Programme \cup {None, Gone}] /\ InOrder(cand)
      /\ W \in [Id -> Programme \cup {None, Gone}] /\ ApartIn(W)
  BY <1>1, <1>3 DEF TypeOK, InOrder
<1>5. Stored = StoredIn(cand)
  BY DEF Stored, StoredIn, Present
<1>6. s.existing = Stored
  BY <1>1, <1>2, RereadDoes
<1>7. /\ s.reading \in Seq(Programme) /\ s.reading \in Reading \cup {<<>>}
      /\ s.aware \in BOOLEAN
      /\ StoredIn(cand) \in Existing /\ DOMAIN StoredIn(cand) = PresentIn(cand)
      /\ Touches(ch(cand), StoredIn(cand), s.reading)
      /\ KeepsApart(ch(cand), StoredIn(cand), s.reading)
      /\ W = Written(cand, s.reading, ch(cand))
  BY <1>1, <1>2, <1>3, <1>5, <1>6, RereadKeepsApart DEF Present
<1>8. Fits(cand, ch(cand))
  BY <1>2, <1>5, <1>6 DEF Reread
<1>9. Telling(s.reading)
  BY <1>7 DEF AllTell, Telling
<1>10. StoredIn(W) \in Existing
  <2>1. PresentIn(W) \in SUBSET Id /\ \A c \in PresentIn(W) : W[c] \in Programme
    BY <1>4 DEF PresentIn
  <2>2. StoredIn(W) \in [PresentIn(W) -> Programme]
    BY <2>1 DEF StoredIn
  <2> QED  BY <2>1, <2>2 DEF Existing
<1> HIDE DEF ch
<1>11. Leaves(cand, s.reading, ch(cand), W)
  BY <1>4, <1>7, <1>8, WrittenWhole DEF KeepsApart
<1>12. ch(cand) = NoChange => W = cand
  <2> SUFFICES ASSUME ch(cand) = NoChange PROVE W = cand
    OBVIOUS
  <2>1. NoChange.created = {} /\ NoChange.reread = {} /\ NoChange.retired = {}
    BY DEF NoChange
  <2> QED  BY <1>4, <1>7, <2>1, NothingIsWritten
<1>13. Settled(W, s.reading, ch(W))
  <2>1. CASE s.aware = FALSE
    BY <1>1, <1>4, <1>7, <1>9, <1>10, <1>11, <2>1, AgainWithoutReviews DEF ch
  <2>2. CASE s.aware = TRUE
    BY ZenonT(60), <1>1, <1>4, <1>7, <1>9, <1>11, <1>12, <2>2, AgainAroundReviews DEF ch
  <2> QED  BY <1>7, <2>1, <2>2
<1>14. Written(W, s.reading, ch(W)) = W
  BY <1>4, <1>13, NothingIsWritten DEF Settled
<1>15. ch(W) = Again(cand', s.reading, s)
  BY <1>3 DEF ch, Again, StoredIn
<1> QED  BY <1>2, <1>3, <1>14, <1>15

(* Read once more as it was just read, a post stays as it is: the second   *)
(* reading pairs what the first one paired, creates nothing, retires       *)
(* nothing, and rereads candidates as what they are; where one pass at a   *)
(* time reads the post and its programmes tell themselves apart.           *)
THEOREM ReadingAgainChangesNothing ==
  ASSUME Serial, AllTell
  PROVE  Spec => RereadIsStable
<1>1. Init => ApartInv
  BY InitApart
<1>2. ApartInv /\ [Next]_vars => ApartInv'
  BY ApartStep
<1>3. ApartInv /\ [Next]_vars => [StableReread]_vars
  BY RereadAgain DEF StableReread
<1>4. [StableReread]_vars =>
        [\A p \in Process :
           LET r == pass[p].reading
           IN Telling(r) /\ Reread(p) /\ Fits(cand', Again(cand', r, pass[p]))
              => Written(cand', r, Again(cand', r, pass[p])) = cand']_vars
  BY DEF StableReread
<1> QED  BY <1>1, <1>2, <1>3, <1>4, PTL DEF Spec, RereadIsStable

=============================================================================
