------------------------ MODULE CommunityDiscoveryProofs ------------------------
(***************************************************************************)
(* Whatever pages searches find and whatever an operator answers beside    *)
(* them: a registered candidate shows as its community, a board is one     *)
(* community's, and no search takes back an answer.                        *)
(***************************************************************************)
EXTENDS CommunityDiscovery, WellFoundedInduction, TLAPS

-----------------------------------------------------------------------------
(* Least elements.                                                         *)

Below == {ss \in Nat \X Nat : ss[1] < ss[2]}

(* A set of numbers that is not empty has a least one.                     *)
LEMMA LeastExists ==
  ASSUME NEW S, S \subseteq Nat, S # {}
  PROVE  \E x \in S : \A y \in S : x <= y
<1>1. IsWellFoundedOn(Below, Nat)
  BY NatLessThanWellFounded DEF OpToRel, Below
<1>2. PICK x \in S : \A y \in S : ~(<<y, x>> \in Below)
  BY <1>1, WFMin
<1>3. \A y \in S : ~(y < x)
  BY <1>2 DEF Below
<1> QED
  BY <1>3

LEMMA LeastIsIn ==
  ASSUME NEW S, S \subseteq Nat, S # {}
  PROVE  Least(S) \in S
BY LeastExists DEF Least

Communities == [Community -> Typed \cup {None, Gone}]
Rows == [Item -> Row \cup {None, Gone}]

LEMMA LiveCommunity ==
  ASSUME NEW known \in Communities, NEW c \in LiveIn(known)
  PROVE  /\ c \in Community /\ known[c] \in Typed
         /\ known[c].name \in Nat /\ known[c].key \in Key \cup {None}
BY DiscoveryAssumption DEF Communities, LiveIn

LEMMA FirstIsIn ==
  ASSUME NEW known \in Communities, NEW cs, cs \subseteq LiveIn(known), cs # {}
  PROVE  First(cs, known) \in cs
<1> DEFINE names == {known[c].name : c \in cs}
<1>1. names \subseteq Nat /\ names # {}
  BY LiveCommunity
<1>2. PICK n \in names : \A m \in names : n <= m
  BY <1>1, LeastExists
<1>3. \E c \in cs : \A d \in cs : known[c].name <= known[d].name
  BY <1>2
<1> QED
  BY <1>3 DEF First

-----------------------------------------------------------------------------
(* What is known of a candidate, and how it is classified.                 *)

LEMMA LiveRow ==
  ASSUME NEW rows \in Rows, NEW i \in LiveIn(rows)
  PROVE  i \in Item /\ rows[i] \in Row
BY DEF Rows, LiveIn

(* A date that was confirmed goes only when a page tells of the end.       *)
LEMMA AssessedIs ==
  ASSUME NEW row \in Row, NEW hit \in Hit
  PROVE  /\ Assessed(row, hit).activity \in Activity
         /\ Assessed(row, hit).date \in Date \cup {None}
         /\ Assessed(row, hit).confidence \in {"confirmed", "inferred", "unknown"}
         /\ row.confidence = "confirmed" /\ ~hit.ends
            => /\ Assessed(row, hit).confidence = "confirmed"
               /\ Assessed(row, hit).date = row.date
BY DEF Assessed, Verdict, Row, Hit, Activity, Date

(* What a search adds to a candidate leaves the operator's answers alone.  *)
LEMMA MergedIs ==
  ASSUME NEW row \in Row, NEW hit \in Hit
  PROVE  /\ Merged(row, hit) \in Row
         /\ \A f \in {"key", "state", "class", "existing", "twin", "registered", "cleared",
                      "source"} : Merged(row, hit)[f] = row[f]
         /\ row.confidence = "confirmed" /\ ~hit.ends
            => /\ Merged(row, hit).confidence = "confirmed"
               /\ Merged(row, hit).date = row.date
<1> DEFINE told == Assessed(row, hit)
<1>1. /\ told.activity \in Activity /\ told.date \in Date \cup {None}
      /\ told.confidence \in {"confirmed", "inferred", "unknown"}
      /\ row.confidence = "confirmed" /\ ~hit.ends
         => told.confidence = "confirmed" /\ told.date = row.date
  BY AssessedIs
<1>2. hit.name \in Name \cup {None} /\ hit.kind \in Kind
  BY DEF Hit
<1>3. PICK n \in Name \cup {None}, d \in Kind :
        Merged(row, hit) = [row EXCEPT !.name = n, !.kind = d, !.activity = told.activity,
                                       !.date = told.date, !.confidence = told.confidence]
  <2>1. row.name \in Name \cup {None} /\ row.kind \in Kind
    BY DEF Row
  <2> QED
    BY <1>2, <2>1 DEF Merged
<1> HIDE DEF told
<1>4. Merged(row, hit) \in Row
  BY ZenonT(60), <1>1, <1>3 DEF Row
<1>5. \A f \in {"key", "state", "class", "existing", "twin", "registered", "cleared",
               "source"} : Merged(row, hit)[f] = row[f]
  BY <1>3 DEF Row
<1>6. Merged(row, hit).confidence = told.confidence /\ Merged(row, hit).date = told.date
  BY <1>3 DEF Row
<1> QED
  BY <1>1, <1>4, <1>5, <1>6

LEMMA BlankIs ==
  ASSUME NEW k \in Key
  PROVE  Blank(k) \in Row
BY DEF Blank, Row, Kind, Activity, State, Class

LEMMA MarkedIs ==
  ASSUME NEW row \in Row, NEW v \in Outcome
  PROVE  /\ Marked(row, v) \in Row
         /\ Marked(row, v).class = v.class /\ Marked(row, v).existing = v.existing
         /\ Marked(row, v).twin = v.twin
         /\ \A f \in {"key", "state", "date", "confidence", "registered", "cleared",
                      "source"} : Marked(row, v)[f] = row[f]
BY DEF Marked, Row, Outcome

(* reclassify(): what it names exists in what it was given, and it says    *)
(* nothing else of a candidate that was registered.                        *)
LEMMA ClassifiedIs ==
  ASSUME NEW rows \in Rows, NEW known \in Communities, NEW i \in LiveIn(rows)
  PROVE  LET v == Classified(i, rows, known) IN
         /\ v \in Outcome
         /\ v.existing # None => \/ v.existing \in LiveIn(known)
                                 \/ v.existing = rows[i].registered
         /\ v.twin # None => v.twin \in LiveIn(rows) /\ v.twin < i
         /\ rows[i].state \in Done /\ rows[i].registered # None
            => v.class = "existing" /\ v.existing = rows[i].registered
<1> DEFINE row == rows[i]
           atPage == {c \in LiveIn(known) : known[c].key = row.key}
           comparable == row.name # None /\ ~row.cleared
           sameName == {c \in LiveIn(known) : known[c].name = row.name}
           v == Classified(i, rows, known)
<1>1. i \in Item /\ row \in Row
  BY LiveRow
<1>2. CASE row.state \in Done /\ row.registered # None
  <2>1. v = [class |-> "existing", existing |-> row.registered, twin |-> None]
    BY <1>2 DEF Classified
  <2> QED
    BY <1>1, <1>2, <2>1 DEF Outcome, Row, Class
<1>3. CASE ~(row.state \in Done /\ row.registered # None) /\ atPage # {}
  <2>1. v = [class |-> "existing", existing |-> First(atPage, known), twin |-> None]
    BY <1>3 DEF Classified
  <2>2. First(atPage, known) \in LiveIn(known) /\ First(atPage, known) \in Community
    BY <1>3, FirstIsIn, LiveCommunity
  <2> QED
    BY <1>3, <2>1, <2>2 DEF Outcome, Class
<1>4. CASE /\ ~(row.state \in Done /\ row.registered # None) /\ atPage = {}
           /\ row.kind # "other" /\ comparable /\ sameName # {}
  <2>1. v = [class |-> "duplicate", existing |-> First(sameName, known), twin |-> None]
    BY <1>4 DEF Classified
  <2>2. First(sameName, known) \in LiveIn(known) /\ First(sameName, known) \in Community
    BY <1>4, FirstIsIn, LiveCommunity
  <2> QED
    BY <1>4, <2>1, <2>2 DEF Outcome, Class
<1>5. CASE /\ ~(row.state \in Done /\ row.registered # None) /\ atPage = {}
           /\ row.kind # "other" /\ comparable /\ sameName = {} /\ Twins(i, rows) # {}
  <2>1. v = [class |-> "duplicate", existing |-> None, twin |-> Least(Twins(i, rows))]
    BY <1>5 DEF Classified
  <2>2. Twins(i, rows) \subseteq LiveIn(rows) /\ Twins(i, rows) \subseteq Item
    BY LiveRow DEF Twins
  <2>3. Twins(i, rows) \subseteq Nat
    BY <2>2 DEF Item
  <2>4. Least(Twins(i, rows)) \in Twins(i, rows)
    BY <1>5, <2>3, LeastIsIn
  <2>5. \A j \in Twins(i, rows) : j < i
    BY DEF Twins
  <2> QED
    BY <1>5, <2>1, <2>2, <2>4, <2>5 DEF Outcome, Class
<1>6. CASE /\ ~(row.state \in Done /\ row.registered # None) /\ atPage = {}
           /\ \/ row.kind = "other"
              \/ ~(comparable /\ sameName # {}) /\ ~(comparable /\ Twins(i, rows) # {})
  <2>1. v.class \in Class /\ v.existing = None /\ v.twin = None /\ v \in Outcome
    BY <1>6 DEF Classified, Outcome, Class
  <2> QED
    BY <1>6, <2>1
<1> QED
  BY <1>2, <1>3, <1>4, <1>5, <1>6

-----------------------------------------------------------------------------
(* The inductive invariant.                                                *)

Types ==
  /\ run \in [Run -> {"none", "queued", "running", "done", "failed"}]
  /\ overdue \in BOOLEAN
  /\ item \in Rows /\ community \in Communities
  /\ source \in [Key -> Community \cup {None, Hand}]
  /\ job \in Job /\ console \in Request
  /\ answers \in 0 .. MaxAnswers /\ moved \in SUBSET Item

OneOpen == \A r, s \in Open : r = s

(* A row names what there is, shows what was answered, and has a source    *)
(* only once it was answered, and one of its community.                    *)
RowIsFine(i) ==
  LET row == item[i] IN
  /\ row.twin # None => row.twin < i /\ row.twin \in Live
  /\ row.existing # None => row.existing \in LiveIn(community)
  /\ row.registered # None => row.registered \in LiveIn(community)
  /\ row.state \in Done /\ row.registered # None
     => row.class = "existing" /\ row.existing = row.registered
  /\ row.source # None => row.state \in Done
  /\ i \notin moved /\ row.source # None /\ row.registered # None
     => source[row.source] \in {Hand, row.registered}

RowInv == \A i \in Live : RowIsFine(i)
KeysDiffer == \A i, j \in Live : item[i].key = item[j].key => i = j

JobInv == job.at = "store" => job.found \in Finding /\ job.known \in Communities

(* What the console is about to write still says what was answered: only   *)
(* the job runs beside it, and the job changes no answer.                  *)
ConsoleInv ==
  /\ console.at = "write" =>
       /\ console.item \in Item /\ console.class \in Outcome
       /\ console.class.existing # None => console.class.existing \in LiveIn(community)
       /\ console.class.twin # None => console.class.twin < console.item
       /\ \A i \in Live : i = console.item /\ item[i].state \in Done /\ item[i].registered # None
            => /\ console.class.class = "existing"
               /\ console.class.existing = item[i].registered
  /\ console.at \in {"group", "link"} => console.community \in LiveIn(community)
  /\ console.at = "link" =>
       console.item \in Item /\ \A i \in Live : i = console.item => item[i].state \notin Done

IInv == Types /\ OneOpen /\ RowInv /\ KeysDiffer /\ JobInv /\ ConsoleInv

(* Before the first search there are no rows, and communities have no      *)
(* sources but those set up by hand.                                       *)
LEMMA InitIInv == Init => IInv
<1> USE DiscoveryAssumption
<1> SUFFICES ASSUME Init PROVE IInv
    OBVIOUS
<1>1. Free \in Job /\ Quiet \in Request
  BY DEF Free, Quiet, Job, Request
<1>2. Types
  <2>1. item \in Rows
    BY DEF Init, Rows
  <2>2. community \in Communities
    BY DEF Init, Communities
  <2>3. source \in [Key -> Community \cup {None, Hand}]
    BY DEF Init
  <2>4. run \in [Run -> {"none", "queued", "running", "done", "failed"}]
    BY DEF Init
  <2>5. /\ answers \in 0 .. MaxAnswers
        /\ moved \in SUBSET Item
        /\ overdue \in BOOLEAN
    <3>1. answers \in 0 .. MaxAnswers
      BY DEF Init
    <3>2. moved \in SUBSET Item
      BY DEF Init
    <3> QED
      BY <3>1, <3>2 DEF Init
  <2>6. job \in Job /\ console \in Request
    BY <1>1 DEF Init
  <2> QED
    BY <2>1, <2>2, <2>3, <2>4, <2>5, <2>6 DEF Types
<1>3. Live = {}
  BY DEF Init, Live, LiveIn
<1>4. RowInv /\ KeysDiffer
  BY <1>3 DEF RowInv, KeysDiffer
<1>5. OneOpen
  BY DEF Init, OneOpen, Open
<1>6. JobInv /\ ConsoleInv
  BY DEF Init, JobInv, ConsoleInv, Free, Quiet
<1> QED
  BY <1>2, <1>4, <1>5, <1>6 DEF IInv

LEMMA QuietIs ==
  /\ Quiet \in Request /\ Quiet.at = "idle"
BY DEF Quiet, Request

(* Steps that leave the rows, the communities and the sources alone.       *)
LEMMA RowsUntouched ==
  ASSUME IInv, UNCHANGED <<item, community, source, moved>>
  PROVE  /\ item' \in Rows /\ community' \in Communities
         /\ source' \in [Key -> Community \cup {None, Hand}] /\ moved' \in SUBSET Item
         /\ Live' = Live /\ RowInv' /\ KeysDiffer'
BY DEF IInv, Types, RowInv, KeysDiffer, RowIsFine, Live

(* A step that changes one row, beside which communities and sources may   *)
(* be added, keeps the invariant of the rows if the row is fine afterwards.*)
LEMMA OneRowChanged ==
  ASSUME IInv, NEW i \in Live, NEW r \in Row, item' = [item EXCEPT ![i] = r],
         community' \in Communities, LiveIn(community) \subseteq LiveIn(community'),
         source' \in [Key -> Community \cup {None, Hand}],
         \A k \in Key : source[k] # None => source'[k] = source[k],
         moved' \in SUBSET Item, moved \subseteq moved',
         r.key = item[i].key,
         r.twin # None => r.twin < i /\ r.twin \in Live,
         r.existing # None => r.existing \in LiveIn(community'),
         r.registered # None => r.registered \in LiveIn(community'),
         r.state \in Done /\ r.registered # None
           => r.class = "existing" /\ r.existing = r.registered,
         r.source # None => r.state \in Done,
         i \notin moved' /\ r.source # None /\ r.registered # None
           => source'[r.source] \in {Hand, r.registered}
  PROVE  /\ item' \in Rows /\ Live' = Live /\ RowInv' /\ KeysDiffer'
         /\ item'[i] = r /\ \A j \in Live \ {i} : item'[j] = item[j]
<1> USE DiscoveryAssumption
<1>1. item \in Rows /\ i \in Item
  BY DEF IInv, Types, Rows, Live, LiveIn
<1>2. item' \in Rows
  BY <1>1 DEF Rows
<1>3. item'[i] = r /\ \A j \in Item \ {i} : item'[j] = item[j]
  BY <1>1 DEF Rows
<1>4. Live' = Live
  BY <1>1, <1>2, <1>3 DEF Rows, Live, LiveIn
<1>5. Live \subseteq Item
  BY <1>1 DEF Rows, Live, LiveIn
<1>6. KeysDiffer'
  BY <1>3, <1>4, <1>5 DEF IInv, KeysDiffer
<1>7. RowIsFine(i)'
  BY <1>3, <1>4 DEF RowIsFine
<1>8. ASSUME NEW j \in Live \ {i} PROVE RowIsFine(j)'
  <2>1. RowIsFine(j) /\ item'[j] = item[j]
    BY <1>3, <1>5 DEF IInv, RowInv
  <2>2. item[j].source \in Key \cup {None}
    BY <1>1, LiveRow DEF Live, Row
  <2> QED
    BY <1>4, <2>1, <2>2 DEF RowIsFine
<1>9. RowInv'
  BY <1>4, <1>7, <1>8 DEF RowInv
<1> QED
  BY <1>2, <1>3, <1>4, <1>5, <1>6, <1>9

LEMMA JobUntouched ==
  ASSUME IInv, UNCHANGED <<run, overdue, job>>
  PROVE  /\ run' \in [Run -> {"none", "queued", "running", "done", "failed"}]
         /\ overdue' \in BOOLEAN /\ job' \in Job /\ OneOpen' /\ JobInv'
BY DEF IInv, Types, OneOpen, Open, JobInv

LEMMA ConsoleUntouched ==
  ASSUME IInv, UNCHANGED <<item, community, console, answers>>
  PROVE  console' \in Request /\ answers' \in 0 .. MaxAnswers /\ ConsoleInv'
BY DEF IInv, Types, ConsoleInv, Live

LEMMA ConsoleQuiet ==
  ASSUME console' = Quiet
  PROVE  console' \in Request /\ ConsoleInv'
BY QuietIs DEF ConsoleInv

-----------------------------------------------------------------------------
(* Runs and the job, up to what it stores.                                 *)

LEMMA QueueRunStep == ASSUME IInv, QueueRun PROVE IInv'
<1>1. UNCHANGED <<overdue, item, community, source, job, console, answers, moved>>
  BY DEF QueueRun
<1>2. PICK r \in Run : Open = {} /\ run' = [run EXCEPT ![r] = "queued"]
  BY DEF QueueRun
<1>3. run' \in [Run -> {"none", "queued", "running", "done", "failed"}]
  BY <1>2 DEF IInv, Types
<1>4. \A s \in Run \ {r} : run'[s] = run[s]
  BY <1>2 DEF IInv, Types
<1>5. OneOpen'
  BY <1>2, <1>4 DEF OneOpen, Open
<1> QED
  BY <1>1, <1>3, <1>5, RowsUntouched, ConsoleUntouched DEF IInv, Types, JobInv

LEMMA HourPassesStep == ASSUME IInv, HourPasses PROVE IInv'
<1>1. UNCHANGED <<run, item, community, source, job, console, answers, moved>> /\ overdue' = TRUE
  BY DEF HourPasses
<1> QED
  BY <1>1, RowsUntouched, ConsoleUntouched DEF IInv, Types, OneOpen, Open, JobInv

(* A run that is claimed was open before, and no other is opened.          *)
LEMMA ClaimStep == ASSUME IInv, Claim PROVE IInv'
<1> DEFINE queued == {r \in Run : run[r] = "queued"}
<1>1. UNCHANGED <<item, community, source, console, answers, moved>> /\ overdue' = FALSE
  BY DEF Claim
<1>2. queued # {} => Least(queued) \in queued
  <2>1. queued \subseteq Nat
    BY DEF Run
  <2> QED
    BY <2>1, LeastIsIn
<1>3. run' = [r \in Run |-> IF r \in Abandoned THEN "failed"
                           ELSE IF queued # {} /\ r = Least(queued) THEN "running"
                           ELSE run[r]]
  BY DEF Claim
<1>4. run' \in [Run -> {"none", "queued", "running", "done", "failed"}]
  BY <1>3 DEF IInv, Types
<1>5. Open' \subseteq Open
  BY <1>2, <1>3 DEF Open
<1>6. OneOpen'
  BY <1>5 DEF IInv, OneOpen
<1>7. job' \in Job /\ job'.at # "store"
  <2>1. Free \in Job /\ Free.at = "idle"
    BY DEF Free, Job
  <2>2. CASE queued = {}
    BY <2>1, <2>2 DEF Claim
  <2>3. CASE queued # {}
    <3>1. Least(queued) \in Run
      BY <1>2, <2>3
    <3>2. job' = [Free EXCEPT !.at = "search", !.run = Least(queued)]
      BY <2>3 DEF Claim
    <3> HIDE DEF queued
    <3> QED
      BY <3>1, <3>2, <2>1 DEF Job
  <2> QED
    BY <2>2, <2>3
<1>8. JobInv'
  BY <1>7 DEF JobInv
<1> QED
  BY <1>1, <1>4, <1>6, <1>7, <1>8, RowsUntouched, ConsoleUntouched DEF IInv, Types

LEMMA SearchStep == ASSUME IInv, Search PROVE IInv'
<1>1. UNCHANGED <<run, overdue, item, community, source, console, answers, moved>>
  BY DEF Search
<1>2. PICK found \in Finding :
        job' = [job EXCEPT !.at = "store", !.found = found, !.known = community]
  BY DEF Search
<1>3. job' \in Job /\ job'.found = found /\ job'.known = community
  BY <1>2 DEF IInv, Types, Job, Communities
<1>4. JobInv'
  BY <1>3 DEF JobInv, IInv, Types
<1>5. OneOpen'
  BY <1>1 DEF IInv, OneOpen, Open
<1> QED
  BY <1>1, <1>3, <1>4, <1>5, RowsUntouched, ConsoleUntouched DEF IInv, Types

LEMMA FinishIs ==
  ASSUME IInv, NEW status \in {"done", "failed"}, Finish(status)
  PROVE  /\ run' \in [Run -> {"none", "queued", "running", "done", "failed"}]
         /\ overdue' \in BOOLEAN /\ job' \in Job /\ OneOpen' /\ JobInv'
         /\ UNCHANGED <<community, source, console, answers, moved>>
<1>1. run' = [run EXCEPT ![job.run] = status] /\ job' = Free /\ overdue' = FALSE
  BY DEF Finish
<1>2. run' \in [Run -> {"none", "queued", "running", "done", "failed"}]
  BY <1>1 DEF IInv, Types
<1>3. Open' \subseteq Open
  BY <1>1 DEF IInv, Types, Open
<1>4. Free \in Job /\ Free.at = "idle"
  BY DEF Free, Job
<1> QED
  BY <1>1, <1>2, <1>3, <1>4 DEF IInv, OneOpen, JobInv, Finish

LEMMA FailStep == ASSUME IInv, Fail PROVE IInv'
BY FinishIs, RowsUntouched, ConsoleUntouched DEF Fail, IInv, Types

LEMMA DieStep == ASSUME IInv, Die PROVE IInv'
<1>1. Free \in Job /\ Free.at = "idle"
  BY DEF Free, Job
<1>2. JobInv'
  BY <1>1 DEF Die, JobInv
<1>3. OneOpen'
  BY DEF Die, IInv, OneOpen, Open
<1> QED
  BY <1>1, <1>2, <1>3, RowsUntouched, ConsoleUntouched DEF Die, IInv, Types

-----------------------------------------------------------------------------
(* The console.                                                            *)

LEMMA AskedIs ==
  ASSUME IInv, Asked
  PROVE  console = Quiet /\ answers' \in 0 .. MaxAnswers
BY DiscoveryAssumption DEF Asked, IInv, Types

LEMMA CreatedIs ==
  ASSUME IInv, NEW c \in Community, NEW listed \in Typed, Created(c, listed)
  PROVE  /\ community' \in Communities /\ c \in LiveIn(community')
         /\ LiveIn(community) \subseteq LiveIn(community')
BY DiscoveryAssumption DEF Created, IInv, Types, Communities, LiveIn

LEMMA CreateCommunityStep == ASSUME IInv, CreateCommunity PROVE IInv'
<1>1. PICK c \in Community, listed \in Typed : Created(c, listed)
  BY DEF CreateCommunity
<1>2. UNCHANGED <<run, overdue, item, source, job, console, moved>> /\ Asked
  BY DEF CreateCommunity
<1>3. community' \in Communities /\ LiveIn(community) \subseteq LiveIn(community')
  BY <1>1, CreatedIs
<1>4. RowInv' /\ KeysDiffer'
  BY <1>2, <1>3 DEF IInv, RowInv, RowIsFine, KeysDiffer, Live
<1>5. console' = Quiet /\ answers' \in 0 .. MaxAnswers
  BY <1>2, AskedIs
<1> QED
  BY <1>2, <1>3, <1>4, <1>5, JobUntouched, ConsoleQuiet DEF IInv, Types

(* An answer of which community a candidate is.                            *)
LEMMA AnsweredIs ==
  ASSUME IInv, NEW i \in Live, NEW state \in Done, NEW c \in LiveIn(community'),
         community' \in Communities, LiveIn(community) \subseteq LiveIn(community'),
         source' = source, moved' \in SUBSET Item, moved \subseteq moved',
         item[i].source # None /\ item[i].registered # c => i \in moved',
         item' = Answered(i, state, c)
  PROVE  item' \in Rows /\ RowInv' /\ KeysDiffer' /\ Live' = Live
<1> USE DiscoveryAssumption
<1> DEFINE r == [item[i] EXCEPT !.state = state, !.registered = c, !.existing = c,
                                !.class = "existing"]
<1>1. item[i] \in Row /\ item \in Rows /\ i \in Item
  BY LiveRow DEF Live, IInv, Types
<1>2. c \in Community /\ c # None
  BY LiveCommunity DEF Community
<1>3. r \in Row
  BY <1>1, <1>2 DEF Row, State, Class
<1>4. /\ r.state = state /\ r.registered = c /\ r.existing = c /\ r.class = "existing"
      /\ r.key = item[i].key /\ r.twin = item[i].twin /\ r.source = item[i].source
  BY <1>1 DEF Row
<1>5. item' = [item EXCEPT ![i] = r]
  BY DEF Answered
<1>6. RowIsFine(i)
  BY DEF IInv, RowInv
<1>7. r.twin # None => r.twin < i /\ r.twin \in Live
  BY <1>4, <1>6 DEF RowIsFine
<1>8. i \notin moved' /\ r.source # None => source'[r.source] \in {Hand, c}
  BY <1>4, <1>6, <1>2 DEF RowIsFine
<1>9. source' \in [Key -> Community \cup {None, Hand}]
  BY DEF IInv, Types
<1> HIDE DEF r
<1> QED
  BY ZenonT(60), <1>3, <1>4, <1>5, <1>7, <1>8, <1>9, OneRowChanged

LEMMA RegisterStep == ASSUME IInv, Register PROVE IInv'
<1>1. PICK i \in Live, c \in Community, listed \in Typed :
        /\ item[i].state \notin Done /\ Created(c, listed)
        /\ item' = Answered(i, "approved", c)
        /\ \E siblings \in SUBSET (Live \ {i}) :
             console' = IF siblings = {} THEN Quiet
                        ELSE [Quiet EXCEPT !.at = "group", !.community = c, !.todo = siblings]
  BY DEF Register
<1>2. UNCHANGED <<run, overdue, source, job, moved>> /\ Asked
  BY DEF Register
<1>3. /\ community' \in Communities /\ c \in LiveIn(community')
      /\ LiveIn(community) \subseteq LiveIn(community')
  BY <1>1, CreatedIs
<1>4. item[i].source = None
  BY <1>1 DEF IInv, RowInv, RowIsFine
<1>5. item' \in Rows /\ RowInv' /\ KeysDiffer'
  <2>1. "approved" \in Done /\ moved' \in SUBSET Item /\ moved \subseteq moved'
    BY <1>2 DEF Done, IInv, Types
  <2> QED
    BY <1>1, <1>2, <1>3, <1>4, <2>1, AnsweredIs
<1>6. console' \in Request /\ ConsoleInv'
  <2>0. PICK siblings \in SUBSET (Live \ {i}) :
          console' = IF siblings = {} THEN Quiet
                     ELSE [Quiet EXCEPT !.at = "group", !.community = c, !.todo = siblings]
    BY <1>1
  <2>1. CASE siblings = {}
    BY <2>0, <2>1, ConsoleQuiet
  <2>2. CASE siblings # {}
    <3>1. siblings \subseteq Item
      BY DEF Live, LiveIn, IInv, Types, Rows
    <3>2. console' \in Request /\ console'.at = "group" /\ console'.community = c
      BY <2>0, <2>2, <3>1 DEF Quiet, Request
    <3> QED
      BY <1>3, <3>2 DEF ConsoleInv
  <2> QED
    BY <2>1, <2>2
<1> QED
  BY <1>2, <1>3, <1>5, <1>6, JobUntouched, AskedIs DEF IInv, Types

LEMMA LookAtSiblingStep == ASSUME IInv, NEW j \in Item, LookAtSibling(j) PROVE IInv'
<1>1. UNCHANGED <<run, overdue, item, community, source, job, answers, moved>>
  BY DEF LookAtSibling
<1>2. console \in Request /\ console.at = "group" /\ console.community \in LiveIn(community)
  BY DEF LookAtSibling, IInv, Types, ConsoleInv
<1>3. console' \in Request /\ ConsoleInv'
  <2>1. CASE j \in Live /\ item[j].state \notin Done
    <3>1. console' = [console EXCEPT !.at = "link", !.item = j, !.todo = @ \ {j}]
      BY <2>1 DEF LookAtSibling
    <3>2. /\ console' \in Request /\ console'.at = "link" /\ console'.item = j
          /\ console'.community = console.community
      BY <1>2, <3>1 DEF Request
    <3> QED
      BY <1>1, <1>2, <2>1, <3>2 DEF ConsoleInv, Live
  <2>2. CASE ~(j \in Live /\ item[j].state \notin Done) /\ console.todo = {j}
    BY <2>2, ConsoleQuiet DEF LookAtSibling
  <2>3. CASE ~(j \in Live /\ item[j].state \notin Done) /\ console.todo # {j}
    <3>1. console' = [console EXCEPT !.todo = @ \ {j}]
      BY <2>3 DEF LookAtSibling
    <3>2. /\ console' \in Request /\ console'.at = "group"
          /\ console'.community = console.community
      BY <1>2, <3>1 DEF Request
    <3> QED
      BY <1>1, <1>2, <3>2 DEF ConsoleInv
  <2> QED
    BY <2>1, <2>2, <2>3
<1> QED
  BY <1>1, <1>3, JobUntouched, RowsUntouched DEF IInv, Types

LEMMA LinkSiblingStep == ASSUME IInv, LinkSibling PROVE IInv'
<1> DEFINE j == console.item
<1>1. UNCHANGED <<run, overdue, community, source, job, answers, moved>> /\ console.at = "link"
  BY DEF LinkSibling
<1>2. /\ console \in Request /\ console.community \in LiveIn(community) /\ j \in Item
      /\ j \in Live => item[j].state \notin Done
  BY <1>1 DEF IInv, Types, ConsoleInv
<1>3. CASE j \in Live
  <2>1. item' = Answered(j, "linked", console.community)
    BY <1>3 DEF LinkSibling
  <2>2. item[j].source = None
    BY <1>2, <1>3 DEF IInv, RowInv, RowIsFine
  <2>3. item' \in Rows /\ RowInv' /\ KeysDiffer'
    <3>1. /\ "linked" \in Done /\ moved' \in SUBSET Item /\ moved \subseteq moved'
          /\ community' \in Communities /\ LiveIn(community) \subseteq LiveIn(community')
          /\ console.community \in LiveIn(community')
      BY <1>1, <1>2 DEF Done, IInv, Types
    <3> QED
      BY <1>1, <1>3, <2>1, <2>2, <3>1, AnsweredIs
  <2>4. console' \in Request /\ ConsoleInv'
    <3>1. CASE console.todo = {}
      BY <1>3, <3>1, ConsoleQuiet DEF LinkSibling
    <3>2. CASE console.todo # {}
      <4>1. console' = [console EXCEPT !.at = "group", !.item = None]
        BY <1>3, <3>2 DEF LinkSibling
      <4>2. /\ console' \in Request /\ console'.at = "group"
            /\ console'.community = console.community
        BY <1>2, <4>1 DEF Request
      <4> QED
        BY <1>1, <1>2, <4>2 DEF ConsoleInv
    <3> QED
      BY <3>1, <3>2
  <2> QED
    BY <1>1, <2>3, <2>4, JobUntouched DEF IInv, Types
<1>4. CASE j \notin Live
  <2>1. item' = item /\ console' = Quiet
    BY <1>4 DEF LinkSibling
  <2> QED
    BY <1>1, <2>1, RowsUntouched, JobUntouched, ConsoleQuiet DEF IInv, Types
<1> QED
  BY <1>3, <1>4

LEMMA LinkStep == ASSUME IInv, Link PROVE IInv'
<1>1. PICK i \in Live, c \in LiveIn(community) :
        /\ item' = Answered(i, "linked", c)
        /\ moved' = IF item[i].source # None /\ item[i].registered # c
                      THEN moved \cup {i} ELSE moved
  BY DEF Link
<1>2. UNCHANGED <<run, overdue, community, source, job, console>> /\ Asked
  BY DEF Link
<1>3. i \in Item
  BY DEF Live, LiveIn, IInv, Types, Rows
<1>4. /\ "linked" \in Done /\ moved' \in SUBSET Item /\ moved \subseteq moved'
      /\ community' \in Communities /\ LiveIn(community) \subseteq LiveIn(community')
      /\ c \in LiveIn(community')
  BY <1>1, <1>2, <1>3 DEF Done, IInv, Types
<1>5. item' \in Rows /\ RowInv' /\ KeysDiffer'
  BY <1>1, <1>2, <1>4, AnsweredIs
<1> QED
  BY <1>2, <1>4, <1>5, JobUntouched, AskedIs, ConsoleQuiet DEF IInv, Types

(* Answers that leave the community and the source of a candidate alone.   *)
LEMMA AnswerStep ==
  ASSUME IInv, Asked, NEW i \in Live, NEW r \in Row, item' = [item EXCEPT ![i] = r],
         UNCHANGED <<run, overdue, community, source, job, moved>>,
         console' \in Request, ConsoleInv',
         \A f \in {"key", "class", "existing", "twin", "registered", "source"} :
           r[f] = item[i][f],
         \/ r.state = item[i].state
         \/ item[i].state \notin Done /\ r.state \notin Done
  PROVE  IInv'
<1>1. RowIsFine(i)
  BY DEF IInv, RowInv
<1>2. /\ r.key = item[i].key /\ r.class = item[i].class /\ r.existing = item[i].existing
      /\ r.twin = item[i].twin /\ r.registered = item[i].registered
      /\ r.source = item[i].source
  OBVIOUS
<1>3. item' \in Rows /\ RowInv' /\ KeysDiffer'
  <2>1. /\ community' \in Communities /\ LiveIn(community) \subseteq LiveIn(community')
        /\ source' \in [Key -> Community \cup {None, Hand}]
        /\ \A k \in Key : source[k] # None => source'[k] = source[k]
        /\ moved' \in SUBSET Item /\ moved \subseteq moved'
    BY DEF IInv, Types
  <2>2. /\ r.twin # None => r.twin < i /\ r.twin \in Live
        /\ r.existing # None => r.existing \in LiveIn(community')
        /\ r.registered # None => r.registered \in LiveIn(community')
        /\ r.state \in Done /\ r.registered # None
           => r.class = "existing" /\ r.existing = r.registered
        /\ r.source # None => r.state \in Done
        /\ i \notin moved' /\ r.source # None /\ r.registered # None
           => source'[r.source] \in {Hand, r.registered}
    BY <1>1, <1>2 DEF RowIsFine
  <2> QED
    BY <1>2, <2>1, <2>2, OneRowChanged
<1> QED
  BY <1>3, JobUntouched, AskedIs DEF IInv, Types

LEMMA SetReviewStateStep == ASSUME IInv, SetReviewState PROVE IInv'
<1>1. PICK i \in Live, s \in State \ Done :
        item[i].state \notin Done /\ item' = [item EXCEPT ![i].state = s]
  BY DEF SetReviewState
<1> DEFINE r == [item[i] EXCEPT !.state = s]
<1>2. item[i] \in Row
  BY LiveRow DEF Live, IInv, Types
<1>3. /\ r \in Row /\ r.state = s
      /\ \A f \in {"key", "class", "existing", "twin", "registered", "source"} :
           r[f] = item[i][f]
  BY <1>2 DEF Row
<1>4. item' = [item EXCEPT ![i] = r]
  BY <1>1
<1>5. console' \in Request /\ ConsoleInv'
  BY AskedIs, ConsoleQuiet DEF SetReviewState
<1> HIDE DEF r
<1> QED
  BY <1>1, <1>3, <1>4, <1>5, AnswerStep DEF SetReviewState

LEMMA ReclassifyNext ==
  ASSUME NEW i \in Item, ThenReclassify(i)
  PROVE  console' \in Request /\ ConsoleInv'
<1>1. console' \in Request /\ console'.at = "read"
  BY DEF ThenReclassify, Quiet, Request
<1> QED
  BY <1>1 DEF ConsoleInv

LEMMA ConfirmEvidenceStep == ASSUME IInv, ConfirmEvidence PROVE IInv'
<1>1. PICK i \in Live, day \in Date :
        /\ item' = [item EXCEPT ![i].activity = Verdict(day), ![i].date = day,
                                ![i].confidence = "confirmed"]
        /\ ThenReclassify(i)
  BY DEF ConfirmEvidence
<1> DEFINE r == [item[i] EXCEPT !.activity = Verdict(day), !.date = day,
                                !.confidence = "confirmed"]
<1>2. item[i] \in Row /\ i \in Item
  BY LiveRow DEF Live, IInv, Types
<1>3. Verdict(day) \in Activity
  BY DEF Verdict, Activity
<1>4. /\ r \in Row /\ r.state = item[i].state
      /\ \A f \in {"key", "class", "existing", "twin", "registered", "source"} :
           r[f] = item[i][f]
  BY <1>2, <1>3 DEF Row
<1>5. item' = [item EXCEPT ![i] = r]
  BY <1>1
<1>6. console' \in Request /\ ConsoleInv'
  BY <1>1, <1>2, ReclassifyNext
<1>7. UNCHANGED <<run, overdue, community, source, job, moved>> /\ Asked
  BY DEF ConfirmEvidence
<1> HIDE DEF r
<1> QED
  BY <1>1, <1>4, <1>5, <1>6, <1>7, AnswerStep

LEMMA MarkIndependentStep == ASSUME IInv, MarkIndependent PROVE IInv'
<1>1. PICK i \in Live : item' = [item EXCEPT ![i].cleared = TRUE] /\ ThenReclassify(i)
  BY DEF MarkIndependent
<1> DEFINE r == [item[i] EXCEPT !.cleared = TRUE]
<1>2. item[i] \in Row /\ i \in Item
  BY LiveRow DEF Live, IInv, Types
<1>3. /\ r \in Row /\ r.state = item[i].state
      /\ \A f \in {"key", "class", "existing", "twin", "registered", "source"} :
           r[f] = item[i][f]
  BY <1>2 DEF Row
<1>4. item' = [item EXCEPT ![i] = r]
  BY <1>1
<1>5. console' \in Request /\ ConsoleInv'
  BY <1>1, <1>2, ReclassifyNext
<1>6. UNCHANGED <<run, overdue, community, source, job, moved>> /\ Asked
  BY DEF MarkIndependent
<1> HIDE DEF r
<1> QED
  BY <1>1, <1>3, <1>4, <1>5, <1>6, AnswerStep

(* What reclassify() reads is of the state it reads it in.                 *)
LEMMA ReadAgainStep == ASSUME IInv, ReadAgain PROVE IInv'
<1> DEFINE i == console.item
<1>1. UNCHANGED <<run, overdue, item, community, source, job, answers, moved>>
  BY DEF ReadAgain
<1>2. CASE i \notin Live
  BY <1>1, <1>2, RowsUntouched, JobUntouched, ConsoleQuiet DEF ReadAgain, IInv, Types
<1>3. CASE i \in Live
  <2> DEFINE v == Classified(i, item, community)
  <2>1. item \in Rows /\ community \in Communities /\ i \in LiveIn(item)
    BY <1>3 DEF IInv, Types, Live
  <2>2. /\ v \in Outcome
        /\ v.existing # None => \/ v.existing \in LiveIn(community)
                                \/ v.existing = item[i].registered
        /\ v.twin # None => v.twin < i
        /\ item[i].state \in Done /\ item[i].registered # None
           => v.class = "existing" /\ v.existing = item[i].registered
    BY <2>1, ClassifiedIs
  <2>3. item[i].registered # None => item[i].registered \in LiveIn(community)
    BY <1>3 DEF IInv, RowInv, RowIsFine
  <2>4. i \in Item
    BY <2>1, LiveRow
  <2>5. console' = [console EXCEPT !.at = "write", !.class = v]
    BY <1>3 DEF ReadAgain
  <2> HIDE DEF v
  <2>6. console' \in Request /\ console'.at = "write" /\ console'.class = v /\ console'.item = i
    BY <2>2, <2>5 DEF IInv, Types, Request
  <2>7. ConsoleInv'
    BY <1>1, <2>2, <2>3, <2>4, <2>6 DEF ConsoleInv, Live
  <2> QED
    BY <1>1, <2>6, <2>7, RowsUntouched, JobUntouched DEF IInv, Types
<1> QED
  BY <1>2, <1>3

LEMMA WriteClassStep == ASSUME IInv, WriteClass PROVE IInv'
<1> DEFINE i == console.item
           v == console.class
<1>1. /\ UNCHANGED <<run, overdue, community, source, job, answers, moved>>
      /\ console' = Quiet /\ console.at = "write"
  BY DEF WriteClass
<1>2. CASE ~(i \in Live /\ v.twin \in Live \cup {None})
  <2>1. item' = item
    BY <1>2 DEF WriteClass
  <2> QED
    BY <1>1, <2>1, RowsUntouched, JobUntouched, ConsoleQuiet DEF IInv, Types
<1>3. CASE i \in Live /\ v.twin \in Live \cup {None}
  <2> DEFINE r == Marked(item[i], v)
  <2>1. item' = [item EXCEPT ![i] = r]
    BY <1>3 DEF WriteClass
  <2>2. item[i] \in Row /\ v \in Outcome
    BY <1>1, <1>3, LiveRow DEF Live, IInv, Types, ConsoleInv
  <2>3. /\ r \in Row /\ r.class = v.class /\ r.existing = v.existing /\ r.twin = v.twin
        /\ \A f \in {"key", "state", "date", "confidence", "registered", "cleared",
                     "source"} : r[f] = item[i][f]
    BY <2>2, MarkedIs
  <2>4. /\ r.key = item[i].key /\ r.state = item[i].state /\ r.source = item[i].source
        /\ r.registered = item[i].registered
    BY <2>3
  <2> HIDE DEF r
  <2>5. /\ v.existing # None => v.existing \in LiveIn(community)
        /\ v.twin # None => v.twin < i
        /\ item[i].state \in Done /\ item[i].registered # None
           => v.class = "existing" /\ v.existing = item[i].registered
    BY <1>1, <1>3 DEF IInv, ConsoleInv
  <2>6. RowIsFine(i)
    BY <1>3 DEF IInv, RowInv
  <2>7. /\ r.twin # None => r.twin < i /\ r.twin \in Live
        /\ r.existing # None => r.existing \in LiveIn(community')
        /\ r.registered # None => r.registered \in LiveIn(community')
        /\ r.state \in Done /\ r.registered # None
           => r.class = "existing" /\ r.existing = r.registered
        /\ r.source # None => r.state \in Done
        /\ i \notin moved' /\ r.source # None /\ r.registered # None
           => source'[r.source] \in {Hand, r.registered}
    BY <1>1, <1>3, <2>3, <2>4, <2>5, <2>6 DEF RowIsFine
  <2>8. /\ community' \in Communities /\ LiveIn(community) \subseteq LiveIn(community')
        /\ source' \in [Key -> Community \cup {None, Hand}]
        /\ \A k \in Key : source[k] # None => source'[k] = source[k]
        /\ moved' \in SUBSET Item /\ moved \subseteq moved'
    BY <1>1 DEF IInv, Types
  <2>9. item' \in Rows /\ RowInv' /\ KeysDiffer'
    BY <1>3, <2>1, <2>3, <2>4, <2>7, <2>8, OneRowChanged
  <2> QED
    BY <1>1, <2>9, JobUntouched, ConsoleQuiet DEF IInv, Types
<1> QED
  BY <1>2, <1>3

LEMMA ProposedIs ==
  ASSUME IInv, NEW k \in Key, NEW c \in LiveIn(community), Proposed(k, c)
  PROVE  /\ source' \in [Key -> Community \cup {None, Hand}]
         /\ \A l \in Key : source[l] # None => source'[l] = source[l]
         /\ source'[k] \in {Hand, c}
<1>1. c \in Community
  BY LiveCommunity DEF IInv, Types
<1> QED
  BY <1>1 DEF Proposed, MayHave, IInv, Types

LEMMA ProposeSourceStep == ASSUME IInv, ProposeSource PROVE IInv'
<1>1. PICK i \in Live :
        /\ item[i].source = None /\ item[i].state \in Done /\ item[i].registered # None
        /\ Proposed(item[i].key, item[i].registered)
        /\ item' = [item EXCEPT ![i].source = item[i].key]
  BY DEF ProposeSource
<1>2. UNCHANGED <<run, overdue, community, job, console, moved>> /\ Asked
  BY DEF ProposeSource
<1> DEFINE r == [item[i] EXCEPT !.source = item[i].key]
<1>3. item[i] \in Row /\ item[i].key \in Key
  BY LiveRow DEF Live, IInv, Types, Row
<1>4. RowIsFine(i)
  BY <1>1 DEF IInv, RowInv
<1>5. item[i].registered \in LiveIn(community)
  BY <1>1, <1>4 DEF RowIsFine
<1>6. /\ source' \in [Key -> Community \cup {None, Hand}]
      /\ \A l \in Key : source[l] # None => source'[l] = source[l]
      /\ source'[item[i].key] \in {Hand, item[i].registered}
  BY <1>1, <1>3, <1>5, ProposedIs
<1>7. /\ r \in Row /\ r.key = item[i].key /\ r.twin = item[i].twin /\ r.state = item[i].state
      /\ r.class = item[i].class /\ r.existing = item[i].existing
      /\ r.registered = item[i].registered /\ r.source = item[i].key
  BY <1>3 DEF Row
<1>8. item' = [item EXCEPT ![i] = r]
  BY <1>1
<1> HIDE DEF r
<1>9. /\ community' \in Communities /\ LiveIn(community) \subseteq LiveIn(community')
      /\ moved' \in SUBSET Item /\ moved \subseteq moved'
  BY <1>2 DEF IInv, Types
<1>10. /\ r.twin # None => r.twin < i /\ r.twin \in Live
       /\ r.existing # None => r.existing \in LiveIn(community')
       /\ r.registered # None => r.registered \in LiveIn(community')
       /\ r.state \in Done /\ r.registered # None
          => r.class = "existing" /\ r.existing = r.registered
       /\ r.source # None => r.state \in Done
       /\ i \notin moved' /\ r.source # None /\ r.registered # None
          => source'[r.source] \in {Hand, r.registered}
  BY <1>1, <1>2, <1>4, <1>6, <1>7 DEF RowIsFine
<1>11. item' \in Rows /\ RowInv' /\ KeysDiffer'
  BY <1>1, <1>6, <1>7, <1>8, <1>9, <1>10, OneRowChanged
<1> QED
  BY <1>2, <1>6, <1>9, <1>11, JobUntouched, AskedIs, ConsoleQuiet DEF IInv, Types

LEMMA SameLive ==
  ASSUME item \in Rows, item' = [i \in Item |-> item'[i]],
         \A i \in Live : item'[i] \in Row,
         \A i \in Item \ Live : item'[i] = item[i]
  PROVE  Live' = Live /\ item' \in Rows
<1>1. DOMAIN item' = Item /\ DOMAIN item = Item
  BY DEF Rows
<1>2. \A i : i \in Live <=> i \in Item /\ item[i] \notin {None, Gone}
  BY <1>1 DEF Live, LiveIn
<1>3. \A i : i \in Live' <=> i \in Item /\ item'[i] \notin {None, Gone}
  BY <1>1 DEF Live, LiveIn
<1>4. \A i \in Live : item'[i] \notin {None, Gone}
  BY DiscoveryAssumption
<1>5. \A i : i \in Live <=> i \in Live'
  BY <1>2, <1>3, <1>4
<1>6. Live' = Live
  BY <1>5
<1>7. \A i \in Item : item'[i] \in Row \cup {None, Gone}
  BY <1>2 DEF Rows
<1> QED
  BY <1>6, <1>7 DEF Rows

LEMMA ProposeForCommunityStep == ASSUME IInv, ProposeForCommunity PROVE IInv'
<1> USE DiscoveryAssumption
<1>1. PICK c \in LiveIn(community) : \E p \in PagesOf(c) :
        /\ Proposed(p, c)
        /\ item' = [i \in Item |-> IF i \in Own(c) /\ item[i].source = None
                                     THEN [item[i] EXCEPT !.source = p] ELSE item[i]]
  BY DEF ProposeForCommunity
<1>2. PICK page \in PagesOf(c) :
        /\ Proposed(page, c)
        /\ item' = [i \in Item |-> IF i \in Own(c) /\ item[i].source = None
                                     THEN [item[i] EXCEPT !.source = page] ELSE item[i]]
  BY <1>1
<1>3. UNCHANGED <<run, overdue, community, job, console, moved>> /\ Asked
  BY DEF ProposeForCommunity
<1>4. item \in Rows /\ community \in Communities /\ Live \subseteq Item
  BY DEF IInv, Types, Rows, Live, LiveIn
<1>5. \A i \in Live : item[i] \in Row /\ item[i].key \in Key /\ item[i].source \in Key \cup {None}
  BY <1>4, LiveRow DEF Live, Row
<1>6. page \in Key
  <2>1. CASE community[c].key # None
    BY <1>1, <1>2, <1>4, <2>1, LiveCommunity DEF PagesOf
  <2>2. CASE community[c].key = None
    <3>1. PICK i \in Own(c) : page = item[i].key
      BY <1>2, <2>2 DEF PagesOf
    <3> QED
      BY <1>5, <3>1 DEF Own
  <2> QED
    BY <2>1, <2>2
<1>7. /\ source' \in [Key -> Community \cup {None, Hand}]
      /\ \A l \in Key : source[l] # None => source'[l] = source[l]
      /\ source'[page] \in {Hand, c}
  BY <1>1, <1>2, <1>6, ProposedIs
<1>8. ASSUME NEW i \in Live
      PROVE  /\ item'[i] \in Row
             /\ item'[i].key = item[i].key /\ item'[i].twin = item[i].twin
             /\ item'[i].state = item[i].state /\ item'[i].class = item[i].class
             /\ item'[i].existing = item[i].existing
             /\ item'[i].registered = item[i].registered
             /\ item'[i].source = IF i \in Own(c) /\ item[i].source = None THEN page
                                  ELSE item[i].source
  BY <1>2, <1>4, <1>5, <1>6 DEF Row
<1>9. \A i \in Item \ Live : item'[i] = item[i]
  BY <1>2 DEF Own
<1>10. Live' = Live /\ item' \in Rows
  <2>1. item' = [i \in Item |-> item'[i]]
    BY <1>2
  <2> QED
    BY <1>4, <1>8, <1>9, <2>1, SameLive
<1>11. KeysDiffer'
  BY <1>8, <1>10 DEF IInv, KeysDiffer
<1>12. ASSUME NEW i \in Live PROVE RowIsFine(i)'
  <2>1. RowIsFine(i)
    BY DEF IInv, RowInv
  <2>2. i \in Own(c) => item[i].state \in Done /\ item[i].registered = c
    BY DEF Own
  <2>3. c # None
    BY <1>4, LiveCommunity DEF Community
  <2> QED
    BY <1>3, <1>5, <1>6, <1>7, <1>8, <1>10, <2>1, <2>2, <2>3 DEF RowIsFine
<1>13. RowInv'
  BY <1>10, <1>12 DEF RowInv
<1> QED
  BY <1>3, <1>7, <1>10, <1>11, <1>13, JobUntouched, AskedIs, ConsoleQuiet DEF IInv, Types

(* A community that goes takes its name from every row.                    *)
LEMMA DeleteCommunityStep == ASSUME IInv, DeleteCommunity PROVE IInv'
<1> USE DiscoveryAssumption
<1> DEFINE Unset(c, x) == IF x = c THEN None ELSE x
<1>1. PICK c \in LiveIn(community) :
        /\ community' = [community EXCEPT ![c] = Gone]
        /\ item' = [i \in Item |->
                      IF i \in Live
                        THEN [item[i] EXCEPT !.existing = Unset(c, @), !.registered = Unset(c, @)]
                        ELSE item[i]]
  BY DEF DeleteCommunity
<1>2. UNCHANGED <<run, overdue, source, job, console, moved>> /\ Asked
  BY DEF DeleteCommunity
<1>3. item \in Rows /\ community \in Communities /\ Live \subseteq Item
  BY DEF IInv, Types, Rows, Live, LiveIn
<1>4. \A i \in Live : item[i] \in Row
  BY <1>3, LiveRow DEF Live
<1>5. community' \in Communities /\ LiveIn(community') = LiveIn(community) \ {c}
  BY <1>1, <1>3 DEF Communities, LiveIn
<1>6. ASSUME NEW i \in Live
      PROVE  /\ item'[i] \in Row
             /\ item'[i].key = item[i].key /\ item'[i].twin = item[i].twin
             /\ item'[i].state = item[i].state /\ item'[i].class = item[i].class
             /\ item'[i].existing = Unset(c, item[i].existing)
             /\ item'[i].registered = Unset(c, item[i].registered)
             /\ item'[i].source = item[i].source
  <2>1. item[i] \in Row
    BY <1>4
  <2>2. item'[i] = [item[i] EXCEPT !.existing = Unset(c, item[i].existing),
                                   !.registered = Unset(c, item[i].registered)]
    BY <1>1, <1>3, <2>1 DEF Row
  <2>3. /\ Unset(c, item[i].existing) \in Community \cup {None}
        /\ Unset(c, item[i].registered) \in Community \cup {None}
    BY <2>1 DEF Row
  <2> HIDE DEF Unset
  <2> QED
    BY ZenonT(60), <2>1, <2>2, <2>3 DEF Row
<1>7. \A i \in Item \ Live : item'[i] = item[i]
  BY <1>1
<1>8. Live' = Live /\ item' \in Rows
  <2>1. item' = [i \in Item |-> item'[i]]
    BY <1>1
  <2> QED
    BY <1>3, <1>6, <1>7, <2>1, SameLive
<1>9. KeysDiffer'
  BY <1>6, <1>8 DEF IInv, KeysDiffer
<1>10. ASSUME NEW i \in Live PROVE RowIsFine(i)'
  <2>1. RowIsFine(i)
    BY DEF IInv, RowInv
  <2> QED
    BY <1>2, <1>5, <1>6, <1>8, <2>1 DEF RowIsFine
<1>11. RowInv'
  BY <1>8, <1>10 DEF RowInv
<1> QED
  BY <1>2, <1>5, <1>8, <1>9, <1>11, JobUntouched, AskedIs, ConsoleQuiet DEF IInv, Types

LEMMA ConsoleDiesStep == ASSUME IInv, ConsoleDies PROVE IInv'
BY RowsUntouched, JobUntouched, ConsoleQuiet DEF ConsoleDies, IInv, Types

-----------------------------------------------------------------------------
(* What the job stores.                                                    *)

New == {k \in DOMAIN job.found : \A i \in Live : item[i].key # k}

(* what neither a search nor reclassify() may change in a row              *)
Told(row, old) ==
  /\ row.key = old.key /\ row.state = old.state /\ row.registered = old.registered
  /\ row.cleared = old.cleared /\ row.source = old.source

Fixed(row, old) ==
  row.class = old.class /\ row.existing = old.existing /\ row.twin = old.twin

LEMMA FoundIs ==
  ASSUME IInv, job.at = "store"
  PROVE  /\ DOMAIN job.found \subseteq Key /\ \A k \in DOMAIN job.found : job.found[k] \in Hit
         /\ job.known \in Communities
BY DiscoveryAssumption DEF IInv, JobInv

LEMMA LiveIs ==
  ASSUME NEW rows \in Rows
  PROVE  /\ \A i : i \in LiveIn(rows) <=> i \in Item /\ rows[i] \in Row
         /\ \A i \in Item \ LiveIn(rows) : rows[i] \in {None, Gone}
BY DiscoveryAssumption DEF Rows, LiveIn

(* One row for every page, and the old ones say what they said.            *)
LEMMA UpsertedIs ==
  ASSUME IInv, job.at = "store", NEW ids \in [New -> Fresh(item)],
         \A k, l \in New : k # l => ids[k] # ids[l]
  PROVE  LET merged == Upserted(ids) IN
         /\ merged \in Rows
         /\ \A i : i \in LiveIn(merged) <=> i \in Live \/ \E k \in New : ids[k] = i
         /\ \A i \in Live :
              /\ Told(merged[i], item[i]) /\ Fixed(merged[i], item[i])
              /\ item[i].key \notin DOMAIN job.found => merged[i] = item[i]
              /\ item[i].confidence = "confirmed" /\ ~ToldOfTheEnd(item[i].key)
                 => /\ merged[i].confidence = "confirmed"
                    /\ merged[i].date = item[i].date
         /\ \A k \in New :
              /\ ids[k] \notin Live /\ merged[ids[k]].key = k
              /\ merged[ids[k]].state = "pending" /\ merged[ids[k]].registered = None
              /\ merged[ids[k]].source = None
<1> DEFINE merged == Upserted(ids)
<1>1. item \in Rows /\ Live = LiveIn(item)
  BY DEF IInv, Types, Live
<1>2. /\ \A i : i \in Live <=> i \in Item /\ item[i] \in Row
      /\ \A i \in Item \ Live : item[i] \in {None, Gone}
  BY <1>1, LiveIs
<1>3. \A k \in New : ids[k] \in Item /\ ids[k] \notin Live /\ item[ids[k]] = None
  BY <1>1 DEF Fresh, LiveIn
<1>4. merged = [i \in Item |-> merged[i]]
  BY DEF Upserted
<1>5. ASSUME NEW i \in Live
      PROVE  /\ merged[i] \in Row /\ Told(merged[i], item[i]) /\ Fixed(merged[i], item[i])
             /\ item[i].key \notin DOMAIN job.found => merged[i] = item[i]
             /\ item[i].confidence = "confirmed" /\ ~ToldOfTheEnd(item[i].key)
                => /\ merged[i].confidence = "confirmed"
                   /\ merged[i].date = item[i].date
  <2>1. i \in Item /\ item[i] \in Row
    BY <1>2
  <2>2. CASE item[i].key \in DOMAIN job.found
    <3> DEFINE hit == job.found[item[i].key]
    <3>1. merged[i] = Merged(item[i], hit)
      BY <2>1, <2>2 DEF Upserted
    <3>2. hit \in Hit
      BY <2>2, FoundIs
    <3>3. ToldOfTheEnd(item[i].key) <=> hit.ends
      BY <2>2 DEF ToldOfTheEnd
    <3> HIDE DEF hit, merged
    <3>4. /\ merged[i] \in Row
          /\ \A f \in {"key", "state", "class", "existing", "twin", "registered", "cleared",
                       "source"} : merged[i][f] = item[i][f]
          /\ item[i].confidence = "confirmed" /\ ~hit.ends
             => merged[i].confidence = "confirmed" /\ merged[i].date = item[i].date
      BY <2>1, <3>1, <3>2, MergedIs
    <3> QED
      BY <2>2, <3>3, <3>4 DEF Told, Fixed
  <2>3. CASE item[i].key \notin DOMAIN job.found
    <3>1. ~ \E k \in DOMAIN ids : ids[k] = i
      BY <1>3
    <3>2. merged[i] = item[i]
      BY <2>1, <2>3, <3>1 DEF Upserted
    <3> QED
      BY <2>1, <3>2 DEF Told, Fixed
  <2> QED
    BY <2>2, <2>3
<1>6. ASSUME NEW k \in New
      PROVE  /\ merged[ids[k]] \in Row /\ merged[ids[k]].key = k
             /\ merged[ids[k]].state = "pending" /\ merged[ids[k]].registered = None
             /\ merged[ids[k]].source = None
  <2>1. ids[k] \in Item /\ ids[k] \notin Live /\ DOMAIN ids = New
    BY <1>3
  <2>2. (CHOOSE x \in DOMAIN ids : ids[x] = ids[k]) = k
    BY <2>1
  <2>3. merged[ids[k]] = Merged(Blank(k), job.found[k])
    BY <2>1, <2>2 DEF Upserted
  <2>4. k \in Key /\ job.found[k] \in Hit
    BY FoundIs DEF New
  <2>5. Blank(k) \in Row
    BY <2>4, BlankIs
  <2> HIDE DEF merged
  <2>6. /\ merged[ids[k]] \in Row
        /\ \A f \in {"key", "state", "class", "existing", "twin", "registered", "cleared",
                     "source"} : merged[ids[k]][f] = Blank(k)[f]
    BY <2>3, <2>4, <2>5, MergedIs
  <2>7. /\ Blank(k).key = k /\ Blank(k).state = "pending" /\ Blank(k).registered = None
        /\ Blank(k).source = None
    BY DEF Blank
  <2> QED
    BY <2>6, <2>7
<1>7. ASSUME NEW i \in Item, i \notin Live, \A k \in New : ids[k] # i
      PROVE  merged[i] = item[i] /\ item[i] \in {None, Gone}
  <2>1. ~ \E k \in DOMAIN ids : ids[k] = i
    BY <1>7
  <2> QED
    BY <1>2, <1>7, <2>1 DEF Upserted
<1> HIDE DEF merged
<1>8. \A i \in Item : merged[i] \in Row \cup {None, Gone}
  <2> SUFFICES ASSUME NEW i \in Item PROVE merged[i] \in Row \cup {None, Gone}
      OBVIOUS
  <2>1. CASE i \in Live
    BY <1>5, <2>1
  <2>2. CASE \E k \in New : ids[k] = i
    BY <1>6, <2>2
  <2>3. CASE i \notin Live /\ \A k \in New : ids[k] # i
    BY <1>7, <2>3
  <2> QED
    BY <2>1, <2>2, <2>3
<1>9. merged \in Rows
  BY <1>4, <1>8 DEF Rows
<1>10. \A i : i \in LiveIn(merged) <=> i \in Live \/ \E k \in New : ids[k] = i
  <2>1. \A i : i \in LiveIn(merged) <=> i \in Item /\ merged[i] \in Row
    BY <1>9, LiveIs
  <2>2. \A i \in Live : i \in Item
    BY <1>2
  <2> QED
    BY <1>3, <1>5, <1>6, <1>7, <2>1, <2>2, DiscoveryAssumption
<1>11. \A k \in New : ids[k] \notin Live
  BY <1>3
<1> QED
  BY <1>5, <1>6, <1>9, <1>10, <1>11 DEF merged

(* reclassify() of every page found leaves what was told alone, too.       *)
LEMMA StoredIs ==
  ASSUME IInv, job.at = "store", NEW merged \in Rows
  PROVE  LET rows == Stored(merged) IN
         /\ rows \in Rows
         /\ \A i : i \in LiveIn(rows) <=> i \in LiveIn(merged)
         /\ \A i \in LiveIn(merged) :
              /\ Told(rows[i], merged[i])
              /\ rows[i].confidence = merged[i].confidence /\ rows[i].date = merged[i].date
              /\ merged[i].key \notin DOMAIN job.found => rows[i] = merged[i]
              /\ merged[i].key \in DOMAIN job.found =>
                   /\ i \in Touched(rows)
                   /\ rows[i].twin # None => rows[i].twin \in LiveIn(merged) /\ rows[i].twin < i
                   /\ rows[i].state \in Done /\ rows[i].registered # None
                      => /\ rows[i].class = "existing"
                         /\ rows[i].existing = rows[i].registered
<1> DEFINE rows == Stored(merged)
<1>1. rows = [i \in Item |-> rows[i]]
  BY DEF Stored
<1>2. ASSUME NEW i \in LiveIn(merged)
      PROVE  /\ rows[i] \in Row /\ Told(rows[i], merged[i])
             /\ rows[i].confidence = merged[i].confidence /\ rows[i].date = merged[i].date
             /\ merged[i].key \notin DOMAIN job.found => rows[i] = merged[i]
             /\ merged[i].key \in DOMAIN job.found =>
                  /\ rows[i].twin # None => rows[i].twin \in LiveIn(merged) /\ rows[i].twin < i
                  /\ rows[i].state \in Done /\ rows[i].registered # None
                     => rows[i].class = "existing" /\ rows[i].existing = rows[i].registered
  <2>1. i \in Item /\ merged[i] \in Row
    BY LiveRow
  <2>2. CASE merged[i].key \notin DOMAIN job.found
    <3>1. rows[i] = merged[i]
      BY <2>1, <2>2 DEF Stored, Touched
    <3> QED
      BY <2>1, <2>2, <3>1 DEF Told
  <2>3. CASE merged[i].key \in DOMAIN job.found
    <3> DEFINE v == Classified(i, merged, job.known)
    <3>1. rows[i] = Marked(merged[i], v)
      BY <2>1, <2>3 DEF Stored, Touched
    <3>2. /\ v \in Outcome
          /\ v.twin # None => v.twin \in LiveIn(merged) /\ v.twin < i
          /\ merged[i].state \in Done /\ merged[i].registered # None
             => v.class = "existing" /\ v.existing = merged[i].registered
      BY FoundIs, ClassifiedIs
    <3> HIDE DEF rows, v
    <3>3. /\ rows[i] \in Row /\ rows[i].class = v.class /\ rows[i].existing = v.existing
          /\ rows[i].twin = v.twin
          /\ \A f \in {"key", "state", "date", "confidence", "registered", "cleared",
                       "source"} : rows[i][f] = merged[i][f]
      BY <2>1, <3>1, <3>2, MarkedIs
    <3>4. /\ rows[i].key = merged[i].key /\ rows[i].state = merged[i].state
          /\ rows[i].registered = merged[i].registered
          /\ rows[i].cleared = merged[i].cleared /\ rows[i].source = merged[i].source
          /\ rows[i].confidence = merged[i].confidence /\ rows[i].date = merged[i].date
      BY <3>3
    <3> QED
      BY <2>3, <3>2, <3>3, <3>4 DEF Told
  <2> QED
    BY <2>2, <2>3
<1>3. \A i \in Item \ LiveIn(merged) : rows[i] = merged[i] /\ rows[i] \in {None, Gone}
  BY LiveIs DEF Stored, Touched
<1> HIDE DEF rows
<1>4. \A i : i \in LiveIn(merged) <=> i \in Item /\ merged[i] \in Row
  BY LiveIs
<1>5. \A i \in Item : rows[i] \in Row \cup {None, Gone}
  BY <1>2, <1>3
<1>6. rows \in Rows
  BY <1>1, <1>5 DEF Rows
<1>7. \A i : i \in LiveIn(rows) <=> i \in Item /\ rows[i] \in Row
  BY <1>6, LiveIs
<1>8. \A i : i \in LiveIn(rows) <=> i \in LiveIn(merged)
  BY <1>2, <1>3, <1>4, <1>7, DiscoveryAssumption
<1>9. \A i \in LiveIn(merged) : merged[i].key \in DOMAIN job.found => i \in Touched(rows)
  BY <1>2, <1>8 DEF Touched, Told
<1> QED
  BY <1>2, <1>6, <1>8, <1>9 DEF rows

(* prune() deletes rows, and what pointed at them points at nothing.       *)
LEMMA WithoutIs ==
  ASSUME NEW rows \in Rows, NEW out, out \subseteq LiveIn(rows)
  PROVE  LET kept == Without(rows, out) IN
         /\ kept \in Rows
         /\ \A i : i \in LiveIn(kept) <=> i \in LiveIn(rows) \ out
         /\ \A i \in LiveIn(rows) \ out :
              /\ kept[i].twin = IF rows[i].twin \in out THEN None ELSE rows[i].twin
              /\ Told(kept[i], rows[i])
              /\ \A f \in {"class", "existing", "confidence", "date"} : kept[i][f] = rows[i][f]
<1> USE DiscoveryAssumption
<1> DEFINE kept == Without(rows, out)
<1>1. kept = [i \in Item |-> kept[i]]
  BY DEF Without
<1>2. \A i : i \in LiveIn(rows) <=> i \in Item /\ rows[i] \in Row
  BY LiveIs
<1>3. ASSUME NEW i \in LiveIn(rows) \ out
      PROVE  /\ kept[i] \in Row
             /\ kept[i].twin = IF rows[i].twin \in out THEN None ELSE rows[i].twin
             /\ Told(kept[i], rows[i])
             /\ \A f \in {"class", "existing", "confidence", "date"} : kept[i][f] = rows[i][f]
  <2>1. i \in Item /\ rows[i] \in Row /\ rows[i] \notin {None, Gone}
    BY <1>2
  <2>2. CASE rows[i].twin \in out
    <3>1. kept[i] = [rows[i] EXCEPT !.twin = None]
      BY <2>1, <2>2 DEF Without
    <3> QED
      BY <2>1, <2>2, <3>1 DEF Row, Told
  <2>3. CASE rows[i].twin \notin out
    <3>1. kept[i] = rows[i]
      BY <2>1, <2>3 DEF Without
    <3> QED
      BY <2>1, <2>3, <3>1 DEF Told
  <2> QED
    BY <2>2, <2>3
<1>4. \A i \in out : i \in Item /\ kept[i] = Gone
  BY <1>2 DEF Without
<1>5. \A i \in Item \ LiveIn(rows) : kept[i] \in {None, Gone}
  <2> SUFFICES ASSUME NEW i \in Item \ LiveIn(rows) PROVE kept[i] \in {None, Gone}
      OBVIOUS
  <2>1. rows[i] \in {None, Gone} /\ i \notin out
    BY LiveIs
  <2> QED
    BY <2>1 DEF Without
<1> HIDE DEF kept
<1>6. \A i \in Item : kept[i] \in Row \cup {None, Gone}
  BY <1>3, <1>4, <1>5
<1>7. kept \in Rows
  BY <1>1, <1>6 DEF Rows
<1>8. \A i : i \in LiveIn(kept) <=> i \in Item /\ kept[i] \in Row
  BY <1>7, LiveIs
<1>9. \A i : i \in LiveIn(kept) <=> i \in LiveIn(rows) \ out
  BY <1>2, <1>3, <1>4, <1>5, <1>8
<1> QED
  BY <1>3, <1>7, <1>9 DEF kept

(* What the transaction of a search does: rows that were put aside or      *)
(* taken, or are seen, stay, and every row says what was told of it, or is *)
(* new.                                                                    *)
StoreKeeps ==
  /\ \A i \in Live :
       item[i].state # "pending" \/ item[i].key \in DOMAIN job.found => i \in Live'
  /\ \A i \in Live' :
       \/ /\ i \in Live /\ Told(item'[i], item[i])
          /\ item[i].confidence = "confirmed" /\ ~ToldOfTheEnd(item[i].key)
             => item'[i].confidence = "confirmed" /\ item'[i].date = item[i].date
       \/ /\ i \notin Live /\ item'[i].state = "pending" /\ item'[i].registered = None
          /\ item'[i].source = None

LEMMA StoreIs ==
  ASSUME IInv, Store
  PROVE  /\ \E status \in {"done", "failed"} : Finish(status)
         /\ item' \in Rows /\ StoreKeeps /\ KeysDiffer'
         /\ \A i \in Live' :
              /\ item'[i].twin # None => item'[i].twin < i /\ item'[i].twin \in Live'
              /\ item'[i].existing # None => item'[i].existing \in LiveIn(community)
              /\ item'[i].state \in Done /\ item'[i].registered # None
                 => item'[i].class = "existing" /\ item'[i].existing = item'[i].registered
<1> USE DiscoveryAssumption
<1>1. PICK ids \in [New -> Fresh(item)] :
        /\ \A k, l \in New : k # l => ids[k] # ids[l]
        /\ \E merged \in {Upserted(ids)} : \E rows \in {Stored(merged)} :
             LET met == {rows[i].existing : i \in Touched(rows)} \ {None} IN
             IF met \subseteq LiveIn(community)
               THEN /\ \E out \in SUBSET Prunable(rows) : item' = Without(rows, out)
                    /\ \E status \in {"done", "failed"} :
                         /\ status = "failed" => job.found = Nothing
                         /\ Finish(status)
               ELSE item' = item /\ Finish("failed")
  BY DEF Store, New
<1>2. job.at = "store"
  BY DEF Store
<1> DEFINE merged == Upserted(ids)
           rows == Stored(merged)
           met == {rows[i].existing : i \in Touched(rows)} \ {None}
<1>3. \/ /\ met \subseteq LiveIn(community)
         /\ \E out \in SUBSET Prunable(rows) : item' = Without(rows, out)
         /\ \E status \in {"done", "failed"} : Finish(status)
      \/ item' = item /\ Finish("failed")
  BY <1>1
<1>4. /\ merged \in Rows
      /\ \A i : i \in LiveIn(merged) <=> i \in Live \/ \E k \in New : ids[k] = i
      /\ \A i \in Live :
           /\ Told(merged[i], item[i]) /\ Fixed(merged[i], item[i])
           /\ item[i].key \notin DOMAIN job.found => merged[i] = item[i]
           /\ item[i].confidence = "confirmed" /\ ~ToldOfTheEnd(item[i].key)
              => merged[i].confidence = "confirmed" /\ merged[i].date = item[i].date
      /\ \A k \in New :
           /\ ids[k] \notin Live /\ merged[ids[k]].key = k
           /\ merged[ids[k]].state = "pending" /\ merged[ids[k]].registered = None
           /\ merged[ids[k]].source = None
  BY <1>1, <1>2, UpsertedIs
<1> HIDE DEF merged
<1>5. /\ rows \in Rows
      /\ \A i : i \in LiveIn(rows) <=> i \in LiveIn(merged)
      /\ \A i \in LiveIn(merged) :
           /\ Told(rows[i], merged[i])
           /\ rows[i].confidence = merged[i].confidence /\ rows[i].date = merged[i].date
           /\ merged[i].key \notin DOMAIN job.found => rows[i] = merged[i]
           /\ merged[i].key \in DOMAIN job.found =>
                /\ i \in Touched(rows)
                /\ rows[i].twin # None => rows[i].twin \in LiveIn(merged) /\ rows[i].twin < i
                /\ rows[i].state \in Done /\ rows[i].registered # None
                   => rows[i].class = "existing" /\ rows[i].existing = rows[i].registered
  BY <1>2, <1>4, StoredIs
<1> HIDE DEF rows
<1>6. Live = LiveIn(item) /\ Live' = LiveIn(item')
  BY DEF Live
<1>7. CASE item' = item /\ Finish("failed")
  <2>1. Live' = Live /\ item' \in Rows /\ KeysDiffer'
    BY <1>6, <1>7 DEF IInv, Types, KeysDiffer
  <2>2. StoreKeeps
    BY <1>7, <2>1 DEF StoreKeeps, Told
  <2>3. \A i \in Live : RowIsFine(i)
    BY DEF IInv, RowInv
  <2> QED
    BY <1>7, <2>1, <2>2, <2>3 DEF RowIsFine
<1>8. ASSUME met \subseteq LiveIn(community), \E status \in {"done", "failed"} : Finish(status),
             NEW out \in SUBSET Prunable(rows), item' = Without(rows, out)
      PROVE  /\ item' \in Rows /\ StoreKeeps /\ KeysDiffer'
             /\ \A i \in Live' :
                  /\ item'[i].twin # None => item'[i].twin < i /\ item'[i].twin \in Live'
                  /\ item'[i].existing # None => item'[i].existing \in LiveIn(community)
                  /\ item'[i].state \in Done /\ item'[i].registered # None
                     => item'[i].class = "existing" /\ item'[i].existing = item'[i].registered
  <2>1. /\ out \subseteq LiveIn(rows)
        /\ \A i \in out : rows[i].state = "pending" /\ i \notin Touched(rows)
    BY DEF Prunable
  <2>2. /\ item' \in Rows
        /\ \A i : i \in Live' <=> i \in LiveIn(rows) \ out
        /\ \A i \in LiveIn(rows) \ out :
             /\ item'[i].twin = IF rows[i].twin \in out THEN None ELSE rows[i].twin
             /\ Told(item'[i], rows[i])
             /\ item'[i].class = rows[i].class /\ item'[i].existing = rows[i].existing
             /\ item'[i].confidence = rows[i].confidence /\ item'[i].date = rows[i].date
    BY <1>5, <1>6, <1>8, <2>1, WithoutIs
  <2>3. \A i : i \in Live' => i \in LiveIn(rows) /\ i \in LiveIn(merged) /\ i \notin out
    BY <1>5, <2>2
  <2>4. StoreKeeps
    <3>1. ASSUME NEW i \in Live,
                 item[i].state # "pending" \/ item[i].key \in DOMAIN job.found
          PROVE  i \in Live'
      <4>1. i \in LiveIn(merged) /\ i \in LiveIn(rows) /\ Told(merged[i], item[i])
        BY <1>4, <1>5
      <4>2. /\ rows[i].state = item[i].state
            /\ item[i].key \in DOMAIN job.found => i \in Touched(rows)
        BY <1>5, <4>1 DEF Told
      <4> QED
        BY <2>1, <2>2, <3>1, <4>1, <4>2
    <3>2. ASSUME NEW i \in Live'
          PROVE  \/ /\ i \in Live /\ Told(item'[i], item[i])
                    /\ item[i].confidence = "confirmed" /\ ~ToldOfTheEnd(item[i].key)
                       => item'[i].confidence = "confirmed" /\ item'[i].date = item[i].date
                 \/ /\ i \notin Live /\ item'[i].state = "pending"
                    /\ item'[i].registered = None /\ item'[i].source = None
      BY <1>4, <1>5, <2>2, <2>3 DEF Told
    <3> QED
      BY <3>1, <3>2 DEF StoreKeeps
  <2>5. KeysDiffer'
    <3>1. ASSUME NEW i \in Live'
          PROVE  \/ i \in Live /\ item'[i].key = item[i].key
                 \/ \E k \in New : i = ids[k] /\ item'[i].key = k
      BY <1>4, <1>5, <2>2, <2>3 DEF Told
    <3>2. \A k \in New, j \in Live : item[j].key # k
      BY DEF New
    <3>3. \A i, j \in Live : item[i].key = item[j].key => i = j
      BY DEF IInv, KeysDiffer
    <3>4. ASSUME NEW i \in Live', NEW j \in Live', item'[i].key = item'[j].key PROVE i = j
      BY <1>1, <3>1, <3>2, <3>3, <3>4
    <3> QED
      BY <3>4 DEF KeysDiffer
  <2>6. ASSUME NEW i \in Live'
        PROVE  /\ rows[i].twin # None => rows[i].twin < i /\ rows[i].twin \in LiveIn(merged)
               /\ rows[i].existing # None => rows[i].existing \in LiveIn(community)
               /\ rows[i].state \in Done /\ rows[i].registered # None
                  => rows[i].class = "existing" /\ rows[i].existing = rows[i].registered
    <3>1. i \in LiveIn(merged)
      BY <2>3
    <3>2. CASE merged[i].key \in DOMAIN job.found
      <4>1. rows[i].existing # None => rows[i].existing \in met
        BY <1>5, <3>1, <3>2
      <4> QED
        BY <1>5, <1>8, <3>1, <3>2, <4>1
    <3>3. CASE merged[i].key \notin DOMAIN job.found
      <4>1. i \in Live
        <5>1. \A k \in New : k \in DOMAIN job.found
          BY DEF New
        <5> QED
          BY <1>4, <3>1, <3>3, <5>1
      <4>2. item[i].key \notin DOMAIN job.found
        BY <1>4, <3>3, <4>1 DEF Told
      <4>3. rows[i] = item[i]
        BY <1>4, <1>5, <3>1, <3>3, <4>1, <4>2
      <4>4. RowIsFine(i)
        BY <4>1 DEF IInv, RowInv
      <4> QED
        BY <1>4, <4>3, <4>4 DEF RowIsFine
    <3> QED
      BY <3>2, <3>3
  <2>7. ASSUME NEW i \in Live'
        PROVE  /\ item'[i].twin # None => item'[i].twin < i /\ item'[i].twin \in Live'
               /\ item'[i].existing # None => item'[i].existing \in LiveIn(community)
               /\ item'[i].state \in Done /\ item'[i].registered # None
                  => item'[i].class = "existing" /\ item'[i].existing = item'[i].registered
    <3>1. item'[i].twin # None => item'[i].twin = rows[i].twin /\ rows[i].twin \notin out
      BY <2>2, <2>3
    <3>2. /\ item'[i].class = rows[i].class /\ item'[i].existing = rows[i].existing
          /\ item'[i].state = rows[i].state /\ item'[i].registered = rows[i].registered
      BY <2>2, <2>3 DEF Told
    <3> QED
      BY <1>5, <2>2, <2>6, <3>1, <3>2
  <2> QED
    BY <2>2, <2>4, <2>5, <2>7
<1> HIDE DEF met
<1> QED
  BY <1>3, <1>7, <1>8

LEMMA StoreStep == ASSUME IInv, Store PROVE IInv'
<1>1. PICK status \in {"done", "failed"} : Finish(status)
  BY StoreIs
<1>2. /\ run' \in [Run -> {"none", "queued", "running", "done", "failed"}]
      /\ overdue' \in BOOLEAN /\ job' \in Job /\ OneOpen' /\ JobInv'
      /\ UNCHANGED <<community, source, console, answers, moved>>
  BY <1>1, FinishIs
<1>3. item' \in Rows /\ KeysDiffer' /\ StoreKeeps
  BY StoreIs
<1>4. ASSUME NEW i \in Live' PROVE RowIsFine(i)'
  <2>1. /\ item'[i].twin # None => item'[i].twin < i /\ item'[i].twin \in Live'
        /\ item'[i].existing # None => item'[i].existing \in LiveIn(community)
        /\ item'[i].state \in Done /\ item'[i].registered # None
           => item'[i].class = "existing" /\ item'[i].existing = item'[i].registered
    BY StoreIs
  <2>2. CASE i \in Live /\ Told(item'[i], item[i])
    <3>1. RowIsFine(i)
      BY <2>2 DEF IInv, RowInv
    <3> QED
      BY <1>2, <2>1, <2>2, <3>1 DEF RowIsFine, Told
  <2>3. CASE item'[i].registered = None /\ item'[i].source = None
    BY <1>2, <2>1, <2>3 DEF RowIsFine
  <2> QED
    BY <1>3, <2>2, <2>3 DEF StoreKeeps
<1>5. RowInv'
  BY <1>4 DEF RowInv
<1>6. ConsoleInv'
  <2>1. \A i \in Live' : item'[i].state \in Done =>
          /\ i \in Live /\ item'[i].state = item[i].state
          /\ item'[i].registered = item[i].registered
    BY <1>3 DEF StoreKeeps, Told, Done
  <2> QED
    BY <1>2, <2>1 DEF IInv, ConsoleInv
<1> QED
  BY <1>2, <1>3, <1>5, <1>6 DEF IInv, Types

-----------------------------------------------------------------------------
LEMMA NextIInv == IInv /\ [Next]_vars => IInv'
<1> SUFFICES ASSUME IInv, [Next]_vars PROVE IInv'
    OBVIOUS
<1>1. CASE QueueRun \/ HourPasses \/ Fail \/ Die
  BY <1>1, QueueRunStep, HourPassesStep, FailStep, DieStep
<1>2. CASE JobStep
  BY <1>2, ClaimStep, SearchStep, StoreStep DEF JobStep
<1>3. CASE CreateCommunity \/ Register \/ LinkSibling \/ Link \/ SetReviewState
  BY <1>3, CreateCommunityStep, RegisterStep, LinkSiblingStep, LinkStep, SetReviewStateStep
<1>4. ASSUME NEW j \in Item, LookAtSibling(j) PROVE IInv'
  BY <1>4, LookAtSiblingStep
<1>5. CASE ConfirmEvidence \/ MarkIndependent \/ ReadAgain \/ WriteClass
  BY <1>5, ConfirmEvidenceStep, MarkIndependentStep, ReadAgainStep, WriteClassStep
<1>6. CASE ProposeSource \/ ProposeForCommunity \/ DeleteCommunity \/ ConsoleDies
  BY <1>6, ProposeSourceStep, ProposeForCommunityStep, DeleteCommunityStep, ConsoleDiesStep
<1>7. CASE UNCHANGED vars
  <2>1. UNCHANGED <<run, overdue, item, community, source, job, console, answers, moved>>
    BY <1>7 DEF vars
  <2> QED
    BY <2>1, RowsUntouched, JobUntouched, ConsoleUntouched DEF IInv, Types
<1> QED
  BY <1>1, <1>2, <1>3, <1>4, <1>5, <1>6, <1>7 DEF Next

(* The tables hold what their columns allow: one open search, one row a    *)
(* page, and no row that names a community or a candidate that is gone.    *)
THEOREM TypeCorrect == Spec => []TypeOK
<1>1. ASSUME IInv PROVE TypeOK
  <2>1. Types /\ OneOpen /\ RowInv /\ KeysDiffer
    BY <1>1 DEF IInv
  <2>2. ASSUME NEW i \in Live
        PROVE  /\ item[i].twin # None => item[i].twin < i /\ item[i].twin \in Live
               /\ item[i].existing # None => item[i].existing \in LiveIn(community)
               /\ \A j \in Live : item[i].key = item[j].key => i = j
    <3>1. RowIsFine(i)
      BY <2>1 DEF RowInv
    <3> QED
      BY <2>1, <3>1 DEF RowIsFine, KeysDiffer
  <2>3. item \in [Item -> Row \cup {None, Gone}] /\ community \in [Community -> Typed \cup {None, Gone}]
    BY <2>1 DEF Types, Rows, Communities
  <2> QED
    BY <2>1, <2>2, <2>3 DEF TypeOK, Types, OneOpen
<1> QED
  BY InitIInv, NextIInv, <1>1, PTL DEF Spec

(* reclassify(): a candidate that was registered or linked shows as its    *)
(* community, whatever pages searches find, whatever names and pages       *)
(* communities get and lose, and whenever the job runs beside an answer.   *)
THEOREM RegisteredShows == Spec => []RegisteredIsExisting
<1>1. ASSUME IInv PROVE RegisteredIsExisting
  <2>1. \A i \in Live : RowIsFine(i)
    BY <1>1 DEF IInv, RowInv
  <2> QED
    BY <2>1 DEF RowIsFine, RegisteredIsExisting
<1> QED
  BY InitIInv, NextIInv, <1>1, PTL DEF Spec

(* propose_source(): the board that a candidate has is its community's or  *)
(* was set up by hand, whoever proposed it and however often.              *)
THEOREM BoardsHaveOneCommunity == Spec => []SourceIsOfItsCommunity
<1>1. ASSUME IInv PROVE SourceIsOfItsCommunity
  <2>1. \A i \in Live : RowIsFine(i)
    BY <1>1 DEF IInv, RowInv
  <2> QED
    BY <2>1 DEF RowIsFine, SourceIsOfItsCommunity
<1> QED
  BY InitIInv, NextIInv, <1>1, PTL DEF Spec

(* store_hits() and prune(): a search deletes only what was neither put    *)
(* aside nor taken and is not seen; of what stays it takes back no answer, *)
(* community, source or independence, and a confirmed date only by a word  *)
(* of the end.                                                             *)
THEOREM NoSearchTakesBack == Spec => AnswersOutlive
<1> DEFINE Outlives ==
      job' # job => \A i \in Live :
        LET stays == item'[i] \notin {None, Gone} IN
        /\ item[i].state # "pending" \/ item[i].key \in DOMAIN job.found => stays
        /\ stays =>
             /\ item'[i].state = item[i].state /\ item'[i].registered = item[i].registered
             /\ item'[i].source = item[i].source /\ item'[i].cleared = item[i].cleared
             /\ item[i].confidence = "confirmed" /\ ~ToldOfTheEnd(item[i].key)
                => item'[i].confidence = "confirmed" /\ item'[i].date = item[i].date
<1>1. ASSUME IInv, [Next]_vars PROVE Outlives
  <2>1. CASE Store
    <3>1. StoreKeeps /\ item' \in Rows
      BY <1>1, <2>1, StoreIs
    <3>2. /\ \A i \in Live : i \in Item
          /\ \A i \in Item : i \in Live' <=> item'[i] \notin {None, Gone}
      BY <1>1, <3>1 DEF IInv, Types, Rows, Live, LiveIn
    <3> QED
      BY <3>1, <3>2 DEF StoreKeeps, Told
  <2>2. CASE UNCHANGED item
    <3>1. \A i \in Live : item[i] \notin {None, Gone}
      BY DEF Live, LiveIn
    <3> QED
      BY <2>2, <3>1
  <2>3. CASE UNCHANGED job
    BY <2>3
  <2>4. Store \/ UNCHANGED item \/ UNCHANGED job
    BY <1>1 DEF Next, vars, QueueRun, JobStep, Claim, Search, Fail, Die, HourPasses,
       CreateCommunity, Register, LinkSibling, Link, SetReviewState, LookAtSibling,
       ConfirmEvidence, MarkIndependent, ReadAgain, WriteClass, ProposeSource,
       ProposeForCommunity, DeleteCommunity, ConsoleDies
  <2> QED
    BY <2>1, <2>2, <2>3, <2>4
<1>2. ASSUME IInv, [Next]_vars PROVE [Outlives]_vars
  BY <1>1, <1>2
<1> QED
  BY InitIInv, NextIInv, <1>2, PTL DEF Spec, AnswersOutlive

=============================================================================
