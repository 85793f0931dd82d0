-------------------------- MODULE ExtractionProofs --------------------------
(***************************************************************************)
(* Proofs about Extraction, for any items, records, bodies, engine         *)
(* releases and batch size.                                                *)
(*  - Its type invariant, and what a pass needs for its steps to be        *)
(*    defined, for any number of processes.                                *)
(*  - No revision is lost: with no collection beside the passes of one     *)
(*    process IInv is inductive and implies ReadingIsCurrent, whatever is  *)
(*    acquired, reviewed, refetched or forced while a pass runs.           *)
(*  - A re-reading keeps what it must and misses nothing: for one process  *)
(*    KeptInv is inductive whatever runs beside the passes, and each of    *)
(*    its parts implies one property when what would take its subject away *)
(*    does not.                                                            *)
(***************************************************************************)
EXTENDS ExtractionInv, TLAPS

-----------------------------------------------------------------------------
(* Types.                                                                  *)

(* The values the definitions build have the types the model gives them.   *)
LEMMA NewRowType == NewRow \in Row
BY DomainAssumption DEF NewRow, Row, Status, Body, Version

LEMMA IdleType == Idle \in Pass
BY DEF Idle, Pass, Step

(* settle_full_body() writes a row, whatever was there.                    *)
LEMMA SettledType ==
  ASSUME NEW i \in Item, NEW h \in Hash, NEW r \in Row \cup {None}
  PROVE  Settled(i, h, r) \in Row \cup {None}
<1> DEFINE old == IF r = None THEN NewRow ELSE r
<1>1. old \in Row
  BY NewRowType
<1> HIDE DEF old
<1>2. [old EXCEPT !.status = "FETCHED", !.text = h, !.unread = FALSE, !.touched = TRUE] \in Row
  BY <1>1 DEF Row, Status, Body
<1>3. Settled(i, h, r) =
        IF i \notin Synth \/ h \in Short THEN r
        ELSE IF old.text = h THEN old
             ELSE [old EXCEPT !.status = "FETCHED", !.text = h, !.unread = FALSE, !.touched = TRUE]
  BY DEF Settled, old
<1> QED
  BY <1>1, <1>2, <1>3

LEMMA WithdrawnType ==
  ASSUME NEW r \in Row \cup {None}
  PROVE  Withdrawn(r) \in Row \cup {None}
<1>1. 0 \in Version
  BY DomainAssumption DEF Version
<1> QED
  BY <1>1 DEF Withdrawn, Row

(* The two writes of store_item() to a row that exists leave a row.        *)
LEMMA RowKept ==
  ASSUME NEW i \in Item, NEW h \in Hash, NEW r \in Row
  PROVE  Settled(i, h, r) \in Row /\ Withdrawn(Settled(i, h, r)) \in Row
<1>1. Settled(i, h, r) \in Row
  <2>1. r # None
    BY DomainAssumption
  <2>2. [r EXCEPT !.status = "FETCHED", !.text = h, !.unread = FALSE, !.touched = TRUE] \in Row
    BY DEF Row, Status, Body
  <2> QED
    BY <2>1, <2>2 DEF Settled
<1>2. 0 \in Version
  BY DomainAssumption DEF Version
<1> QED
  BY <1>1, <1>2, DomainAssumption DEF Withdrawn, Row

LEMMA SignatureOfType ==
  ASSUME NEW s \in Record, NEW r \in Row
  PROVE  SignatureOf(s, r) \in Signature
BY DEF SignatureOf, Signature, Row

LEMMA ReadingOfType ==
  ASSUME NEW c \in Copy, NEW found \in Found, engine \in 1 .. MaxEngine
  PROVE  ReadingOf(c, found) \in Reading
<1>1. BodyOf(c.item, c.src, c.row) \in Body
  BY DEF BodyOf, Copy, Row, Body, Record
<1>2. engine \in Version
  BY DomainAssumption DEF Version
<1>3. (c.row # None /\ c.row.poster) \in BOOLEAN
  BY DEF Copy, Row
<1> QED
  BY <1>1, <1>2, <1>3 DEF ReadingOf, Reading, Copy

(* So do the two stamps.                                                   *)
LEMMA StampedTypes ==
  ASSUME NEW r \in Row, NEW sig \in Signature \cup {None}, NEW e \in 1 .. MaxEngine,
         NEW out \in Outcome \cup {None}
  PROVE  /\ StampedByIngest(r, sig, e) \in Row
         /\ StampedByReprocess(r, sig, e, out) \in Row
<1>1. e \in Version
  BY DomainAssumption DEF Version
<1>2. 0 \in 0 .. MaxAttempts
  BY DomainAssumption
<1> QED
  BY ZenonT(60), <1>1, <1>2 DEF StampedByIngest, StampedByReprocess, Row, Outcome

LEMMA ReleasedType ==
  ASSUME NEW w \in Pass PROVE Released(w) \in Pass
BY DEF Released, Pass, Step

LEMMA InitType == Init => TypeOK
<1> SUFFICES ASSUME Init PROVE TypeOK
  OBVIOUS
<1>1. 1 \in 1 .. MaxEngine
  BY DomainAssumption
<1> QED
  BY <1>1, IdleType DEF Init, TypeOK

LEMMA CollectorType ==
  ASSUME TypeOK, NEW i \in Item, NEW s \in Record,
         Collect(i, s) \/ Revise(i, s) \/ Rejudge(i, s) \/ Recollect(i)
  PROVE  TypeOK'
<1> USE DEF TypeOK, collector, store
<1>1. s.hash \in Hash /\ "PENDING" \in IngestState
  BY DEF Record, IngestState
<1>2. Settled(i, s.hash, row[i]) \in Row \cup {None}
  BY <1>1, SettledType
<1>3. Withdrawn(Settled(i, s.hash, row[i])) \in Row \cup {None}
  BY <1>2, WithdrawnType
<1>4. CASE Collect(i, s)
  BY <1>1, <1>2, <1>4 DEF Collect
<1>5. CASE Revise(i, s)
  BY <1>1, <1>3, <1>5 DEF Revise
<1>6. CASE Rejudge(i, s)
  BY <1>3, <1>6 DEF Rejudge
<1>7. CASE Recollect(i)
  <2>1. src[i].hash \in Hash
    BY <1>7 DEF Recollect, Collected, Record
  <2>2. Settled(i, src[i].hash, row[i]) \in Row \cup {None}
    BY <2>1, SettledType
  <2> QED
    BY <1>7, <2>2 DEF Recollect
<1> QED
  BY <1>4, <1>5, <1>6, <1>7

LEMMA AcquireType ==
  ASSUME TypeOK, NEW i \in Item, NEW status \in Status, NEW text \in Text \cup {None},
         NEW poster \in BOOLEAN, Acquire(i, status, text, poster)
  PROVE  TypeOK' /\ row'[i] \in Row
<1> DEFINE old == IF row[i] = None THEN NewRow ELSE row[i]
           fetched == [old EXCEPT !.status = status, !.text = text, !.poster = poster,
                                  !.unread = TRUE, !.touched = TRUE]
<1>1. old \in Row
  BY NewRowType DEF TypeOK
<1>2. fetched \in Row
  <2> HIDE DEF old
  <2> QED
    BY <1>1 DEF Row, Body
<1>3. row' = [row EXCEPT ![i] = fetched]
  BY DEF Acquire
<1> HIDE DEF fetched
<1> QED
  BY <1>2, <1>3 DEF Acquire, TypeOK, collector, store

LEMMA RefreshType ==
  ASSUME TypeOK, NEW i \in Item, NEW text \in Text, NEW poster \in BOOLEAN,
         Refresh(i, text, poster)
  PROVE  TypeOK' /\ row'[i] \in Row
<1> DEFINE fetched == [row[i] EXCEPT !.text = text, !.poster = poster,
                                     !.unread = TRUE, !.touched = TRUE]
<1>1. row[i] \in Row
  BY DEF Refresh, TypeOK
<1>2. fetched \in Row
  BY <1>1 DEF Row, Body
<1>3. row' = [row EXCEPT ![i] = Withdrawn(fetched)]
  BY DEF Refresh
<1> HIDE DEF fetched
<1>4. Withdrawn(fetched) \in Row
  <2>1. fetched # None
    BY <1>2, DomainAssumption
  <2>2. Withdrawn(fetched) = [fetched EXCEPT !.version = 0, !.touched = TRUE]
    BY <2>1 DEF Withdrawn
  <2>3. 0 \in Version
    BY DomainAssumption DEF Version
  <2> QED
    BY <1>2, <2>2, <2>3 DEF Row
<1> QED
  BY <1>3, <1>4 DEF Refresh, TypeOK, collector, store

LEMMA OutsideType ==
  ASSUME TypeOK, Outside
  PROVE  TypeOK'
<1>1. ASSUME NEW i \in Item, NEW s \in Record,
             Collect(i, s) \/ Revise(i, s) \/ Rejudge(i, s)
      PROVE  TypeOK'
  BY <1>1, CollectorType
<1>2. ASSUME NEW i \in Item, Recollect(i)
      PROVE  TypeOK'
  <2>1. src[i] \in Record
    BY <1>2 DEF Recollect, Collected, TypeOK
  <2> QED
    BY <1>2, <2>1, CollectorType
<1>3. ASSUME NEW i \in Item, Enqueue(i)
      PROVE  TypeOK'
  BY <1>3, NewRowType DEF Enqueue, TypeOK, collector, store
<1>4. ASSUME NEW i \in Item, Review(i)
      PROVE  TypeOK'
  BY <1>4 DEF Review, TypeOK, collector, store
<1>5. ASSUME NEW i \in Item, NEW status \in Status \ {"FETCH_PENDING"},
             NEW text \in Text \cup {None}, NEW poster \in BOOLEAN,
             Acquire(i, status, text, poster)
      PROVE  TypeOK'
  BY <1>5, AcquireType
<1>8. ASSUME NEW i \in Item, NEW text \in Text, NEW poster \in BOOLEAN,
             Refresh(i, text, poster)
      PROVE  TypeOK'
  BY <1>8, RefreshType
<1>6. CASE Deploy
  <2>1. engine + 1 \in 1 .. MaxEngine
    BY <1>6, DomainAssumption DEF Deploy, TypeOK
  <2> QED
    BY <1>6, <2>1, IdleType DEF Deploy, TypeOK, collector, store
<1>7. ASSUME NEW p \in Process, Crash(p)
      PROVE  TypeOK'
  BY <1>7, IdleType DEF Crash, TypeOK, collector, store
<1> QED
  BY <1>1, <1>2, <1>3, <1>4, <1>5, <1>6, <1>7, <1>8 DEF Outside

(* What a pass step writes to the pass is a pass again.                    *)
LEMMA PassFields ==
  ASSUME NEW w \in Pass
  PROVE  /\ w.cur \in Copy \cup {None} /\ w.todo \subseteq Copy
         /\ w.new \in BOOLEAN /\ w.out \in Outcome \cup {None}
         /\ \A c \in Copy \cup {None}, t \in SUBSET Copy, step \in Step,
               out \in Outcome \cup {None}, new \in BOOLEAN :
               /\ [w EXCEPT !.step = step] \in Pass
               /\ [w EXCEPT !.step = step, !.out = out] \in Pass
               /\ [w EXCEPT !.todo = t, !.step = step, !.cur = c] \in Pass
               /\ [w EXCEPT !.todo = t, !.cur = c, !.step = step, !.out = out] \in Pass
               /\ [w EXCEPT !.step = step, !.new = new, !.cur = c] \in Pass
<1> USE DEF Pass
<1>1. /\ w.cur \in Copy \cup {None} /\ w.todo \subseteq Copy
      /\ w.new \in BOOLEAN /\ w.out \in Outcome \cup {None}
  OBVIOUS
<1>2. ASSUME NEW c \in Copy \cup {None}, NEW t \in SUBSET Copy, NEW step \in Step,
             NEW out \in Outcome \cup {None}, NEW new \in BOOLEAN
      PROVE  /\ [w EXCEPT !.step = step] \in Pass
             /\ [w EXCEPT !.step = step, !.out = out] \in Pass
             /\ [w EXCEPT !.todo = t, !.step = step, !.cur = c] \in Pass
             /\ [w EXCEPT !.todo = t, !.cur = c, !.step = step, !.out = out] \in Pass
             /\ [w EXCEPT !.step = step, !.new = new, !.cur = c] \in Pass
  <2>1. [w EXCEPT !.step = step] \in Pass
    OBVIOUS
  <2>2. [w EXCEPT !.step = step, !.out = out] \in Pass
    OBVIOUS
  <2>3. [w EXCEPT !.todo = t, !.step = step, !.cur = c] \in Pass
    OBVIOUS
  <2>4. [w EXCEPT !.todo = t, !.cur = c, !.step = step, !.out = out] \in Pass
    OBVIOUS
  <2>5. [w EXCEPT !.step = step, !.new = new, !.cur = c] \in Pass
    OBVIOUS
  <2> HIDE DEF Pass
  <2> QED
    BY <2>1, <2>2, <2>3, <2>4, <2>5
<1> HIDE DEF Pass
<1> QED
  BY <1>1, <1>2


LEMMA CopiesType ==
  ASSUME NEW w \in Pass
  PROVE  Copies(w) \subseteq Copy
BY PassFields DEF Copies

(* A step that only changes one pass and loses no record and no row keeps  *)
(* every other pass sound.                                                 *)
LEMMA PassWrite ==
  ASSUME TypeInv, NEW p \in Process, NEW w \in Pass,
         pass' = [pass EXCEPT ![p] = w], PassHolds(w)',
         \A i \in Item : /\ row[i] # None => row'[i] # None
                         /\ src[i] # None => src'[i] # None
  PROVE  /\ pass' \in [Process -> Pass]
         /\ \A q \in Process : PassHolds(pass[q])'
<1>1. pass \in [Process -> Pass]
  BY DEF TypeInv, TypeOK
<1>2. ASSUME NEW q \in Process, q # p
      PROVE  PassHolds(pass[q])'
  <2>1. pass'[q] = pass[q] /\ pass[q] \in Pass /\ PassHolds(pass[q])
    BY <1>1, <1>2 DEF TypeInv
  <2>2. \A c \in Copies(pass[q]) : c.item \in Item
    BY <2>1, CopiesType DEF Copy
  <2> QED
    BY <2>1, <2>2 DEF PassHolds, Copies
<1> QED
  BY <1>1, <1>2

LEMMA OutsideTypeInv ==
  ASSUME TypeInv, Outside
  PROVE  TypeInv'
<1> DEFINE Kept(i) == /\ RecordComesFirst(i)'
                      /\ row[i] # None => row'[i] # None
                      /\ src[i] # None => src'[i] # None
<1>1. TypeOK /\ TypeOK'
  BY OutsideType DEF TypeInv
<1>2. ASSUME NEW i \in Item
      PROVE  Kept(i)
  <2>1. RecordComesFirst(i)
    BY DEF TypeInv
  <2>2. /\ src \in [Item -> Record \cup {None}] /\ ingest \in [Item -> IngestState \cup {None}]
        /\ row \in [Item -> Row \cup {None}]
    BY <1>1 DEF TypeOK
  <2> USE <2>1, <2>2, DomainAssumption DEF RecordComesFirst, collector, store
  <2>3. ASSUME NEW j \in Item, NEW s \in Record,
               Collect(j, s) \/ Revise(j, s) \/ Rejudge(j, s) \/ Recollect(j)
        PROVE  Kept(i)
    <3>1. ASSUME NEW h \in Hash, row[i] # None
          PROVE  Settled(i, h, row[i]) \in Row /\ Withdrawn(Settled(i, h, row[i])) \in Row
      BY <3>1, RowKept
    <3>2. src[j] # None => src[j].hash \in Hash
      BY DEF Record
    <3>3. s.hash \in Hash
      BY DEF Record
    <3>5. CASE Collect(j, s)
      BY <3>1, <3>3, <3>5 DEF Collect, Collected
    <3>6. CASE Revise(j, s)
      BY <3>1, <3>3, <3>6 DEF Revise, Collected
    <3>7. CASE Rejudge(j, s)
      BY <3>1, <3>3, <3>7 DEF Rejudge, Collected
    <3>8. CASE Recollect(j)
      BY <3>1, <3>2, <3>8 DEF Recollect, Collected
    <3> QED
      BY <2>3, <3>5, <3>6, <3>7, <3>8
  <2>4. ASSUME NEW j \in Item, Recollect(j)
        PROVE  Kept(i)
    <3>1. src[j] \in Record
      BY <2>4 DEF Recollect, Collected
    <3> QED
      BY <2>3, <2>4, <3>1
  <2>5. ASSUME NEW j \in Item, Enqueue(j)
        PROVE  Kept(i)
    BY <2>5, NewRowType DEF Enqueue, Collected
  <2>6. ASSUME NEW j \in Item, NEW status \in Status \ {"FETCH_PENDING"},
               NEW text \in Text \cup {None}, NEW poster \in BOOLEAN,
               Acquire(j, status, text, poster)
        PROVE  Kept(i)
    <3>1. row'[j] \in Row
      BY <1>1, <2>6, AcquireType
    <3>2. i # j => row'[i] = row[i]
      BY <2>6 DEF Acquire
    <3> QED
      BY <2>6, <3>1, <3>2 DEF Acquire, Collected
  <2>8. ASSUME NEW j \in Item, NEW text \in Text, NEW poster \in BOOLEAN,
               Refresh(j, text, poster)
        PROVE  Kept(i)
    <3>1. row'[j] \in Row
      BY <1>1, <2>8, RefreshType
    <3>2. i # j => row'[i] = row[i]
      BY <2>8 DEF Refresh
    <3> QED
      BY <2>8, <3>1, <3>2 DEF Refresh
  <2>7. CASE UNCHANGED <<src, ingest, row>>
    BY <2>7
  <2> QED
    BY <2>3, <2>4, <2>5, <2>6, <2>7, <2>8 DEF Outside, Review, Deploy, Crash
<1>3. PassHolds(Idle)'
  BY DomainAssumption DEF PassHolds, Idle, Copies
<1>4. ASSUME NEW p \in Process, Crash(p)
      PROVE  \A q \in Process : PassHolds(pass[q])'
  BY <1>2, <1>3, <1>4, PassWrite, IdleType DEF Crash
<1>5. ASSUME Deploy
      PROVE  \A q \in Process : PassHolds(pass[q])'
  BY <1>3, <1>5 DEF Deploy
<1>6. ASSUME pass' = pass
      PROVE  \A q \in Process : PassHolds(pass[q])'
  <2>1. ASSUME NEW q \in Process
        PROVE  PassHolds(pass[q])'
    <3>1. PassHolds(pass[q]) /\ pass[q] \in Pass
      BY <1>1 DEF TypeInv, TypeOK
    <3>2. \A c \in Copies(pass[q]) : c.item \in Item
      BY <3>1, CopiesType DEF Copy
    <3> QED
      BY <1>2, <1>6, <3>1, <3>2 DEF PassHolds, Copies
  <2> QED
    BY <2>1
<1>7. \A p \in Process : PassHolds(pass[p])'
  BY <1>4, <1>5, <1>6 DEF Outside, Collect, Revise, Rejudge, Recollect, Enqueue, Acquire,
     Refresh, Review
<1> QED
  BY <1>1, <1>2, <1>7 DEF TypeInv

(* The copies a starting pass takes.                                       *)
LEMMA StartTypeInv ==
  ASSUME TypeInv, NEW p \in Process, StartIngest(p) \/ StartReprocess(p)
  PROVE  TypeInv'
<1> USE DEF collector, store
<1>1. /\ src \in [Item -> Record \cup {None}] /\ row \in [Item -> Row \cup {None}]
      /\ reviewed \in [Item -> BOOLEAN] /\ served \in [Item -> BOOLEAN]
      /\ \A i \in Item : RecordComesFirst(i)
  BY DEF TypeInv, TypeOK
<1>2. CASE StartIngest(p)
  <2> DEFINE copy(i) == [item |-> i, src |-> src[i], row |-> None, sig |-> None,
                         reviewed |-> FALSE, served |-> FALSE]
             T == {copy(i) : i \in Pending}
  <2>1. ASSUME NEW i \in Pending
        PROVE  copy(i) \in Copy /\ copy(i).row = None /\ src[copy(i).item] # None
    <3>1. i \in Item /\ ingest[i] = "PENDING"
      BY DEF Pending
    <3>2. ingest[i] # None
      BY <3>1, DomainAssumption DEF IngestState
    <3>3. src[i] \in Record
      BY <1>1, <3>1, <3>2 DEF RecordComesFirst
    <3> QED
      BY <3>1, <3>3, DomainAssumption DEF Copy
  <2>2. T \subseteq Copy /\ \A c \in T : c.row = None /\ src[c.item] # None
    BY <2>1
  <2>3. pass' = [pass EXCEPT ![p] = [Idle EXCEPT !.job = "ingest", !.todo = T]]
        /\ row' = row /\ src' = src
    BY <1>2 DEF StartIngest
  <2> HIDE DEF T
  <2>4. [Idle EXCEPT !.job = "ingest", !.todo = T] \in Pass
    BY <2>2, IdleType DEF Idle, Pass
  <2>5. PICK w \in Pass : w = [Idle EXCEPT !.job = "ingest", !.todo = T]
    BY <2>4
  <2>6. w.cur = None /\ w.step = "next" /\ w.job = "ingest" /\ w.todo = T
    BY <2>5 DEF Idle
  <2>7. PassHolds(w)'
    BY <2>2, <2>3, <2>6 DEF PassHolds, Copies
  <2>8. pass' \in [Process -> Pass] /\ \A q \in Process : PassHolds(pass[q])'
    BY <2>3, <2>5, <2>7, PassWrite
  <2> QED
    BY <1>2, <2>8 DEF StartIngest, TypeInv, TypeOK, RecordComesFirst
<1>3. CASE StartReprocess(p)
  <2> DEFINE copy(i) == [item |-> i, src |-> src[i], row |-> row[i],
                         sig |-> SignatureOf(src[i], row[i]),
                         reviewed |-> reviewed[i], served |-> served[i]]
             T(b) == {copy(i) : i \in b}
             W(t) == [Idle EXCEPT !.job = "reprocess", !.todo = t]
  <2>1. PICK b \in SUBSET {i \in Item : row[i] # None} : pass' = [pass EXCEPT ![p] = W(T(b))]
    BY <1>3 DEF StartReprocess, Selectable, NeedsReprocess, Batches
  <2>2. ASSUME NEW i \in b
        PROVE  copy(i) \in Copy /\ copy(i).row # None /\ row[copy(i).item] # None
               /\ src[copy(i).item] # None
    <3>1. i \in Item /\ row[i] # None
      OBVIOUS
    <3>2. src[i] \in Record /\ row[i] \in Row
      BY <1>1, <3>1 DEF RecordComesFirst
    <3>3. SignatureOf(src[i], row[i]) \in Signature
      BY <3>2, SignatureOfType
    <3> QED
      BY <1>1, <3>1, <3>2, <3>3, DomainAssumption DEF Copy
  <2>3. PICK t \in SUBSET Copy : t = T(b)
    BY <2>2
  <2>4. \A c \in t : c.row # None /\ row[c.item] # None /\ src[c.item] # None
    BY <2>2, <2>3
  <2>5. W(t) \in Pass
    BY IdleType DEF Idle, Pass
  <2>6. PICK w \in Pass : w = W(t)
    BY <2>5
  <2>7. w.cur = None /\ w.step = "next" /\ w.job = "reprocess" /\ w.todo = t
    BY <2>6 DEF Idle
  <2>8. row' = row /\ src' = src
    BY <1>3 DEF StartReprocess
  <2>9. PassHolds(w)'
    BY <2>4, <2>7, <2>8 DEF PassHolds, Copies
  <2>10. pass' \in [Process -> Pass] /\ \A q \in Process : PassHolds(pass[q])'
    BY <2>1, <2>3, <2>6, <2>8, <2>9, PassWrite
  <2> QED
    BY <1>3, <2>10 DEF StartReprocess, TypeInv, TypeOK, RecordComesFirst
<1> QED
  BY <1>2, <1>3

(* What a step knows of the pass it continues.                             *)
LEMMA PassFacts ==
  ASSUME TypeInv, NEW p \in Process
  PROVE  /\ pass[p] \in Pass /\ PassHolds(pass[p])
         /\ pass[p].cur \in Copy \cup {None} /\ pass[p].todo \subseteq Copy
         /\ pass[p].step # "next" => pass[p].cur \in Copy
         /\ \A c \in Copy : /\ c.item \in Item /\ c.src \in Record
                            /\ c.row \in Row \cup {None}
                            /\ c.sig \in Signature \cup {None}
<1>1. pass[p] \in Pass /\ PassHolds(pass[p])
  BY DEF TypeInv, TypeOK
<1>2. \A c \in Copy : /\ c.item \in Item /\ c.src \in Record
                     /\ c.row \in Row \cup {None} /\ c.sig \in Signature \cup {None}
  BY DEF Copy
<1> QED
  BY <1>1, <1>2, PassFields DEF PassHolds

(* A pass step keeps the records, loses no row, makes none, and leaves the *)
(* pass sound.                                                             *)
LEMMA StepWrite ==
  ASSUME TypeInv, NEW p \in Process, NEW w \in Pass,
         pass' = [pass EXCEPT ![p] = w], PassHolds(w)',
         row' \in [Item -> Row \cup {None}],
         \A j \in Item : row'[j] = None <=> row[j] = None,
         ingest' \in [Item -> IngestState \cup {None}],
         \A j \in Item : ingest'[j] # None => src[j] # None,
         post' \in [Item -> BOOLEAN], reading' \in [Item -> Reading \cup {None}],
         UNCHANGED <<src, served, reviewed, engine>>
  PROVE  TypeInv'
<1>1. TypeOK /\ \A j \in Item : RecordComesFirst(j)
  BY DEF TypeInv
<1>2. pass' \in [Process -> Pass] /\ \A q \in Process : PassHolds(pass[q])'
  BY PassWrite
<1>3. TypeOK'
  BY <1>1, <1>2 DEF TypeOK
<1>4. \A j \in Item : RecordComesFirst(j)'
  BY <1>1 DEF RecordComesFirst
<1> QED
  BY <1>2, <1>3, <1>4 DEF TypeInv

LEMMA ReleasedHolds ==
  ASSUME TypeInv, NEW p \in Process, NEW w \in Pass, w = Released(pass[p]), src' = src,
         \A i \in Item : row[i] # None => row'[i] # None
  PROVE  PassHolds(w)'
<1>1. w.cur = None /\ w.step = "next" /\ w.todo = pass[p].todo /\ w.job = pass[p].job
  BY PassFacts DEF Released, Pass
<1>2. \A c \in Copies(w) : c \in Copies(pass[p]) /\ c.item \in Item
  BY <1>1, PassFacts, CopiesType DEF Copies, Copy
<1> QED
  BY <1>1, <1>2, PassFacts DEF PassHolds, Copies

LEMMA IngestTypeInv ==
  ASSUME TypeInv, NEW p \in Process, IngestStep(p)
  PROVE  TypeInv'
<1> DEFINE c == pass[p].cur
           i == c.item
<1> USE DEF collector, store
<1>1. /\ src \in [Item -> Record \cup {None}] /\ row \in [Item -> Row \cup {None}]
      /\ ingest \in [Item -> IngestState \cup {None}] /\ post \in [Item -> BOOLEAN]
      /\ reading \in [Item -> Reading \cup {None}] /\ engine \in 1 .. MaxEngine
      /\ \A j \in Item : RecordComesFirst(j)
  BY DEF TypeInv, TypeOK
<1>2. \A j \in Item : (row[j] # None => src[j] # None) /\ (ingest[j] # None => src[j] # None)
  BY <1>1 DEF RecordComesFirst
<1>3. /\ pass[p] \in Pass /\ PassHolds(pass[p])
      /\ pass[p].step # "next" =>
           /\ c \in Copy /\ i \in Item /\ src[i] # None
           /\ c.row # None => row[i] # None
           /\ c.sig \in Signature \cup {None}
  BY PassFacts DEF PassHolds, Copies
<1>4. "INGESTED" \in IngestState /\ "SKIPPED" \in IngestState /\ "FAILED" \in IngestState
  BY DEF IngestState
<1>5. CASE IngestSign(p)
  <2>1. PICK d \in pass[p].todo, sig \in Signature \cup {None} :
          pass' = [pass EXCEPT ![p].todo = @ \ {d}, ![p].step = "read",
                               ![p].cur = [d EXCEPT !.sig = sig]]
    <3>1. PICK d \in pass[p].todo :
            pass' = [pass EXCEPT ![p].todo = @ \ {d}, ![p].step = "read",
                       ![p].cur = [d EXCEPT !.sig = IF row[d.item] = None THEN None
                                      ELSE SignatureOf(src[d.item], row[d.item])]]
      BY <1>5 DEF IngestSign
    <3>2. d.item \in Item
      BY PassFacts
    <3> DEFINE s == IF row[d.item] = None THEN None ELSE SignatureOf(src[d.item], row[d.item])
    <3>3. s \in Signature \cup {None}
      BY <1>1, <1>2, <3>2, SignatureOfType
    <3>4. pass' = [pass EXCEPT ![p].todo = @ \ {d}, ![p].step = "read",
                               ![p].cur = [d EXCEPT !.sig = s]]
      BY <3>1
    <3> HIDE DEF s
    <3> QED
      BY <3>3, <3>4
  <2>2. PICK e \in Copy : /\ e = [d EXCEPT !.sig = sig]
                          /\ e.item = d.item /\ e.row = d.row
    <3>1. d \in Copy
      BY PassFacts
    <3>2. [d EXCEPT !.sig = sig] \in Copy
      BY <3>1 DEF Copy
    <3>3. [d EXCEPT !.sig = sig].item = d.item /\ [d EXCEPT !.sig = sig].row = d.row
      BY <3>1 DEF Copy
    <3> QED
      BY <3>2, <3>3
  <2>3. PICK t \in SUBSET Copy : t = pass[p].todo \ {d}
    BY PassFacts
  <2>4. PICK w \in Pass : w = [pass[p] EXCEPT !.todo = t, !.step = "read", !.cur = e]
    BY <1>3, PassFields DEF Step
  <2>5. pass' = [pass EXCEPT ![p] = w]
    BY <2>1, <2>2, <2>3, <2>4
  <2>6. w.cur = e /\ w.todo = t /\ w.step = "read" /\ w.job = "ingest"
    BY <1>3, <1>5, <2>4 DEF Pass, IngestSign
  <2>7. UNCHANGED <<src, ingest, row, served, reviewed, post, reading, engine>>
    BY <1>5 DEF IngestSign
  <2>8. PassHolds(w)'
    <3>1. d \in Copies(pass[p]) /\ t \subseteq Copies(pass[p]) /\ e # None
      BY <2>3, DomainAssumption DEF Copies
    <3>2. \A x \in Copies(w) : x = e \/ x \in Copies(pass[p])
      BY <2>6, <3>1 DEF Copies
    <3>3. \A x \in Copies(w) : src[x.item] # None /\ (x.row # None => row[x.item] # None)
      BY <1>3, <2>2, <3>1, <3>2 DEF PassHolds
    <3> QED
      BY <2>6, <2>7, <3>1, <3>3 DEF PassHolds, Copies
  <2> QED
    BY ZenonT(60), <1>1, <1>2, <1>5, <2>5, <2>7, <2>8, StepWrite DEF IngestSign
<1>6. CASE IngestRead(p)
  <2>1. CASE i \in Linkless
    <3>1. PICK w \in Pass : w = Released(pass[p])
      BY <1>3, ReleasedType
    <3>2. PassHolds(w)'
      <4>1. src' = src /\ row' = row
        BY <1>6 DEF IngestRead
      <4> QED
        BY <3>1, <4>1, ReleasedHolds
    <3> QED
      <4>1. /\ pass' = [pass EXCEPT ![p] = w] /\ ingest' = [ingest EXCEPT ![i] = "SKIPPED"]
            /\ UNCHANGED <<src, row, served, reviewed, post, reading, engine>>
        BY <1>6, <2>1, <3>1 DEF IngestRead
      <4>2. i \in Item /\ src[i] # None
        BY <1>3, <1>6 DEF IngestRead
      <4>3. ingest' \in [Item -> IngestState \cup {None}]
        BY <1>1, <1>4, <4>1
      <4>4. \A j \in Item : ingest'[j] # None => src[j] # None
        BY <1>1, <1>2, <4>1, <4>2
      <4>5. UNCHANGED <<src, served, reviewed, engine>>
        BY <1>6 DEF IngestRead
      <4> QED
        BY <1>1, <3>2, <4>1, <4>3, <4>4, <4>5, StepWrite
  <2>2. CASE i \notin Linkless
    <3>1. PICK e \in Copy : e = [c EXCEPT !.row = row[i]] /\ e.item = i /\ e.row = row[i]
      <4>1. c \in Copy /\ row[i] \in Row \cup {None}
        BY <1>1, <1>3, <1>6 DEF IngestRead
      <4>2. [c EXCEPT !.row = row[i]] \in Copy
        BY <4>1 DEF Copy
      <4>3. [c EXCEPT !.row = row[i]].item = i /\ [c EXCEPT !.row = row[i]].row = row[i]
        BY <4>1 DEF Copy
      <4> QED
        BY <4>2, <4>3
    <3>2. (~post[i]) \in BOOLEAN
      BY <1>1, <1>3, <1>6 DEF IngestRead
    <3>3. PICK w \in Pass : w = [pass[p] EXCEPT !.step = "extract", !.new = ~post[i], !.cur = e]
      BY <1>3, <3>2, PassFields DEF Step
    <3>4. pass' = [pass EXCEPT ![p] = w]
      <4>1. pass' = [pass EXCEPT ![p].step = "extract", ![p].new = ~post[i], ![p].cur = e]
        BY <1>6, <2>2, <3>1 DEF IngestRead
      <4>2. pass' = [pass EXCEPT ![p] = [pass[p] EXCEPT !.step = "extract", !.new = ~post[i],
                                                        !.cur = e]]
        BY <4>1
      <4> QED
        BY <3>3, <4>2, Zenon
    <3>5. w.cur = e /\ w.todo = pass[p].todo /\ w.step = "extract" /\ w.job = "ingest"
      BY <1>3, <1>6, <3>3 DEF Pass, IngestRead
    <3>6. src' = src /\ row' = row
      BY <1>6 DEF IngestRead
    <3>7. PassHolds(w)'
      <4>1. e # None /\ \A x \in Copies(w) : x = e \/ x \in Copies(pass[p])
        BY <3>5, DomainAssumption DEF Copies
      <4>2. \A x \in Copies(w) : src[x.item] # None /\ (x.row # None => row[x.item] # None)
        BY <1>3, <1>6, <3>1, <4>1 DEF PassHolds, IngestRead
      <4> QED
        BY <3>5, <3>6, <4>1, <4>2 DEF PassHolds, Copies
    <3> QED
      <4>1. /\ post' = [post EXCEPT ![i] = TRUE]
            /\ UNCHANGED <<src, ingest, row, served, reviewed, reading, engine>>
        BY <1>6, <2>2 DEF IngestRead
      <4> QED
        BY <1>1, <1>2, <3>4, <3>7, <4>1, StepWrite
  <2> QED
    BY <2>1, <2>2
<1>7. CASE IngestExtract(p)
  <2>1. PICK w \in Pass : w = [pass[p] EXCEPT !.step = "mark"]
    BY <1>3, PassFields DEF Step
  <2>2. pass' = [pass EXCEPT ![p] = w] /\ src' = src /\ row' = row
    BY <1>7, <2>1 DEF IngestExtract
  <2>3. w.cur = c /\ w.todo = pass[p].todo /\ w.step = "mark" /\ w.job = "ingest"
    BY <1>3, <1>7, <2>1 DEF Pass, IngestExtract
  <2>4. PassHolds(w)'
    BY <1>3, <1>7, <2>2, <2>3, DomainAssumption DEF PassHolds, Copies, IngestExtract
  <2>5. reading' \in [Item -> Reading \cup {None}]
    <3>1. \A found \in Found : ReadingOf(c, found) \in Reading
      BY <1>1, <1>3, <1>7, ReadingOfType DEF IngestExtract
    <3>2. \A images \in BOOLEAN : FoundIn(c, images) \subseteq Found
      BY DEF FoundIn, Found
    <3>3. ImagesOf(c) \subseteq BOOLEAN
      BY DEF ImagesOf
    <3> QED
      BY <1>1, <1>3, <1>7, <3>1, <3>2, <3>3 DEF IngestExtract
  <2> QED
    BY <1>1, <1>2, <1>7, <2>2, <2>4, <2>5, StepWrite DEF IngestExtract
<1>8. CASE IngestFail(p)
  <2>1. PICK w \in Pass : w = Released(pass[p])
    BY <1>3, ReleasedType
  <2>2. PassHolds(w)'
    BY <1>8, <2>1, ReleasedHolds DEF IngestFail
  <2> QED
    BY <1>1, <1>2, <1>3, <1>4, <1>8, <2>1, <2>2, StepWrite DEF IngestFail
<1>9. CASE IngestMark(p)
  <2>1. src' = src /\ row' = row
    BY <1>9 DEF IngestMark
  <2>2. PICK w \in Pass : pass' = [pass EXCEPT ![p] = w] /\ PassHolds(w)'
    <3>1. CASE pass[p].new /\ c.row # None
      <4>1. PICK w \in Pass : w = [pass[p] EXCEPT !.step = "stamp"]
        BY <1>3, PassFields DEF Step
      <4>2. w.cur = c /\ w.todo = pass[p].todo /\ w.step = "stamp" /\ w.job = "ingest"
        BY <1>3, <1>9, <4>1 DEF Pass, IngestMark
      <4>3. PassHolds(w)'
        BY <1>3, <1>9, <2>1, <3>1, <4>2, DomainAssumption DEF PassHolds, Copies, IngestMark
      <4> QED
        BY <1>9, <3>1, <4>1, <4>3 DEF IngestMark
    <3>2. CASE ~(pass[p].new /\ c.row # None)
      <4>1. PICK w \in Pass : w = Released(pass[p])
        BY <1>3, ReleasedType
      <4>2. PassHolds(w)'
        BY <2>1, <4>1, ReleasedHolds
      <4> QED
        BY <1>9, <3>2, <4>1, <4>2 DEF IngestMark
    <3> QED
      BY <3>1, <3>2
  <2>3. i \in Item /\ src[i] # None
    BY <1>3, <1>9 DEF IngestMark
  <2>4. /\ ingest' = [ingest EXCEPT ![i] = "INGESTED"]
        /\ UNCHANGED <<src, row, served, reviewed, post, reading, engine>>
    BY <1>9 DEF IngestMark
  <2>5. ingest' \in [Item -> IngestState \cup {None}]
    BY <1>1, <1>4, <2>4
  <2>6. \A j \in Item : ingest'[j] # None => src[j] # None
    BY <1>1, <1>2, <2>3, <2>4
  <2> QED
    BY <1>1, <2>2, <2>4, <2>5, <2>6, StepWrite
<1>10. CASE IngestStamp(p)
  <2>1. c \in Copy /\ i \in Item /\ row[i] \in Row
    BY <1>1, <1>3, <1>10 DEF IngestStamp, PassHolds
  <2>2. StampedByIngest(row[i], c.sig, engine) \in Row
    BY <1>1, <1>3, <1>10, <2>1, StampedTypes DEF IngestStamp
  <2>3. row' = [row EXCEPT ![i] = StampedByIngest(row[i], c.sig, engine)]
    BY <1>10 DEF IngestStamp
  <2>4. /\ row' \in [Item -> Row \cup {None}]
        /\ \A j \in Item : row'[j] = None <=> row[j] = None
    BY <1>1, <2>1, <2>2, <2>3, DomainAssumption
  <2>5. PICK w \in Pass : w = Released(pass[p])
    BY <1>3, ReleasedType
  <2>6. PassHolds(w)'
    BY <1>10, <2>4, <2>5, ReleasedHolds DEF IngestStamp
  <2> QED
    BY <1>1, <1>2, <1>10, <2>4, <2>5, <2>6, StepWrite DEF IngestStamp
<1> QED
  BY <1>5, <1>6, <1>7, <1>8, <1>9, <1>10 DEF IngestStep

LEMMA ReprocessTypeInv ==
  ASSUME TypeInv, NEW p \in Process, ReprocessStep(p)
  PROVE  TypeInv'
<1> DEFINE c == pass[p].cur
           i == c.item
<1> USE DEF collector, store
<1>1. /\ src \in [Item -> Record \cup {None}] /\ row \in [Item -> Row \cup {None}]
      /\ ingest \in [Item -> IngestState \cup {None}] /\ post \in [Item -> BOOLEAN]
      /\ reading \in [Item -> Reading \cup {None}] /\ engine \in 1 .. MaxEngine
      /\ \A j \in Item : RecordComesFirst(j)
  BY DEF TypeInv, TypeOK
<1>2. \A j \in Item : (row[j] # None => src[j] # None) /\ (ingest[j] # None => src[j] # None)
  BY <1>1 DEF RecordComesFirst
<1>3. /\ pass[p] \in Pass /\ PassHolds(pass[p])
      /\ pass[p].step # "next" /\ pass[p].job = "reprocess" =>
           /\ c \in Copy /\ i \in Item
           /\ c.row \in Row /\ row[i] \in Row
           /\ c.sig \in Signature \cup {None}
  BY <1>1, PassFacts DEF PassHolds, Copies
<1>4. "EXTRACTED" \in Outcome /\ "KEPT_HUMAN_REVIEWED" \in Outcome
      /\ "PRESERVED_IMAGE_EVIDENCE_LOST" \in Outcome /\ "PRESERVED_BODY_LOST" \in Outcome
  BY DEF Outcome
<1>5. CASE ReprocessRead(p)
  <2>1. PICK d \in pass[p].todo, out \in Outcome \cup {None}, step \in {"extract", "stamp"} :
          /\ pass' = [pass EXCEPT ![p].todo = @ \ {d}, ![p].cur = d, ![p].step = step,
                                  ![p].out = out]
          /\ post' = [post EXCEPT ![d.item] = TRUE]
    <3>1. \A d \in pass[p].todo : Verdict(d) \in Outcome \cup {None}
      BY <1>4 DEF Verdict
    <3> QED
      BY <1>5, <3>1 DEF ReprocessRead
  <2>2. d \in Copy
    BY PassFacts
  <2>3. PICK t \in SUBSET Copy : t = pass[p].todo \ {d}
    BY PassFacts
  <2>4. PICK w \in Pass : w = [pass[p] EXCEPT !.todo = t, !.cur = d, !.step = step, !.out = out]
    BY <1>3, <2>2, PassFields DEF Step
  <2>5. pass' = [pass EXCEPT ![p] = w]
    BY <2>1, <2>3, <2>4
  <2>6. w.cur = d /\ w.todo = t /\ w.step = step /\ w.job = "reprocess"
    BY <1>3, <1>5, <2>4 DEF Pass, ReprocessRead
  <2>7. UNCHANGED <<src, ingest, row, served, reviewed, reading, engine>>
    BY <1>5 DEF ReprocessRead
  <2>8. PassHolds(w)'
    <3>1. d # None /\ \A x \in Copies(w) : x \in Copies(pass[p])
      BY <2>2, <2>3, <2>6, DomainAssumption DEF Copies
    <3>2. \A x \in Copies(w) : src[x.item] # None /\ row[x.item] # None /\ x.row # None
      BY <1>3, <1>5, <3>1 DEF PassHolds, ReprocessRead
    <3> QED
      BY <2>6, <2>7, <3>1, <3>2 DEF PassHolds, Copies
  <2> QED
    BY <1>1, <1>2, <2>1, <2>5, <2>7, <2>8, StepWrite
<1>6. CASE ReprocessExtract(p)
  <2>1. c \in Copy /\ i \in Item
    BY <1>3, <1>6 DEF ReprocessExtract
  <2>2. PICK out \in Outcome : pass' = [pass EXCEPT ![p].step = "stamp", ![p].out = out]
    BY <1>4, <1>6 DEF ReprocessExtract
  <2>3. PICK w \in Pass : w = [pass[p] EXCEPT !.step = "stamp", !.out = out]
    BY <1>3, PassFields DEF Step
  <2>4. pass' = [pass EXCEPT ![p] = w]
    BY <2>2, <2>3
  <2>5. w.cur = c /\ w.todo = pass[p].todo /\ w.step = "stamp" /\ w.job = "reprocess"
    BY <1>3, <1>6, <2>3 DEF Pass, ReprocessExtract
  <2>6. UNCHANGED <<src, ingest, row, served, reviewed, post, engine>>
    BY <1>6 DEF ReprocessExtract
  <2>7. PassHolds(w)'
    BY <1>3, <1>6, <2>1, <2>5, <2>6, DomainAssumption DEF PassHolds, Copies, ReprocessExtract
  <2>8. reading' \in [Item -> Reading \cup {None}]
    <3>1. \A found \in Found : ReadingOf(c, found) \in Reading
      BY <1>1, <2>1, ReadingOfType
    <3>2. \A images \in BOOLEAN : FoundIn(c, images) \subseteq Found
      BY DEF FoundIn, Found
    <3>3. ImagesOf(c) \subseteq BOOLEAN
      BY DEF ImagesOf
    <3>4. HoldsReviewed(c) => reading[i].found \in Found
      BY <1>1, <2>1 DEF HoldsReviewed, HasCandidates, Reading
    <3> HIDE DEF c
    <3> QED
      BY <1>1, <1>6, <2>1, <3>1, <3>2, <3>3, <3>4 DEF ReprocessExtract, c
  <2> QED
    BY <1>1, <1>2, <2>4, <2>6, <2>7, <2>8, StepWrite
<1>7. CASE ReprocessFail(p)
  <2>1. /\ c \in Copy /\ i \in Item /\ row[i] \in Row
        /\ row' = [row EXCEPT ![i] = FailedAgain(row[i])]
    BY <1>3, <1>7 DEF ReprocessFail
  <2>2. FailedAgain(row[i]) \in Row
    <3>1. row[i].attempts \in 0 .. MaxAttempts /\ MaxAttempts \in Nat
      BY <2>1, DomainAssumption DEF Row
    <3>2. (IF row[i].attempts < MaxAttempts THEN row[i].attempts + 1 ELSE row[i].attempts)
             \in 0 .. MaxAttempts
      BY <3>1
    <3> QED
      BY <2>1, <3>2 DEF Row, FailedAgain
  <2>4. /\ row' \in [Item -> Row \cup {None}]
        /\ \A j \in Item : row'[j] = None <=> row[j] = None
    BY <1>1, <2>1, <2>2, DomainAssumption
  <2>5. PICK w \in Pass : w = Released(pass[p])
    BY <1>3, ReleasedType
  <2>6. PassHolds(w)'
    BY <1>7, <2>4, <2>5, ReleasedHolds DEF ReprocessFail
  <2> QED
    BY <1>1, <1>2, <1>7, <2>4, <2>5, <2>6, StepWrite DEF ReprocessFail
<1>8. CASE ReprocessStamp(p)
  <2>1. /\ c \in Copy /\ i \in Item /\ row[i] \in Row
        /\ pass[p].out \in Outcome \cup {None} /\ c.sig \in Signature \cup {None}
    BY <1>3, <1>8, PassFields DEF ReprocessStamp
  <2>2. StampedByReprocess(row[i], c.sig, engine, pass[p].out) \in Row
    BY <1>1, <2>1, StampedTypes
  <2>3. row' = [row EXCEPT ![i] = StampedByReprocess(row[i], c.sig, engine, pass[p].out)]
    BY <1>8 DEF ReprocessStamp
  <2>4. /\ row' \in [Item -> Row \cup {None}]
        /\ \A j \in Item : row'[j] = None <=> row[j] = None
    BY <1>1, <2>1, <2>2, <2>3, DomainAssumption
  <2>5. PICK w \in Pass : w = Released(pass[p])
    BY <1>3, ReleasedType
  <2>6. PassHolds(w)'
    BY <1>8, <2>4, <2>5, ReleasedHolds DEF ReprocessStamp
  <2> QED
    BY <1>1, <1>2, <1>8, <2>4, <2>5, <2>6, StepWrite DEF ReprocessStamp
<1> QED
  BY <1>5, <1>6, <1>7, <1>8 DEF ReprocessStep

LEMMA FinishTypeInv ==
  ASSUME TypeInv, NEW p \in Process, Finish(p)
  PROVE  TypeInv'
<1>1. UNCHANGED <<src, ingest, row, served, reviewed, post, reading, engine>>
  BY DEF Finish, collector, store
<1>2. PassHolds(Idle)' /\ Idle \in Pass
  BY IdleType, DomainAssumption DEF PassHolds, Idle, Copies
<1>3. PICK w \in Pass : w = Idle
  BY <1>2
<1>4. pass' = [pass EXCEPT ![p] = w] /\ PassHolds(w)'
  BY <1>2, <1>3 DEF Finish
<1> QED
  BY <1>1, <1>4, StepWrite DEF TypeInv, TypeOK, RecordComesFirst

LEMMA NextTypeInv == TypeInv /\ [Next]_vars => TypeInv'
<1> SUFFICES ASSUME TypeInv, [Next]_vars PROVE TypeInv'
  OBVIOUS
<1>1. CASE Outside
  BY <1>1, OutsideTypeInv
<1>2. ASSUME NEW p \in Process, PassStep(p)
      PROVE  TypeInv'
  BY <1>2, StartTypeInv, IngestTypeInv, ReprocessTypeInv, FinishTypeInv DEF PassStep
<1>3. CASE UNCHANGED vars
  BY <1>3 DEF vars, TypeInv, TypeOK, RecordComesFirst, PassHolds, Copies
<1> QED
  BY <1>1, <1>2, <1>3 DEF Next

LEMMA InitTypeInv == Init => TypeInv
<1> SUFFICES ASSUME Init PROVE TypeInv
  OBVIOUS
<1>1. \A p \in Process : PassHolds(pass[p])
  BY DomainAssumption DEF Init, PassHolds, Idle, Copies
<1> QED
  BY <1>1, InitType DEF Init, TypeInv, RecordComesFirst

(* Whatever processes run, and whatever another process may do while a     *)
(* pass is running, a pass only holds collected items and only stamps rows *)
(* that exist, with every column and snapshot a value of its type.         *)
THEOREM PassesHold == Spec => []TypeInv
BY InitTypeInv, NextTypeInv, PTL DEF Spec

(* Every column, snapshot and pass holds a value of its type: the type     *)
(* invariant, for every value of the constants.                            *)
THEOREM TypeCorrect == Spec => []TypeOK
<1>1. TypeInv => TypeOK
  BY DEF TypeInv
<1> QED
  BY <1>1, PassesHold, PTL

-----------------------------------------------------------------------------
(* No revision is lost.                                                    *)

ItemsInv == \A i \in Item : ItemInv(i)
PassesInv == \A p \in Process : PassInv(pass[p])

LEMMA Facts ==
  ASSUME IInv, NEW i \in Item
  PROVE  /\ ItemInv(i) /\ TypeInv /\ RecordComesFirst(i)
         /\ row[i] \in Row \cup {None} /\ src[i] \in Record \cup {None}
         /\ reading[i] \in Reading \cup {None}
         /\ engine \in 1 .. MaxEngine
BY DEF IInv, TypeInv, TypeOK

LEMMA RowFields ==
  ASSUME NEW r \in Row
  PROVE  /\ r # None
         /\ r.status \in Status /\ r.text \in Body /\ r.unread \in BOOLEAN
         /\ r.version \in Version /\ r.sig \in Signature \cup {None}
         /\ r.outcome \in Outcome \cup {None}
BY DomainAssumption DEF Row

(* mark_needs_reextract() takes the stamp away and keeps the body.         *)
LEMMA WithdrawnFields ==
  ASSUME NEW r \in Row
  PROVE  LET u == Withdrawn(r) IN
         /\ u \in Row /\ u.version = 0 /\ u.status = r.status /\ u.text = r.text
         /\ u.unread = r.unread /\ u.sig = r.sig /\ u.outcome = r.outcome
<1>1. r # None /\ 0 \in Version
  BY DomainAssumption DEF Version
<1> QED
  BY <1>1 DEF Withdrawn, Row

LEMMA NewRowFields ==
  /\ NewRow \in Row /\ NewRow.version = 0 /\ NewRow.text = None /\ NewRow.unread
  /\ NewRow.outcome = None /\ NewRow.sig = None
BY NewRowType DEF NewRow

(* The collector settles bodies of Synth items only.                       *)
LEMMA PlainIsNotSettled ==
  ASSUME NEW i \in Plain, NEW h, NEW r
  PROVE  Settled(i, h, r) = r
BY DEF Plain, Settled

(* ... and settling one never touches its stamp.                           *)
LEMMA SettledFields ==
  ASSUME NEW i \in Item, NEW h \in Hash, NEW r \in Row \cup {None}
  PROVE  LET u == Settled(i, h, r) IN
         /\ r = None /\ u # None => u.version = 0
         /\ r # None => u \in Row /\ u.version = r.version /\ u.outcome = r.outcome
<1>1. CASE i \notin Synth \/ h \in Short
  BY <1>1, RowFields DEF Settled
<1>2. CASE ~(i \notin Synth \/ h \in Short) /\ r = None
  <2> DEFINE v == [NewRow EXCEPT !.status = "FETCHED", !.text = h, !.unread = FALSE,
                                 !.touched = TRUE]
  <2>1. v.version = 0
    BY NewRowFields DEF Row
  <2>2. Settled(i, h, r) = NewRow \/ Settled(i, h, r) = v
    BY <1>2 DEF Settled
  <2> HIDE DEF v
  <2> QED
    BY <1>2, <2>1, <2>2, NewRowFields
<1>3. CASE ~(i \notin Synth \/ h \in Short) /\ r # None
  <2> DEFINE v == [r EXCEPT !.status = "FETCHED", !.text = h, !.unread = FALSE,
                            !.touched = TRUE]
  <2>1. v.version = r.version /\ v.outcome = r.outcome
    BY <1>3 DEF Row
  <2>2. Settled(i, h, r) = r \/ Settled(i, h, r) = v
    BY <1>3 DEF Settled
  <2>3. Settled(i, h, r) \in Row
    BY <1>3, RowKept
  <2> HIDE DEF v
  <2> QED
    BY <1>3, <2>1, <2>2, <2>3
<1> QED
  BY <1>1, <1>2, <1>3

LEMMA SettledRow ==
  ASSUME NEW i \in Item, NEW h \in Hash, NEW r \in Row \cup {None}
  PROVE  /\ Settled(i, h, r) \in Row \cup {None}
         /\ Settled(i, h, r) # None =>
              /\ Withdrawn(Settled(i, h, r)) \in Row
              /\ Withdrawn(Settled(i, h, r)).version = 0
         /\ Settled(i, h, r) = None => Withdrawn(Settled(i, h, r)) = None
<1>1. Settled(i, h, r) \in Row \cup {None}
  BY SettledType
<1> QED
  BY <1>1, WithdrawnFields DEF Withdrawn

LEMMA QuietHoldsNothing ==
  ASSUME IInv, Quiet, NEW p \in Process
  PROVE  Copies(pass[p]) = {} /\ pass[p].job = "none" /\ pass[p].step = "next"
         /\ pass[p].cur = None
<1>1. PassInv(pass[p]) /\ PassHolds(pass[p]) /\ pass[p].job = "none"
  BY DEF IInv, TypeInv, Quiet
<1> QED
  BY <1>1 DEF PassInv, IdleHoldsNothing, PassHolds, Copies

(* A write of another process that changes no post and no reading keeps    *)
(* what every pass relies on, if it leaves rows unread that were.          *)
LEMMA PassesUndisturbed ==
  ASSUME IInv, pass' = pass, UNCHANGED <<src, post, reading, engine>>,
         \A i \in Item : served[i] => served'[i],
         \A i \in Item : IF row[i] = None THEN row'[i] = None \/ row'[i].unread
                         ELSE row'[i] # None /\ (row'[i].unread \/ row'[i] = row[i])
  PROVE  PassesInv'
<1> SUFFICES ASSUME NEW p \in Process PROVE PassInv(pass[p])'
  BY DEF PassesInv
<1> DEFINE w == pass[p]
<1>1. PassInv(w) /\ w' = w
  BY DEF IInv
<1>2. w \in Pass /\ \A c \in Copies(w) : c.item \in Item
  <2>1. w \in Pass
    BY DEF IInv, TypeInv, TypeOK
  <2> QED
    BY <2>1, CopiesType DEF Copy
<1>3. w.step # "next" => w.cur \in Copies(w)
  BY DEF IInv, TypeInv, PassHolds, Copies
<1>4. ASSUME NEW c \in Copies(w)
      PROVE  CopyIsFaithful(w, c)'
  <2>1. CopyIsFaithful(w, c) /\ c.item \in Item /\ (w.job = "reprocess" => row[c.item] # None)
    BY <1>1, <1>2 DEF PassInv, IInv, TypeInv, PassHolds
  <2> QED
    BY <1>1, <2>1 DEF CopyIsFaithful
<1>5. IngestIsFirst(w)'
  BY <1>1, <1>2, <1>3 DEF PassInv, IngestIsFirst, Plain
<1>6. (IdleHoldsNothing(w) /\ OneCopyOfEach(w) /\ CurIsPosted(w) /\ IngestStamps(w)
       /\ ReprocessApplied(w))'
  BY <1>1 DEF PassInv, IdleHoldsNothing, OneCopyOfEach, Copies, CurIsPosted, IngestStamps,
     ReprocessApplied
<1> QED
  BY <1>1, <1>4, <1>5, <1>6 DEF PassInv, Copies

(* store_item() runs while no pass does.                                   *)
LEMMA CollectorStep ==
  ASSUME IInv, "collect" \notin Others, NEW i \in Item, NEW s \in Record,
         Collect(i, s) \/ Revise(i, s) \/ Rejudge(i, s) \/ (Recollect(i) /\ s = src[i])
  PROVE  ItemsInv' /\ PassesInv'
<1> USE DEF collector, store
<1>1. Quiet /\ pass' = pass
  BY DEF Collect, Revise, Rejudge, Recollect, May
<1>2. UNCHANGED <<served, post, reading, engine>>
  BY DEF Collect, Revise, Rejudge, Recollect
<1>3. PassesInv'
  <2> SUFFICES ASSUME NEW p \in Process PROVE PassInv(pass[p])'
    BY DEF PassesInv
  <2>1. Copies(pass[p]) = {} /\ pass[p].job = "none" /\ pass[p].step = "next"
    BY <1>1, QuietHoldsNothing
  <2>2. PassInv(pass[p])
    BY DEF IInv
  <2> QED
    BY <1>1, <2>1, <2>2 DEF PassInv, Copies, IdleHoldsNothing, OneCopyOfEach, CurIsPosted,
       IngestIsFirst, IngestStamps, ReprocessApplied
<1>4. ASSUME NEW j \in Item, j # i
      PROVE  ItemInv(j)'
  <2>1. row'[j] = row[j] /\ src'[j] = src[j]
    BY <1>4, Facts DEF Collect, Revise, Rejudge, Recollect, IInv, TypeInv, TypeOK
  <2> QED
    BY <1>2, <1>4, <2>1, Facts DEF ItemInv, VersionReleased, StampIsBacked,
       UnservedHasNoBody, UnpostedIsUnread, ReadRowIsSigned, SignatureIsBacked
<1>5. ItemInv(i)'
  <2> DEFINE r == row[i]
             u == Settled(i, s.hash, r)
  <2>1. r \in Row \cup {None} /\ s.hash \in Hash /\ engine \in 1 .. MaxEngine
    BY Facts DEF Record
  <2>2. \/ row'[i] = u /\ (r = None \/ src'[i] = src[i])
        \/ row'[i] = Withdrawn(u)
    BY Facts DEF Collect, Revise, Rejudge, Recollect, IInv, TypeInv, TypeOK, Collected,
       RecordComesFirst
  <2>3. i \in Plain => u = r
    BY PlainIsNotSettled
  <2>4. /\ r = None /\ u # None => u.version = 0
        /\ r # None => u \in Row /\ u.version = r.version /\ u.outcome = r.outcome
    BY <2>1, SettledFields
  <2>5. VersionReleased(i)' /\ StampIsBacked(i)'
    <3>1. CASE r = None \/ row'[i] = Withdrawn(u)
      <4>1. row'[i] = None \/ row'[i].version = 0
        <5>1. Withdrawn(u) = None \/ Withdrawn(u).version = 0
          BY <2>1, SettledRow
        <5> QED
          BY <2>2, <2>4, <3>1, <5>1
      <4> QED
        BY <1>2, <2>1, <4>1 DEF VersionReleased, StampIsBacked
    <3>2. CASE r # None /\ row'[i] = u /\ src'[i] = src[i]
      BY <1>2, <2>4, <3>2, Facts DEF VersionReleased, StampIsBacked, ItemInv
    <3> QED
      BY <2>2, <3>1, <3>2
  <2>6. ASSUME i \in Plain
        PROVE  (UnservedHasNoBody(i) /\ UnpostedIsUnread(i) /\ ReadRowIsSigned(i)
                /\ SignatureIsBacked(i))'
    <3>1. CASE r = None
      BY <1>2, <2>2, <2>3, <2>6, <3>1, Facts DEF Withdrawn, UnservedHasNoBody,
         UnpostedIsUnread, ReadRowIsSigned, SignatureIsBacked, ItemInv
    <3>2. CASE r # None
      <4>1. LET v == row'[i] IN
              /\ v # None /\ v.status = r.status /\ v.text = r.text
              /\ v.unread = r.unread /\ v.sig = r.sig /\ v.outcome = r.outcome
        BY <2>1, <2>2, <2>3, <2>6, <3>2, WithdrawnFields, RowFields
      <4> QED
        BY <1>2, <2>6, <3>2, <4>1, Facts DEF UnservedHasNoBody,
           UnpostedIsUnread, ReadRowIsSigned, SignatureIsBacked, ItemInv
    <3> QED
      BY <3>1, <3>2
  <2> QED
    BY <2>5, <2>6 DEF ItemInv
<1> QED
  BY <1>3, <1>4, <1>5 DEF ItemsInv

(* Fetches, queueing and reviews run beside a pass.                        *)
LEMMA AcquireStep ==
  ASSUME IInv, NEW i \in Item, NEW status \in Status, NEW text \in Text \cup {None},
         NEW poster \in BOOLEAN, Acquire(i, status, text, poster)
  PROVE  ItemsInv' /\ PassesInv'
<1> USE DEF collector, store
<1>1. UNCHANGED <<src, post, reading, engine, pass>>
  BY DEF Acquire
<1>2. \A j \in Item : j # i => row'[j] = row[j] /\ served'[j] = served[j]
  BY DEF Acquire, IInv, TypeInv, TypeOK
<1> DEFINE old == IF row[i] = None THEN NewRow ELSE row[i]
<1>3. /\ row'[i] # None /\ row'[i].text = text /\ row'[i].unread
      /\ row'[i].version = old.version /\ row'[i].outcome = old.outcome
  <2>1. old \in Row
    BY Facts, NewRowFields
  <2>2. row'[i] = [old EXCEPT !.status = status, !.text = text, !.poster = poster,
                              !.unread = TRUE, !.touched = TRUE]
    BY DEF Acquire, IInv, TypeInv, TypeOK
  <2>3. row'[i] \in Row
    BY AcquireType DEF IInv, TypeInv
  <2> HIDE DEF old
  <2> QED
    BY <2>1, <2>2, <2>3, RowFields DEF Row
<1>4. served'[i] = (served[i] \/ text # None)
  BY DEF Acquire, IInv, TypeInv, TypeOK
<1>5. PassesInv'
  BY <1>1, <1>2, <1>3, <1>4, PassesUndisturbed DEF Plain
<1>6. ASSUME NEW j \in Item, j # i
      PROVE  ItemInv(j)'
  BY <1>1, <1>2, <1>6, Facts DEF ItemInv, VersionReleased, StampIsBacked,
     UnservedHasNoBody, UnpostedIsUnread, ReadRowIsSigned, SignatureIsBacked
<1>7. ItemInv(i)'
  <2>1. CASE row[i] = None
    <3>1. row'[i].version = 0 /\ row'[i].outcome = None
      BY <1>3, <2>1, NewRowFields
    <3>2. engine \in 1 .. MaxEngine
      BY Facts
    <3>3. VersionReleased(i)' /\ StampIsBacked(i)'
      BY <1>1, <3>1, <3>2 DEF VersionReleased, StampIsBacked
    <3> QED
      BY <1>1, <1>3, <1>4, <3>3, Facts DEF ItemInv, UnservedHasNoBody, UnpostedIsUnread,
         ReadRowIsSigned, SignatureIsBacked
  <2>2. CASE row[i] # None
    BY <1>1, <1>3, <1>4, <2>2, Facts DEF ItemInv, VersionReleased,
       StampIsBacked, UnservedHasNoBody, UnpostedIsUnread, ReadRowIsSigned,
       SignatureIsBacked
  <2> QED
    BY <2>1, <2>2
<1> QED
  BY <1>5, <1>6, <1>7 DEF ItemsInv

(* A re-check that stores a revision leaves the row unread and unclaimed.  *)
LEMMA RefreshStep ==
  ASSUME IInv, NEW i \in Item, NEW text \in Text, NEW poster \in BOOLEAN,
         Refresh(i, text, poster)
  PROVE  ItemsInv' /\ PassesInv'
<1> USE DEF collector, store
<1>1. UNCHANGED <<src, post, reading, engine, pass>>
  BY DEF Refresh
<1>2. \A j \in Item : j # i => row'[j] = row[j] /\ served'[j] = served[j]
  BY DEF Refresh, IInv, TypeInv, TypeOK
<1>3. row[i] # None /\ served'[i]
  BY DEF Refresh, IInv, TypeInv, TypeOK
<1>4. row'[i] # None /\ row'[i].unread /\ row'[i].version = 0
  <2> DEFINE fetched == [row[i] EXCEPT !.text = text, !.poster = poster,
                                       !.unread = TRUE, !.touched = TRUE]
  <2>1. row[i] \in Row
    BY <1>3, Facts
  <2>2. fetched \in Row /\ fetched.unread
    BY <2>1 DEF Row, Body
  <2>3. row'[i] = Withdrawn(fetched)
    BY DEF Refresh, IInv, TypeInv, TypeOK
  <2> HIDE DEF fetched
  <2>4. fetched # None
    BY <2>2, DomainAssumption
  <2>5. Withdrawn(fetched).unread = fetched.unread /\ Withdrawn(fetched).version = 0
    BY <2>2, <2>4 DEF Withdrawn, Row
  <2>6. row'[i] \in Row
    BY RefreshType DEF IInv, TypeInv
  <2> QED
    BY <2>2, <2>3, <2>5, <2>6, DomainAssumption
<1>5. PassesInv'
  BY <1>1, <1>2, <1>3, <1>4, PassesUndisturbed DEF Plain
<1>6. ASSUME NEW j \in Item, j # i
      PROVE  ItemInv(j)'
  BY <1>1, <1>2, <1>6, Facts DEF ItemInv, VersionReleased, StampIsBacked,
     UnservedHasNoBody, UnpostedIsUnread, ReadRowIsSigned, SignatureIsBacked
<1>7. ItemInv(i)'
  <2>1. engine \in 1 .. MaxEngine
    BY Facts
  <2> QED
    BY <1>1, <1>3, <1>4, <2>1, Facts DEF ItemInv, VersionReleased, StampIsBacked,
       UnservedHasNoBody, UnpostedIsUnread, ReadRowIsSigned, SignatureIsBacked
<1> QED
  BY <1>5, <1>6, <1>7 DEF ItemsInv

LEMMA EnqueueStep ==
  ASSUME IInv, NEW i \in Item, Enqueue(i)
  PROVE  ItemsInv' /\ PassesInv'
<1> USE DEF collector, store
<1>1. UNCHANGED <<src, served, post, reading, engine, pass>>
  BY DEF Enqueue
<1>2. row'[i] = NewRow /\ row[i] = None /\ \A j \in Item : j # i => row'[j] = row[j]
  BY DEF Enqueue, IInv, TypeInv, TypeOK
<1>3. PassesInv'
  BY <1>1, <1>2, NewRowFields, PassesUndisturbed DEF Plain
<1>4. ASSUME NEW j \in Item, j # i
      PROVE  ItemInv(j)'
  BY <1>1, <1>2, <1>4, Facts DEF ItemInv, VersionReleased, StampIsBacked,
     UnservedHasNoBody, UnpostedIsUnread, ReadRowIsSigned, SignatureIsBacked
<1>5. ItemInv(i)'
  BY <1>1, <1>2, Facts, NewRowFields DEF ItemInv, VersionReleased, StampIsBacked,
     UnservedHasNoBody, UnpostedIsUnread, ReadRowIsSigned, SignatureIsBacked
<1> QED
  BY <1>3, <1>4, <1>5 DEF ItemsInv

LEMMA ItemsUndisturbed ==
  ASSUME IInv, UNCHANGED <<src, row, served, post, reading, engine>>
  PROVE  ItemsInv'
BY DEF IInv, ItemsInv, ItemInv, VersionReleased, StampIsBacked, UnservedHasNoBody,
   UnpostedIsUnread, ReadRowIsSigned, SignatureIsBacked

LEMMA ReviewStep ==
  ASSUME IInv, NEW i \in Item, Review(i)
  PROVE  ItemsInv' /\ PassesInv'
<1>1. UNCHANGED <<src, row, served, post, reading, engine, pass>>
  BY DEF Review, collector, store
<1> QED
  BY <1>1, ItemsUndisturbed, PassesUndisturbed

(* An idle pass relies on nothing.                                         *)
LEMMA IdleInv == PassInv(Idle)'
BY DomainAssumption DEF PassInv, Idle, IdleHoldsNothing, OneCopyOfEach, CurIsPosted, Copies,
   IngestIsFirst, IngestStamps, ReprocessApplied

(* A release makes every stamp one of an earlier engine.                   *)
LEMMA DeployStep ==
  ASSUME IInv, Deploy
  PROVE  ItemsInv' /\ PassesInv'
<1>1. UNCHANGED <<src, row, served, post, reading>> /\ engine' = engine + 1
  BY DEF Deploy, collector, store
<1>2. ASSUME NEW i \in Item
      PROVE  ItemInv(i)'
  <2>1. row[i] # None => row[i].version <= engine /\ row[i].version \in Nat
    BY Facts, RowFields DEF ItemInv, VersionReleased, Version
  <2> QED
    BY <1>1, <2>1, Facts DEF ItemInv, VersionReleased, StampIsBacked,
       UnservedHasNoBody, UnpostedIsUnread, ReadRowIsSigned, SignatureIsBacked
<1>3. PassesInv'
  BY IdleInv DEF Deploy, PassesInv
<1> QED
  BY <1>2, <1>3 DEF ItemsInv

(* ---- the steps of a pass ---------------------------------------------- *)

LEMMA OnlyWorker ==
  ASSUME IInv, NEW worker, Process = {worker}, NEW w,
         pass' = [pass EXCEPT ![worker] = w], PassInv(w)'
  PROVE  PassesInv'
<1>1. pass'[worker] = w
  BY DEF IInv, TypeInv, TypeOK
<1> QED
  BY <1>1 DEF PassesInv

LEMMA CrashOrFinishStep ==
  ASSUME IInv, NEW worker, Process = {worker}, Crash(worker) \/ Finish(worker)
  PROVE  ItemsInv' /\ PassesInv'
<1>1. UNCHANGED <<src, row, served, post, reading, engine>>
  BY DEF Crash, Finish, collector, store
<1>2. PassInv(pass[worker])'
  BY IdleInv DEF Crash, Finish, IInv, TypeInv, TypeOK
<1> QED
  BY <1>1, <1>2, ItemsUndisturbed DEF PassesInv

LEMMA StartIngestStep ==
  ASSUME IInv, TypeOK', NEW worker, Process = {worker}, StartIngest(worker)
  PROVE  ItemsInv' /\ PassesInv'
<1> DEFINE copy(i) == [item |-> i, src |-> src[i], row |-> None, sig |-> None,
                       reviewed |-> FALSE, served |-> FALSE]
           T == {copy(i) : i \in Pending}
           W == [Idle EXCEPT !.job = "ingest", !.todo = T]
<1>1. UNCHANGED <<src, row, served, post, reading, engine>>
  BY DEF StartIngest, collector, store
<1>2. pass' = [pass EXCEPT ![worker] = W]
  BY DEF StartIngest
<1>3. \A c \in T : c.src = src[c.item] /\ c.row = None
  OBVIOUS
<1>4. PICK t : t = T
  OBVIOUS
<1>5. PICK w : w = [Idle EXCEPT !.job = "ingest", !.todo = t]
  OBVIOUS
<1>6. w.job = "ingest" /\ w.todo = t /\ w.cur = None /\ w.step = "next"
  BY <1>5 DEF Idle
<1>7. PassInv(w)'
  <2>1. \A c \in Copies(w) : CopyIsFaithful(w, c)'
    BY <1>1, <1>3, <1>4, <1>6 DEF Copies, CopyIsFaithful
  <2>2. \A c, d \in t : c.item = d.item => c = d
    <3>1. \A c \in t : c = copy(c.item)
      BY <1>4
    <3> QED
      BY <3>1
  <2>3. None \notin t
    <3>1. pass'[worker].todo \subseteq Copy
      BY PassFields DEF TypeOK
    <3>2. t = pass'[worker].todo
      BY <1>2, <1>4, <1>5, <1>6 DEF IInv, TypeInv, TypeOK
    <3> QED
      BY <3>1, <3>2, DomainAssumption
  <2>4. OneCopyOfEach(w)'
    BY <1>6, <2>2, <2>3 DEF OneCopyOfEach, Copies
  <2> QED
    BY <1>6, <2>1, <2>4 DEF PassInv, IdleHoldsNothing, CurIsPosted, IngestIsFirst,
       IngestStamps, ReprocessApplied, Copies
<1> QED
  BY <1>1, <1>2, <1>4, <1>5, <1>7, ItemsUndisturbed, OnlyWorker

LEMMA StartReprocessStep ==
  ASSUME IInv, TypeOK', NEW worker, Process = {worker}, StartReprocess(worker)
  PROVE  ItemsInv' /\ PassesInv'
<1> DEFINE copy(i) == [item |-> i, src |-> src[i], row |-> row[i],
                       sig |-> SignatureOf(src[i], row[i]),
                       reviewed |-> reviewed[i], served |-> served[i]]
           T(b) == {copy(i) : i \in b}
           W(t) == [Idle EXCEPT !.job = "reprocess", !.todo = t]
<1>1. UNCHANGED <<src, row, served, post, reading, engine>>
  BY DEF StartReprocess, collector, store
<1>2. PICK b \in SUBSET Item : pass' = [pass EXCEPT ![worker] = W(T(b))]
  BY DEF StartReprocess, Selectable, Batches
<1>3. \A c \in T(b) : /\ c.item \in Item /\ c.src = src[c.item] /\ c.row = row[c.item]
                      /\ c.sig = SignatureOf(c.src, c.row)
  OBVIOUS
<1>4. PICK t : t = T(b)
  OBVIOUS
<1>5. PICK w : w = W(t)
  OBVIOUS
<1>6. w.job = "reprocess" /\ w.todo = t /\ w.cur = None /\ w.step = "next"
  BY <1>5 DEF Idle
<1>7. PassInv(w)'
  <2>1. ASSUME NEW c \in Copies(w)
        PROVE  CopyIsFaithful(w, c)'
    <3>1. /\ c.item \in Item /\ c.src = src[c.item] /\ c.row = row[c.item]
          /\ c.sig = SignatureOf(c.src, c.row)
      BY <1>3, <1>4, <1>6 DEF Copies
    <3>2. c.item \in Plain => UnservedHasNoBody(c.item)
      BY <3>1, Facts DEF ItemInv
    <3> QED
      BY <1>1, <3>1, <3>2 DEF CopyIsFaithful, UnservedHasNoBody
  <2>2. \A c, d \in t : c.item = d.item => c = d
    BY <1>4
  <2>3. None \notin t
    <3>1. pass'[worker].todo \subseteq Copy
      BY PassFields DEF TypeOK
    <3>2. t = pass'[worker].todo
      BY <1>2, <1>4, <1>5, <1>6 DEF IInv, TypeInv, TypeOK
    <3> QED
      BY <3>1, <3>2, DomainAssumption
  <2>4. OneCopyOfEach(w)'
    BY <1>6, <2>2, <2>3 DEF OneCopyOfEach, Copies
  <2> QED
    BY <1>6, <2>1, <2>4 DEF PassInv, IdleHoldsNothing, CurIsPosted, IngestIsFirst,
       IngestStamps, ReprocessApplied, Copies
<1> QED
  BY <1>1, <1>2, <1>4, <1>5, <1>7, ItemsUndisturbed, OnlyWorker

(* What a step knows of the item in hand.                                  *)
LEMMA InHand ==
  ASSUME IInv, NEW worker \in Process, pass[worker].step # "next"
  PROVE  LET w == pass[worker]  c == w.cur  i == c.item IN
         /\ PassInv(w) /\ PassHolds(w) /\ w \in Pass
         /\ c \in Copies(w) /\ c \in Copy /\ c # None /\ i \in Item
         /\ CopyIsFaithful(w, c) /\ ItemInv(i) /\ RecordComesFirst(i)
         /\ c.row \in Row \cup {None}
<1>1. PassHolds(pass[worker]) /\ PassInv(pass[worker]) /\ TypeInv
  BY DEF IInv, TypeInv
<1>2. pass[worker].cur \in Copies(pass[worker])
  BY <1>1 DEF PassHolds, Copies
<1>3. pass[worker].cur \in Copy /\ pass[worker] \in Pass
  BY <1>1, PassFacts
<1>4. pass[worker].cur.item \in Item /\ pass[worker].cur.row \in Row \cup {None}
  BY <1>3 DEF Copy
<1> QED
  BY <1>1, <1>2, <1>3, <1>4, Facts, DomainAssumption DEF PassInv

(* A pass that lets go of its item relies on less.                         *)
LEMMA ReleasedInv ==
  ASSUME IInv, NEW worker \in Process, NEW w, w = Released(pass[worker]),
         pass[worker].job # "none", pass[worker].step # "next",
         UNCHANGED <<src, served, engine>>,
         \A i \in Item : i # pass[worker].cur.item => row'[i] = row[i]
  PROVE  PassInv(w)'
<1>1. w.cur = None /\ w.step = "next" /\ w.todo = pass[worker].todo
      /\ w.job = pass[worker].job
  BY PassFacts DEF Released, Pass, IInv
<1>2. ASSUME NEW c \in Copies(w)
      PROVE  CopyIsFaithful(w, c)'
  <2>1. c \in pass[worker].todo /\ c \in Copies(pass[worker]) /\ c.item \in Item
    BY <1>1, PassFacts DEF Copies, IInv
  <2>2. CopyIsFaithful(pass[worker], c) /\ OneCopyOfEach(pass[worker])
    BY <2>1 DEF IInv, PassInv
  <2>3. c.item # pass[worker].cur.item
    BY <2>1, <2>2, InHand DEF OneCopyOfEach
  <2> QED
    BY <1>1, <2>1, <2>2, <2>3 DEF CopyIsFaithful
<1>3. OneCopyOfEach(w)'
  <2>1. OneCopyOfEach(pass[worker]) /\ pass[worker].todo \subseteq Copy
    BY PassFacts DEF IInv, PassInv
  <2> QED
    BY <1>1, <2>1, DomainAssumption DEF OneCopyOfEach, Copies
<1> QED
  BY <1>1, <1>2, <1>3 DEF PassInv, IdleHoldsNothing, CurIsPosted, IngestIsFirst, IngestStamps,
     ReprocessApplied, Copies

(* ---- the steps of an ingest pass -------------------------------------- *)

LEMMA IngestSignStep ==
  ASSUME IInv, NEW worker, Process = {worker}, IngestSign(worker)
  PROVE  ItemsInv' /\ PassesInv'
<1> DEFINE v == pass[worker]
<1>1. UNCHANGED <<src, row, served, post, reading, engine>>
  BY DEF IngestSign, collector, store
<1>2. PICK d \in v.todo : \E sig :
        pass' = [pass EXCEPT ![worker] = [v EXCEPT !.todo = @ \ {d}, !.step = "read",
                                                   !.cur = [d EXCEPT !.sig = sig]]]
  <2> DEFINE sign(d) == IF row[d.item] = None THEN None ELSE SignatureOf(src[d.item], row[d.item])
  <2>1. PICK d \in v.todo :
          pass' = [pass EXCEPT ![worker] = [v EXCEPT !.todo = @ \ {d}, !.step = "read",
                                                     !.cur = [d EXCEPT !.sig = sign(d)]]]
    BY DEF IngestSign
  <2> HIDE DEF sign
  <2> QED
    BY <2>1
<1>3. v \in Pass /\ v.job = "ingest" /\ d \in Copy /\ v.todo \subseteq Copy /\ d \in Copies(v)
  BY PassFacts DEF IngestSign, IInv, Copies
<1>4. PICK e : /\ pass' = [pass EXCEPT ![worker] = [v EXCEPT !.todo = @ \ {d}, !.step = "read",
                                                              !.cur = e]]
               /\ \E sig : e = [d EXCEPT !.sig = sig]
  BY <1>2
<1>5. e.item = d.item /\ e.src = d.src /\ e.row = d.row
  BY <1>3, <1>4 DEF Copy
<1>6. PICK w : w = [v EXCEPT !.todo = @ \ {d}, !.step = "read", !.cur = e]
  OBVIOUS
<1>7. w.job = "ingest" /\ w.todo = v.todo \ {d} /\ w.cur = e /\ w.step = "read"
  BY <1>3, <1>6 DEF Pass
<1>8. PassInv(v)
  BY DEF IInv
<1>9. PassInv(w)'
  <2>1. ASSUME NEW c \in Copies(w)
        PROVE  CopyIsFaithful(w, c)'
    <3>1. CopyIsFaithful(v, d) /\ (c # e => CopyIsFaithful(v, c))
      BY <1>3, <1>7, <1>8 DEF PassInv, Copies
    <3> QED
      BY <1>1, <1>3, <1>5, <1>7, <3>1 DEF CopyIsFaithful
  <2>2. OneCopyOfEach(w)'
    <3>1. \A x, y \in v.todo : x.item = y.item => x = y
      BY <1>8 DEF PassInv, OneCopyOfEach, Copies
    <3> QED
      BY <1>5, <1>7, <3>1 DEF OneCopyOfEach, Copies
  <2> QED
    BY <1>7, <2>1, <2>2 DEF PassInv, IdleHoldsNothing, CurIsPosted, IngestIsFirst,
       IngestStamps, ReprocessApplied, Copies
<1> QED
  BY <1>1, <1>4, <1>6, <1>9, ItemsUndisturbed, OnlyWorker

(* A step that keeps the pass's copies and their rows keeps them faithful. *)
LEMMA CopiesKept ==
  ASSUME IInv, NEW worker \in Process, NEW w,
         w.todo = pass[worker].todo, w.cur = pass[worker].cur, w.job = pass[worker].job,
         w.job # "none", UNCHANGED <<src, row, served>>
  PROVE  /\ (IdleHoldsNothing(w) /\ OneCopyOfEach(w))'
         /\ \A c \in Copies(w) : CopyIsFaithful(w, c)'
BY DEF IInv, PassInv, OneCopyOfEach, IdleHoldsNothing, Copies, CopyIsFaithful

LEMMA IngestReadStep ==
  ASSUME IInv, NEW worker, Process = {worker}, IngestRead(worker)
  PROVE  ItemsInv' /\ PassesInv'
<1> DEFINE v == pass[worker]
           c == v.cur
           i == c.item
<1>1. UNCHANGED <<src, row, served, reading, engine>>
  BY DEF IngestRead
<1>2. v.job = "ingest" /\ v.step = "read"
  BY DEF IngestRead
<1>3. /\ PassInv(v) /\ v \in Pass /\ c \in Copies(v) /\ c \in Copy /\ i \in Item
      /\ CopyIsFaithful(v, c) /\ ItemInv(i)
  BY <1>2, InHand
<1>4. CASE i \in Linkless
  <2>1. post' = post /\ pass' = [pass EXCEPT ![worker] = Released(v)]
    BY <1>4 DEF IngestRead
  <2>2. PICK w : w = Released(v)
    OBVIOUS
  <2>3. PassInv(w)'
    BY <1>1, <1>2, <2>2, ReleasedInv
  <2> QED
    BY <1>1, <2>1, <2>2, <2>3, ItemsUndisturbed, OnlyWorker
<1>5. CASE i \notin Linkless
  <2>1. PICK e, new : /\ e = [c EXCEPT !.row = row[i]] /\ new = ~post[i]
    OBVIOUS
  <2>2. e.item = i /\ e.src = c.src /\ e.row = row[i]
    BY <1>3, <2>1 DEF Copy
  <2>3. PICK w : w = [v EXCEPT !.step = "extract", !.new = new, !.cur = e]
    OBVIOUS
  <2>4. /\ w.job = "ingest" /\ w.todo = v.todo /\ w.cur = e /\ w.step = "extract"
        /\ w.new = new
    BY <1>2, <1>3, <2>3 DEF Pass
  <2>5. /\ pass' = [pass EXCEPT ![worker] = w]
        /\ post' = [post EXCEPT ![i] = TRUE]
    BY <1>5, <2>1, <2>3 DEF IngestRead
  <2>6. post'[i] /\ \A j \in Item : j # i => post'[j] = post[j]
    BY <1>3, <2>5 DEF IInv, TypeInv, TypeOK
  <2>7. PassInv(w)'
    <3>1. ASSUME NEW d \in Copies(w)
          PROVE  CopyIsFaithful(w, d)'
      <4>1. CASE d = e
        BY <1>1, <1>3, <2>2, <2>4, <4>1 DEF CopyIsFaithful, ItemInv, UnservedHasNoBody
      <4>2. CASE d \in v.todo
        BY <1>1, <1>2, <1>3, <2>4, <4>2 DEF CopyIsFaithful, PassInv, Copies
      <4> QED
        BY <2>4, <4>1, <4>2 DEF Copies
    <3>2. OneCopyOfEach(w)'
      <4>1. \A x, y \in Copies(v) : x.item = y.item => x = y
        BY <1>3 DEF PassInv, OneCopyOfEach
      <4>2. c \notin v.todo /\ v.todo \subseteq Copies(v)
        BY <1>3 DEF PassInv, OneCopyOfEach, Copies
      <4> QED
        BY <1>3, <2>2, <2>4, <4>1, <4>2 DEF OneCopyOfEach, Copies
    <3>3. IngestIsFirst(w)'
      BY <1>1, <1>3, <2>1, <2>2, <2>4 DEF IngestIsFirst, ItemInv, UnpostedIsUnread
    <3> QED
      BY <2>2, <2>4, <2>6, <3>1, <3>2, <3>3 DEF PassInv, IdleHoldsNothing, CurIsPosted,
         IngestStamps, ReprocessApplied, Copies
  <2>8. ItemsInv'
    <3> SUFFICES ASSUME NEW j \in Item PROVE ItemInv(j)'
      BY DEF ItemsInv
    <3> QED
      BY <1>1, <2>6, Facts DEF ItemInv, VersionReleased, StampIsBacked,
         UnservedHasNoBody, UnpostedIsUnread, ReadRowIsSigned, SignatureIsBacked
  <2> QED
    BY <2>5, <2>7, <2>8, OnlyWorker
<1> QED
  BY <1>4, <1>5

(* What the engine reads is the copy it was given.                         *)
LEMMA ReadingFields ==
  ASSUME NEW c, NEW found
  PROVE  LET d == ReadingOf(c, found) IN
         d.src = c.src /\ d.version = engine /\ d.body = BodyOf(c.item, c.src, c.row)
BY DEF ReadingOf

(* A reading of a copy that is the item's record keeps the item's claims,  *)
(* if its row is unread or has the copy's body.                            *)
LEMMA ReadingKept ==
  ASSUME IInv, NEW worker \in Process, NEW c \in Copies(pass[worker]), NEW found,
         c.item \in Item, post[c.item],
         reading' = [reading EXCEPT ![c.item] = ReadingOf(c, found)],
         ReadingOf(c, found) # None,
         UNCHANGED <<src, row, served, post, engine>>,
         c.item \in Plain =>
           \/ row[c.item] = None \/ row[c.item].unread
           \/ c.row # None /\ row[c.item].status = c.row.status /\ row[c.item].text = c.row.text
  PROVE  ItemsInv'
<1> DEFINE i == c.item
<1>1. CopyIsFaithful(pass[worker], c)
  BY DEF IInv, PassInv
<1>2. /\ reading'[i] = ReadingOf(c, found)
      /\ \A j \in Item : j # i => reading'[j] = reading[j]
  BY DEF IInv, TypeInv, TypeOK
<1>3. ASSUME NEW j \in Item, j # i
      PROVE  ItemInv(j)'
  BY <1>2, <1>3, Facts DEF ItemInv, VersionReleased, StampIsBacked, UnservedHasNoBody,
     UnpostedIsUnread, ReadRowIsSigned, SignatureIsBacked
<1>4. ItemInv(i)'
  <2>1. ItemInv(i)
    BY Facts
  <2>2. VersionReleased(i)' /\ StampIsBacked(i)'
    BY <1>1, <1>2, <2>1, ReadingFields DEF ItemInv, VersionReleased, StampIsBacked,
       CopyIsFaithful
  <2>3. ASSUME i \in Plain
        PROVE  (UnservedHasNoBody(i) /\ UnpostedIsUnread(i) /\ ReadRowIsSigned(i))'
    BY <1>1, <1>2, <2>1, <2>3, ReadingFields DEF ItemInv, CopyIsFaithful, BodyOf, Plain,
       UnservedHasNoBody, UnpostedIsUnread, ReadRowIsSigned
  <2>4. ASSUME i \in Plain
        PROVE  SignatureIsBacked(i)'
    BY <1>1, <1>2, <2>1, <2>4, ReadingFields DEF ItemInv, CopyIsFaithful, BodyOf,
       SignatureIsBacked
  <2> QED
    BY <2>2, <2>3, <2>4 DEF ItemInv
<1> QED
  BY <1>3, <1>4 DEF ItemsInv

LEMMA IngestExtractStep ==
  ASSUME IInv, NEW worker, Process = {worker}, IngestExtract(worker)
  PROVE  ItemsInv' /\ PassesInv'
<1> DEFINE v == pass[worker]
           c == v.cur
           i == c.item
<1>1. UNCHANGED <<src, row, served, post, engine>>
  BY DEF IngestExtract, collector
<1>2. v.job = "ingest" /\ v.step = "extract"
  BY DEF IngestExtract
<1>3. /\ PassInv(v) /\ v \in Pass /\ c \in Copies(v) /\ c \in Copy /\ i \in Item
      /\ CopyIsFaithful(v, c) /\ ItemInv(i)
  BY <1>2, InHand
<1>4. PICK w : w = [v EXCEPT !.step = "mark"]
  OBVIOUS
<1>5. /\ w.job = "ingest" /\ w.todo = v.todo /\ w.cur = c /\ w.step = "mark"
      /\ w.new = v.new
  BY <1>2, <1>3, <1>4 DEF Pass
<1>6. pass' = [pass EXCEPT ![worker] = w]
  BY <1>4 DEF IngestExtract
<1>7. /\ (IdleHoldsNothing(w) /\ OneCopyOfEach(w))'
      /\ \A d \in Copies(w) : CopyIsFaithful(w, d)'
  BY <1>1, <1>2, <1>5, CopiesKept
<1>8. post[i]
  BY <1>2, <1>3 DEF PassInv, CurIsPosted
<1>9. CASE v.new
  <2>1. PICK found \in Found : reading' = [reading EXCEPT ![i] = ReadingOf(c, found)]
    BY <1>9 DEF IngestExtract, FoundIn, Found
  <2>2. reading'[i] = ReadingOf(c, found)
    BY <1>3, <2>1 DEF IInv, TypeInv, TypeOK
  <2>3. ReadingOf(c, found) # None
    BY <1>3, Facts, ReadingOfType, DomainAssumption
  <2>4. i \in Plain /\ row[i] # None => row[i].unread
    BY <1>2, <1>3, <1>9 DEF PassInv, IngestIsFirst
  <2>5. ItemsInv'
    BY <1>1, <1>3, <1>8, <2>1, <2>3, <2>4, ReadingKept
  <2>6. IngestIsFirst(w)'
    BY <1>1, <1>3, <1>5, <2>2, <2>3, <2>4, ReadingFields DEF IngestIsFirst, CopyIsFaithful
  <2>7. PassInv(w)'
    BY <1>1, <1>5, <1>7, <1>8, <2>6 DEF PassInv, CurIsPosted, IngestStamps,
       ReprocessApplied, Copies
  <2> QED
    BY <1>6, <2>5, <2>7, OnlyWorker
<1>10. CASE ~v.new
  <2>1. reading' = reading
    BY <1>10 DEF IngestExtract
  <2>2. PassInv(w)'
    BY <1>1, <1>5, <1>7, <1>8, <1>10 DEF PassInv, CurIsPosted, IngestIsFirst, IngestStamps,
       ReprocessApplied, Copies
  <2> QED
    BY <1>1, <1>6, <2>1, <2>2, ItemsUndisturbed, OnlyWorker
<1> QED
  BY <1>3, <1>9, <1>10 DEF Pass

LEMMA IngestFailOrMarkStep ==
  ASSUME IInv, NEW worker, Process = {worker}, IngestFail(worker) \/ IngestMark(worker)
  PROVE  ItemsInv' /\ PassesInv'
<1> DEFINE v == pass[worker]
           c == v.cur
<1>1. UNCHANGED <<src, row, served, post, reading, engine>>
  BY DEF IngestFail, IngestMark, store
<1>2. v.job = "ingest" /\ v.step \in {"extract", "mark"}
  BY DEF IngestFail, IngestMark
<1>3. PassInv(v) /\ v \in Pass /\ c \in Copies(v)
  BY <1>2, InHand
<1>4. CASE pass' = [pass EXCEPT ![worker] = Released(v)]
  <2>1. PICK w : w = Released(v)
    OBVIOUS
  <2>2. PassInv(w)'
    BY <1>1, <1>2, <2>1, ReleasedInv
  <2> QED
    BY <1>1, <1>4, <2>1, <2>2, ItemsUndisturbed, OnlyWorker
<1>5. CASE v.step = "mark" /\ v.new /\ pass' = [pass EXCEPT ![worker] = [v EXCEPT !.step = "stamp"]]
  <2>1. PICK w : w = [v EXCEPT !.step = "stamp"]
    OBVIOUS
  <2>2. /\ w.job = "ingest" /\ w.todo = v.todo /\ w.cur = c /\ w.step = "stamp"
        /\ w.new = v.new
    BY <1>2, <1>3, <2>1 DEF Pass
  <2>3. /\ (IdleHoldsNothing(w) /\ OneCopyOfEach(w))'
        /\ \A d \in Copies(w) : CopyIsFaithful(w, d)'
    BY <1>1, <1>2, <2>2, CopiesKept
  <2>4. PassInv(w)'
    BY <1>1, <1>2, <1>3, <1>5, <2>2, <2>3 DEF PassInv, CurIsPosted, IngestIsFirst,
       IngestStamps, ReprocessApplied, Copies
  <2> QED
    BY <1>1, <1>5, <2>1, <2>4, ItemsUndisturbed, OnlyWorker
<1> QED
  BY <1>2, <1>4, <1>5 DEF IngestFail, IngestMark

(* A stamp says the running engine has read the item, and it has.          *)
LEMMA IngestStampStep ==
  ASSUME IInv, NEW worker, Process = {worker}, IngestStamp(worker)
  PROVE  ItemsInv' /\ PassesInv'
<1> DEFINE v == pass[worker]
           c == v.cur
<1>1. UNCHANGED <<src, served, post, reading, engine>>
  BY DEF IngestStamp, collector, store
<1>2. v.job = "ingest" /\ v.step = "stamp"
  BY DEF IngestStamp
<1>3. PICK i \in Item : /\ i = c.item /\ ItemInv(i)
                        /\ PassInv(v) /\ PassHolds(v) /\ c \in Copies(v)
  BY <1>2, InHand
<1>4. row[i] \in Row /\ \A j \in Item : j # i => row'[j] = row[j]
  BY <1>2, <1>3, Facts DEF PassHolds, IngestStamp, IInv, TypeInv, TypeOK
<1>5. row'[i] = StampedByIngest(row[i], c.sig, engine)
  BY <1>3 DEF IngestStamp, IInv, TypeInv, TypeOK
<1>6. /\ row'[i].version = engine /\ row'[i].text = row[i].text
      /\ row'[i].unread = row[i].unread
  BY <1>4, <1>5 DEF StampedByIngest, Row
<1>7. /\ i \in Plain => row[i].unread
      /\ reading[i] # None /\ reading[i].src = src[i] /\ reading[i].version = engine
      /\ post[i]
  BY <1>2, <1>3, <1>4, RowFields DEF PassInv, IngestStamps, IngestIsFirst, CurIsPosted
<1>8. ASSUME NEW j \in Item, j # i
      PROVE  ItemInv(j)'
  BY <1>1, <1>4, <1>8, Facts DEF ItemInv, VersionReleased, StampIsBacked,
     UnservedHasNoBody, UnpostedIsUnread, ReadRowIsSigned, SignatureIsBacked
<1>9. ItemInv(i)'
  <2>1. engine \in 1 .. MaxEngine
    BY <1>3, Facts
  <2>2. VersionReleased(i)' /\ StampIsBacked(i)'
    BY <1>1, <1>6, <1>7, <2>1 DEF VersionReleased, StampIsBacked
  <2>3. i \in Plain => (UnservedHasNoBody(i) /\ UnpostedIsUnread(i) /\ ReadRowIsSigned(i)
                        /\ SignatureIsBacked(i))'
    BY <1>1, <1>3, <1>4, <1>6, <1>7, RowFields DEF ItemInv, UnservedHasNoBody,
       UnpostedIsUnread, ReadRowIsSigned, SignatureIsBacked
  <2> QED
    BY <2>2, <2>3 DEF ItemInv
<1>10. PICK w : w = Released(v)
  OBVIOUS
<1>11. PassInv(w)'
  BY <1>1, <1>2, <1>3, <1>4, <1>10, ReleasedInv
<1>12. pass' = [pass EXCEPT ![worker] = w]
  BY <1>10 DEF IngestStamp
<1> QED
  BY <1>8, <1>9, <1>11, <1>12, OnlyWorker DEF ItemsInv

(* ---- the steps of a re-extraction pass -------------------------------- *)

LEMMA ReprocessReadStep ==
  ASSUME IInv, NEW worker, Process = {worker}, ReprocessRead(worker)
  PROVE  ItemsInv' /\ PassesInv'
<1> DEFINE v == pass[worker]
<1>1. UNCHANGED <<src, row, served, reading, engine>>
  BY DEF ReprocessRead, collector
<1>2. PICK d \in v.todo :
        /\ post' = [post EXCEPT ![d.item] = TRUE]
        /\ \E step \in {"extract", "stamp"} :
             pass' = [pass EXCEPT ![worker] = [v EXCEPT !.todo = @ \ {d}, !.cur = d,
                                                 !.step = step, !.out = Verdict(d)]]
  <2> DEFINE next(d) == IF Verdict(d) = None THEN "extract" ELSE "stamp"
  <2>1. PICK d \in v.todo :
          /\ post' = [post EXCEPT ![d.item] = TRUE]
          /\ pass' = [pass EXCEPT ![worker] = [v EXCEPT !.todo = @ \ {d}, !.cur = d,
                                                 !.step = next(d), !.out = Verdict(d)]]
    BY ZenonT(60) DEF ReprocessRead
  <2>2. next(d) \in {"extract", "stamp"}
    OBVIOUS
  <2> HIDE DEF next
  <2> QED
    BY <2>1, <2>2
<1>3. PICK step \in {"extract", "stamp"} :
        pass' = [pass EXCEPT ![worker] = [v EXCEPT !.todo = @ \ {d}, !.cur = d,
                                                   !.step = step, !.out = Verdict(d)]]
  BY <1>2
<1>4. PICK out : out = Verdict(d) /\ out # "EXTRACTED"
  BY DomainAssumption DEF Verdict, Outcome
<1>5. /\ v \in Pass /\ v.job = "reprocess" /\ v.todo \subseteq Copies(v)
      /\ d.item \in Item /\ PassInv(v)
  BY PassFacts DEF ReprocessRead, IInv, Copies
<1>6. PICK w : w = [v EXCEPT !.todo = @ \ {d}, !.cur = d, !.step = step, !.out = out]
  OBVIOUS
<1>7. /\ w.job = "reprocess" /\ w.todo = v.todo \ {d} /\ w.cur = d /\ w.step = step
      /\ w.out = out
  BY <1>5, <1>6 DEF Pass
<1>8. post'[d.item] /\ \A j \in Item : j # d.item => post'[j] = post[j]
  BY <1>2, <1>5 DEF IInv, TypeInv, TypeOK
<1>9. PassInv(w)'
  <2>1. Copies(w) \subseteq Copies(v)
    BY <1>5, <1>7 DEF Copies
  <2>2. \A c \in Copies(w) : CopyIsFaithful(w, c)'
    BY <1>1, <1>5, <1>7, <2>1 DEF PassInv, CopyIsFaithful
  <2>3. OneCopyOfEach(w)'
    BY <1>5, <1>7, <2>1 DEF PassInv, OneCopyOfEach, Copies
  <2> QED
    BY <1>4, <1>7, <1>8, <2>2, <2>3 DEF PassInv, IdleHoldsNothing, CurIsPosted,
       IngestIsFirst, IngestStamps, ReprocessApplied, Copies
<1>10. ItemsInv'
  <2> SUFFICES ASSUME NEW j \in Item PROVE ItemInv(j)'
    BY DEF ItemsInv
  <2> QED
    BY <1>1, <1>8, Facts DEF ItemInv, VersionReleased, StampIsBacked,
       UnservedHasNoBody, UnpostedIsUnread, ReadRowIsSigned, SignatureIsBacked
<1> QED
  BY <1>3, <1>4, <1>6, <1>9, <1>10, OnlyWorker

LEMMA ReprocessExtractStep ==
  ASSUME IInv, NEW worker, Process = {worker}, ReprocessExtract(worker)
  PROVE  ItemsInv' /\ PassesInv'
<1> DEFINE v == pass[worker]
<1>1. UNCHANGED <<src, row, served, post, engine>>
  BY DEF ReprocessExtract, collector
<1>2. v.job = "reprocess" /\ v.step = "extract"
  BY DEF ReprocessExtract
<1>3. PICK c \in Copies(v), i \in Item :
        /\ c = v.cur /\ i = c.item /\ PassInv(v) /\ PassHolds(v) /\ v \in Pass
        /\ c \in Copy /\ CopyIsFaithful(v, c) /\ ItemInv(i)
  BY <1>2, InHand
<1>4. post[i] /\ row[i] # None /\ c.row # None
  BY <1>2, <1>3 DEF PassInv, CurIsPosted, PassHolds
<1>5. ASSUME NEW out, pass' = [pass EXCEPT ![worker].step = "stamp", ![worker].out = out],
             \/ out # "EXTRACTED"
             \/ /\ reading'[i] # None /\ reading'[i].src = c.src
                /\ reading'[i].version = engine /\ reading'[i].body = BodyOf(i, c.src, c.row)
      PROVE  PassesInv'
  <2>1. PICK w : w = [v EXCEPT !.step = "stamp", !.out = out]
    OBVIOUS
  <2>2. /\ w.job = "reprocess" /\ w.todo = v.todo /\ w.cur = c /\ w.step = "stamp"
        /\ w.out = out
    BY <1>2, <1>3, <2>1 DEF Pass
  <2>3. /\ (IdleHoldsNothing(w) /\ OneCopyOfEach(w))'
        /\ \A d \in Copies(w) : CopyIsFaithful(w, d)'
    BY <1>1, <1>2, <1>3, <2>2, CopiesKept
  <2>4. PassInv(w)'
    BY <1>1, <1>3, <1>4, <1>5, <2>2, <2>3 DEF PassInv, CurIsPosted, IngestIsFirst,
       IngestStamps, ReprocessApplied, Copies
  <2>5. pass' = [pass EXCEPT ![worker] = w]
    BY <1>5, <2>1
  <2> QED
    BY <2>4, <2>5, OnlyWorker
<1>6. CASE reading' = reading /\ \E out \in {"PRESERVED_IMAGE_EVIDENCE_LOST", "KEPT_HUMAN_REVIEWED"} :
             pass' = [pass EXCEPT ![worker].step = "stamp", ![worker].out = out]
  <2>1. PassesInv'
    BY <1>5, <1>6
  <2> QED
    BY <1>1, <1>6, <2>1, ItemsUndisturbed
<1>7. ASSUME NEW found \in Found, reading' = [reading EXCEPT ![i] = ReadingOf(c, found)],
             pass' = [pass EXCEPT ![worker].step = "stamp", ![worker].out = "EXTRACTED"]
      PROVE  ItemsInv' /\ PassesInv'
  <2>1. reading'[i] = ReadingOf(c, found) /\ ReadingOf(c, found) # None
    BY <1>3, <1>7, Facts, ReadingOfType, DomainAssumption DEF IInv, TypeInv, TypeOK
  <2>2. PassesInv'
    <3>1. /\ reading'[i] # None /\ reading'[i].src = c.src
          /\ reading'[i].version = engine /\ reading'[i].body = BodyOf(i, c.src, c.row)
      BY <1>3, <2>1, ReadingFields
    <3> QED
      BY <1>5, <1>7, <3>1, Zenon
  <2>3. ItemsInv'
    BY <1>1, <1>2, <1>3, <1>4, <1>7, <2>1, ReadingKept DEF CopyIsFaithful
  <2> QED
    BY <2>2, <2>3
<1>8. HoldsReviewed(c) => reading[i].found \in Found
  BY <1>3, Facts DEF HoldsReviewed, HasCandidates, Reading
<1>9. \/ reading' = reading /\ \E out \in {"PRESERVED_IMAGE_EVIDENCE_LOST", "KEPT_HUMAN_REVIEWED"} :
           pass' = [pass EXCEPT ![worker].step = "stamp", ![worker].out = out]
      \/ \E found \in Found :
           /\ reading' = [reading EXCEPT ![i] = ReadingOf(c, found)]
           /\ pass' = [pass EXCEPT ![worker].step = "stamp", ![worker].out = "EXTRACTED"]
  BY <1>3, <1>8 DEF ReprocessExtract, FoundIn, Found
<1> QED
  BY <1>6, <1>7, <1>9

LEMMA ReprocessFailStep ==
  ASSUME IInv, NEW worker, Process = {worker}, ReprocessFail(worker)
  PROVE  ItemsInv' /\ PassesInv'
<1> DEFINE v == pass[worker]
<1>1. UNCHANGED <<src, served, post, reading, engine>>
  BY DEF ReprocessFail, collector, store
<1>2. v.job = "reprocess" /\ v.step = "extract"
  BY DEF ReprocessFail
<1>3. PICK i \in Item : i = v.cur.item /\ ItemInv(i) /\ row[i] \in Row
  <2>1. LET i == v.cur.item IN i \in Item /\ ItemInv(i) /\ row[i] # None
    BY <1>2, InHand DEF PassHolds
  <2> QED
    BY <2>1, Facts
<1>4. row'[i] = FailedAgain(row[i]) /\ \A j \in Item : j # i => row'[j] = row[j]
  BY <1>3 DEF ReprocessFail, IInv, TypeInv, TypeOK
<1>5. /\ row'[i].version = row[i].version /\ row'[i].text = row[i].text
      /\ row'[i].unread = row[i].unread /\ row'[i].sig = row[i].sig
      /\ row'[i].outcome = row[i].outcome /\ row'[i].status = row[i].status
  BY <1>3, <1>4 DEF FailedAgain, Row
<1>6. ItemsInv'
  <2>1. ASSUME NEW j \in Item, j # i
        PROVE  ItemInv(j)'
    BY <1>1, <1>4, <2>1, Facts DEF ItemInv, VersionReleased, StampIsBacked,
       UnservedHasNoBody, UnpostedIsUnread, ReadRowIsSigned, SignatureIsBacked
  <2>2. ItemInv(i)'
    BY <1>1, <1>3, <1>5, RowFields DEF ItemInv, VersionReleased, StampIsBacked,
       UnservedHasNoBody, UnpostedIsUnread, ReadRowIsSigned, SignatureIsBacked
  <2> QED
    BY <2>1, <2>2 DEF ItemsInv
<1>7. PICK w : w = Released(v)
  OBVIOUS
<1>8. PassInv(w)'
  BY <1>1, <1>2, <1>3, <1>4, <1>7, ReleasedInv
<1>9. pass' = [pass EXCEPT ![worker] = w]
  BY <1>7 DEF ReprocessFail
<1> QED
  BY <1>6, <1>8, <1>9, OnlyWorker

LEMMA ReprocessStampStep ==
  ASSUME IInv, NEW worker, Process = {worker}, ReprocessStamp(worker)
  PROVE  ItemsInv' /\ PassesInv'
<1> DEFINE v == pass[worker]
<1>1. UNCHANGED <<src, served, post, reading, engine>>
  BY DEF ReprocessStamp, collector, store
<1>2. v.job = "reprocess" /\ v.step = "stamp"
  BY DEF ReprocessStamp
<1>3. PICK c \in Copies(v), i \in Item :
        /\ c = v.cur /\ i = c.item /\ PassInv(v) /\ PassHolds(v) /\ v \in Pass
        /\ c \in Copy /\ CopyIsFaithful(v, c) /\ ItemInv(i)
  BY <1>2, InHand
<1>4. row[i] \in Row /\ \A j \in Item : j # i => row'[j] = row[j]
  BY <1>2, <1>3, Facts DEF PassHolds, ReprocessStamp, IInv, TypeInv, TypeOK
<1>5. row'[i] = StampedByReprocess(row[i], c.sig, engine, v.out)
  BY <1>3 DEF ReprocessStamp, IInv, TypeInv, TypeOK
<1>6. /\ row'[i].version = engine /\ row'[i].text = row[i].text
      /\ row'[i].status = row[i].status
      /\ row'[i].sig = c.sig /\ row'[i].outcome = v.out
  BY <1>4, <1>5 DEF StampedByReprocess, Row
<1>7. c.sig = SignatureOf(c.src, c.row) /\ c.src = src[i] /\ c.row # None /\ post[i]
      /\ c.sig # None
  <2>1. c.src \in Record /\ c.row \in Row
    BY <1>2, <1>3 DEF Copy, PassHolds
  <2>2. SignatureOf(c.src, c.row) \in Signature
    BY <2>1, SignatureOfType
  <2> QED
    BY <1>2, <1>3, <2>1, <2>2, DomainAssumption DEF CopyIsFaithful, PassInv, CurIsPosted,
       PassHolds
<1>8. v.out = "EXTRACTED" =>
        /\ reading[i] # None /\ reading[i].src = src[i] /\ reading[i].version = engine
        /\ reading[i].body = BodyOf(i, c.src, c.row)
  BY <1>2, <1>3, <1>7 DEF PassInv, ReprocessApplied
<1>9. ASSUME NEW j \in Item, j # i
      PROVE  ItemInv(j)'
  BY <1>1, <1>4, <1>9, Facts DEF ItemInv, VersionReleased, StampIsBacked,
     UnservedHasNoBody, UnpostedIsUnread, ReadRowIsSigned, SignatureIsBacked
<1>10. ItemInv(i)'
  <2>1. engine \in 1 .. MaxEngine
    BY <1>3, Facts
  <2>2. VersionReleased(i)' /\ StampIsBacked(i)'
    BY <1>1, <1>6, <1>8, <2>1 DEF VersionReleased, StampIsBacked
  <2>3. i \in Plain => (UnservedHasNoBody(i) /\ UnpostedIsUnread(i) /\ ReadRowIsSigned(i))'
    BY <1>1, <1>3, <1>4, <1>6, <1>7, RowFields DEF ItemInv, UnservedHasNoBody,
       UnpostedIsUnread, ReadRowIsSigned
  <2>4. SignatureIsBacked(i)'
    BY <1>1, <1>6, <1>7, <1>8 DEF SignatureIsBacked, SignatureOf, BodyOf
  <2> QED
    BY <2>2, <2>3, <2>4 DEF ItemInv
<1>11. PICK w : w = Released(v)
  OBVIOUS
<1>12. PassInv(w)'
  BY <1>1, <1>2, <1>3, <1>4, <1>11, ReleasedInv
<1>13. pass' = [pass EXCEPT ![worker] = w]
  BY <1>11 DEF ReprocessStamp
<1> QED
  BY <1>9, <1>10, <1>12, <1>13, OnlyWorker DEF ItemsInv

(* ---- the theorems ----------------------------------------------------- *)

LEMMA InvInit == Init => IInv
<1> SUFFICES ASSUME Init PROVE IInv
  OBVIOUS
<1>1. TypeInv
  BY InitTypeInv
<1>2. ItemsInv
  BY DEF Init, ItemsInv, ItemInv, VersionReleased, StampIsBacked, UnservedHasNoBody,
     UnpostedIsUnread, ReadRowIsSigned, SignatureIsBacked
<1>3. PassesInv
  BY DomainAssumption DEF Init, PassesInv, PassInv, Idle, IdleHoldsNothing, OneCopyOfEach,
     CurIsPosted, Copies, IngestIsFirst, IngestStamps, ReprocessApplied
<1> QED
  BY <1>1, <1>2, <1>3 DEF IInv, ItemsInv, PassesInv

LEMMA InvNext ==
  ASSUME NEW worker, Process = {worker}, "collect" \notin Others, IInv, [Next]_vars
  PROVE  IInv'
<1>1. TypeInv' /\ TypeOK'
  BY NextTypeInv DEF IInv, TypeInv
<1>2. ItemsInv' /\ PassesInv'
  <2>1. ASSUME NEW i \in Item, NEW s \in Record, Collect(i, s) \/ Revise(i, s) \/ Rejudge(i, s)
        PROVE  ItemsInv' /\ PassesInv'
    <3>1. Collect(i, s) \/ Revise(i, s) \/ Rejudge(i, s) \/ (Recollect(i) /\ s = src[i])
      BY <2>1
    <3> QED
      BY <3>1, CollectorStep
  <2>2. ASSUME NEW i \in Item, Recollect(i)
        PROVE  ItemsInv' /\ PassesInv'
    <3>1. src[i] \in Record
      BY <2>2, Facts DEF Recollect, Collected
    <3> QED
      BY <2>2, <3>1, CollectorStep
  <2>3. ASSUME NEW i \in Item, Enqueue(i) \/ Review(i)
        PROVE  ItemsInv' /\ PassesInv'
    BY <2>3, EnqueueStep, ReviewStep
  <2>4. ASSUME NEW i \in Item, NEW status \in Status \ {"FETCH_PENDING"},
               NEW text \in Text \cup {None}, NEW poster \in BOOLEAN,
               Acquire(i, status, text, poster)
        PROVE  ItemsInv' /\ PassesInv'
    BY <2>4, AcquireStep
  <2>12. ASSUME NEW i \in Item, NEW text \in Text, NEW poster \in BOOLEAN,
                Refresh(i, text, poster)
         PROVE  ItemsInv' /\ PassesInv'
    BY <2>12, RefreshStep
  <2>5. CASE Deploy
    BY <2>5, DeployStep
  <2>6. CASE Crash(worker) \/ Finish(worker)
    BY <2>6, CrashOrFinishStep
  <2>7. CASE StartIngest(worker)
    BY <1>1, <2>7, StartIngestStep
  <2>8. CASE StartReprocess(worker)
    BY <1>1, <2>8, StartReprocessStep
  <2>9. CASE IngestStep(worker)
    BY <2>9, IngestSignStep, IngestReadStep, IngestExtractStep, IngestFailOrMarkStep,
       IngestStampStep DEF IngestStep
  <2>10. CASE ReprocessStep(worker)
    BY <2>10, ReprocessReadStep, ReprocessExtractStep, ReprocessFailStep,
       ReprocessStampStep DEF ReprocessStep
  <2>11. CASE UNCHANGED vars
    <3>1. UNCHANGED <<src, row, served, post, reading, engine, pass>>
      BY <2>11 DEF vars
    <3> QED
      BY <3>1, ItemsUndisturbed, PassesUndisturbed
  <2> QED
    BY <2>1, <2>2, <2>3, <2>4, <2>5, <2>6, <2>7, <2>8, <2>9, <2>10, <2>11, <2>12
       DEF Next, Outside, PassStep
<1> QED
  BY <1>1, <1>2 DEF IInv, ItemsInv, PassesInv

(* A readable row that the queue passes over carries the running engine's  *)
(* stamp and a signature of what it now is.                                *)
LEMMA InvImpliesCurrent == IInv => ReadingIsCurrent
<1> SUFFICES ASSUME IInv, NEW i \in Plain, ClaimsCurrent(i) PROVE CurrentReading(i)
  BY DEF ReadingIsCurrent, Plain
<1>1. /\ ItemInv(i) /\ row[i] \in Row /\ i \in Item
      /\ Readable(row[i]) /\ ~Outdated(src[i], row[i], engine)
      /\ row[i].outcome = "EXTRACTED"
      /\ ~(row[i].status = "FETCH_BLOCKED" /\ served[i])
  BY Facts DEF ClaimsCurrent, NeedsReprocess, Plain
<1>2. row[i] # None /\ row[i].version = engine /\ ~RevisedSinceRead(src[i], row[i])
  BY <1>1, RowFields DEF Outdated
<1>3. reading[i] # None /\ reading[i].src = src[i] /\ reading[i].version = engine
  BY <1>1, <1>2 DEF ItemInv, StampIsBacked
<1>4. CASE row[i].status = "FETCHED" /\ row[i].text # None
  <2>1. ~row[i].unread
    BY <1>1, <1>4 DEF Outdated
  <2>2. row[i].sig = SignatureOf(src[i], row[i])
    BY <1>1, <1>2, <2>1 DEF ItemInv, ReadRowIsSigned, RevisedSinceRead
  <2>3. reading[i].body = row[i].text
    BY <1>1, <1>2, <1>4, <2>1, <2>2 DEF ItemInv, SignatureIsBacked, SignatureOf
  <2> QED
    BY <1>2, <1>3, <1>4, <2>3 DEF CurrentReading, BodyOf
<1>5. CASE row[i].status = "FETCH_BLOCKED"
  <2>1. reading[i].body = None
    BY <1>1, <1>3, <1>5 DEF ItemInv, UnservedHasNoBody
  <2> QED
    BY <1>3, <1>5, <2>1 DEF CurrentReading, BodyOf, Plain
<1> QED
  BY <1>1, <1>4, <1>5 DEF Readable

(* With one process running passes and no collection beside it, what the   *)
(* passes hold and what the rows claim stay true to each other.            *)
THEOREM ClaimsAreBacked ==
  ASSUME NEW CONSTANT worker, Process = {worker}, "collect" \notin Others
  PROVE  Spec => []IInv
<1>1. IInv /\ [Next]_vars => IInv'
  BY InvNext
<1> QED
  BY <1>1, InvInit, PTL DEF Spec

(* ... so no revision, fetch or release is lost: an item that says it was  *)
(* extracted and is not queued again was read as it now is.                *)
THEOREM NoRevisionIsLost ==
  ASSUME NEW CONSTANT worker, Process = {worker}, "collect" \notin Others
  PROVE  Spec => []ReadingIsCurrent
<1>1. Spec => []IInv
  BY ClaimsAreBacked
<1> QED
  BY <1>1, InvImpliesCurrent, PTL

(* A synthesized item that is not queued again has its present record read,*)
(* though settling its body stamps the row and forced fetches, which may   *)
(* run at any time, take the body away until a collection restores it.     *)
THEOREM SynthesizedIsRead ==
  ASSUME NEW CONSTANT worker, Process = {worker}, "collect" \notin Others
  PROVE  Spec => []SynthRecordIsRead
<1>1. ASSUME IInv PROVE SynthRecordIsRead
  <2> SUFFICES ASSUME NEW i \in Synth, ClaimsCurrent(i)
               PROVE  reading[i] # None /\ reading[i].src = src[i] /\ reading[i].version = engine
    BY DEF SynthRecordIsRead
  <2>1. i \in Item /\ row[i] # None /\ ~Outdated(src[i], row[i], engine)
        /\ Readable(row[i]) /\ row[i].outcome = "EXTRACTED"
    BY SynthAssumption DEF ClaimsCurrent, NeedsReprocess
  <2>2. row[i].version = engine
    BY <2>1 DEF Outdated
  <2> QED
    BY <1>1, <2>1, <2>2, Facts DEF ItemInv, StampIsBacked
<1>2. Spec => []IInv
  BY ClaimsAreBacked
<1> QED
  BY <1>1, <1>2, PTL

(* ---- what a re-reading keeps ------------------------------------------ *)

KeptItems == \A i \in Item : KeptItem(i)
KeptPasses == \A p \in Process : KeptPass(pass[p])

LEMMA KeptFacts ==
  ASSUME KeptInv, NEW i \in Item
  PROVE  /\ KeptItem(i) /\ TypeInv /\ RecordComesFirst(i)
         /\ row[i] \in Row \cup {None} /\ src[i] \in Record \cup {None}
         /\ reading[i] \in Reading \cup {None} /\ engine \in 1 .. MaxEngine
BY DEF KeptInv, TypeInv, TypeOK

LEMMA KeptUndisturbed ==
  ASSUME KeptInv, UNCHANGED <<src, row, served, reviewed, post, reading>>
  PROVE  KeptItems'
BY DEF KeptInv, KeptItems, KeptItem, UnservedHasNoBody, ServedHasBody,
   ReviewedHasCandidates, HasCandidates, PosterIsBacked

LEMMA IdleKept == KeptPass(Idle)'
BY DomainAssumption DEF KeptPass, Idle, IdleHoldsNothing, OneCopyOfEach, CurIsPosted, Copies,
   FirstReading, MayBeReread, RereadWithPoster

(* Nothing runs, or whatever runs beside the passes leaves them what they  *)
(* rely on.                                                                *)
LEMMA PassesKept ==
  ASSUME KeptInv, pass' = pass, UNCHANGED <<post, reading>>,
         Quiet \/ /\ \A i \in Item : served[i] => served'[i]
                  /\ NoReviewBeside => reviewed' = reviewed
                  /\ NoFetchBeside => \A i \in Item :
                       row[i] # None => row'[i].poster = row[i].poster
  PROVE  KeptPasses'
<1> SUFFICES ASSUME NEW p \in Process PROVE KeptPass(pass[p])'
  BY DEF KeptPasses
<1> DEFINE w == pass[p]
<1>1. KeptPass(w) /\ w' = w /\ PassHolds(w)
  BY DEF KeptInv, TypeInv
<1>2. w \in Pass /\ \A c \in Copies(w) : c.item \in Item
  <2>1. w \in Pass
    BY DEF KeptInv, TypeInv, TypeOK
  <2> QED
    BY <2>1, CopiesType DEF Copy
<1>3. ASSUME NEW c \in Copies(w)
      PROVE  KeptCopy(w, c)'
  <2>1. KeptCopy(w, c) /\ c.item \in Item /\ (w.job = "reprocess" => row[c.item] # None)
    BY <1>1, <1>2 DEF KeptPass, PassHolds
  <2>2. ~Quiet
    BY <1>1 DEF Quiet, KeptPass, IdleHoldsNothing, PassHolds, Copies
  <2> QED
    BY <1>1, <2>1, <2>2 DEF KeptCopy
<1>4. (IdleHoldsNothing(w) /\ OneCopyOfEach(w) /\ CurIsPosted(w) /\ FirstReading(w)
       /\ RereadWithPoster(w))'
  BY <1>1 DEF KeptPass, IdleHoldsNothing, OneCopyOfEach, Copies, CurIsPosted, FirstReading,
     RereadWithPoster
<1>5. MayBeReread(w)'
  <2> SUFFICES ASSUME w.job = "reprocess", w.step = "extract"
               PROVE  /\ ~BlockedBodyLost(w.cur.item, w.cur.row, w.cur.served)
                      /\ NoReviewBeside => ~reviewed'[w.cur.item]
    BY <1>1 DEF MayBeReread
  <2>1. ~Quiet
    BY DEF Quiet
  <2> QED
    BY <1>1, <2>1 DEF KeptPass, MayBeReread
<1> QED
  BY <1>1, <1>3, <1>4, <1>5 DEF KeptPass, Copies

(* ---- beside the passes ------------------------------------------------ *)

(* Settling or withdrawing a row leaves it as it was, or touches it.       *)
LEMMA SettledKeeps ==
  ASSUME NEW i \in Item, NEW h \in Hash, NEW r \in Row \cup {None},
         NEW u, u = Settled(i, h, r) \/ u = Withdrawn(Settled(i, h, r))
  PROVE  /\ r # None => u # None /\ u.poster = r.poster
         /\ u = None \/ u = r \/ u.touched
<1>2. NewRow \in Row /\ NewRow.touched
  BY NewRowType DEF NewRow
<1> DEFINE old == IF r = None THEN NewRow ELSE r
           v == [old EXCEPT !.status = "FETCHED", !.text = h, !.unread = FALSE,
                            !.touched = TRUE]
<1>3. old \in Row
  BY <1>2
<1>4. v # None /\ v.touched /\ v.poster = old.poster
  <2>1. v \in Row
    BY <1>3 DEF Row, Status, Body
  <2> HIDE DEF old
  <2>2. v.touched /\ v.poster = old.poster
    BY <1>3 DEF Row
  <2> HIDE DEF v
  <2> QED
    BY <2>1, <2>2, RowFields
<1>5. PICK s : s = Settled(i, h, r)
  OBVIOUS
<1>6. s = r \/ s = old \/ s = v
  BY <1>5 DEF Settled
<1> HIDE DEF v
<1>7. /\ r # None => s # None /\ s.poster = r.poster
      /\ s = None \/ s = r \/ s.touched
      /\ s \in Row \cup {None}
  <2>1. s \in Row \cup {None}
    BY <1>5, SettledType
  <2>2. old # None
    BY <1>3, RowFields
  <2>3. CASE r = None
    BY <1>2, <1>4, <1>6, <2>1, <2>2, <2>3
  <2>4. CASE r # None
    BY <1>4, <1>6, <2>1, <2>4
  <2> QED
    BY <2>3, <2>4
<1>8. CASE u = s
  BY <1>7, <1>8
<1>9. CASE u = Withdrawn(s) /\ s = None
  <2>1. u = s
    BY <1>9 DEF Withdrawn
  <2> QED
    BY <1>8, <2>1
<1>10. CASE u = Withdrawn(s) /\ s # None
  <2>1. u = [s EXCEPT !.version = 0, !.touched = TRUE] /\ s \in Row
    BY <1>7, <1>10 DEF Withdrawn
  <2>2. u.poster = s.poster /\ u.touched
    BY <2>1 DEF Row
  <2>3. u # None
    BY <2>1, WithdrawnFields, RowFields DEF Withdrawn
  <2> QED
    BY <1>7, <1>10, <2>2, <2>3
<1> QED
  BY <1>5, <1>8, <1>9, <1>10

LEMMA CollectorKeeps ==
  ASSUME KeptInv, NEW i \in Item, NEW s \in Record,
         Collect(i, s) \/ Revise(i, s) \/ Rejudge(i, s) \/ (Recollect(i) /\ s = src[i])
  PROVE  KeptItems' /\ KeptPasses'
<1> USE DEF collector, store
<1>1. UNCHANGED <<served, reviewed, post, reading, pass>> /\ (Quiet \/ "collect" \in Others)
  BY DEF Collect, Revise, Rejudge, Recollect, May
<1>2. \A j \in Item : j # i => row'[j] = row[j] /\ src'[j] = src[j]
  BY KeptFacts DEF Collect, Revise, Rejudge, Recollect, KeptInv, TypeInv, TypeOK
<1>3. row[i] \in Row \cup {None} /\ s.hash \in Hash /\ KeptItem(i)
  BY KeptFacts DEF Record
<1>4. \/ row'[i] = Settled(i, s.hash, row[i])
      \/ row'[i] = Withdrawn(Settled(i, s.hash, row[i]))
  BY DEF Collect, Revise, Rejudge, Recollect, KeptInv, TypeInv, TypeOK
<1>6. PICK u : u = row'[i]
  OBVIOUS
<1>7. /\ row[i] # None => u # None /\ u.poster = row[i].poster
      /\ u = None \/ u = row[i] \/ u.touched
  BY <1>3, <1>4, <1>6, SettledKeeps
<1>8. i \in Plain => \/ u = row[i]
                     \/ row[i] # None /\ u # None /\ u.status = row[i].status /\ u.text = row[i].text
  <2> SUFFICES ASSUME i \in Plain, u # row[i]
               PROVE  row[i] # None /\ u # None /\ u.status = row[i].status /\ u.text = row[i].text
    OBVIOUS
  <2>0. Settled(i, s.hash, row[i]) = row[i]
    BY PlainIsNotSettled
  <2>1. u = row[i] \/ u = Withdrawn(row[i])
    BY <1>4, <1>6, <2>0
  <2>2. Withdrawn(None) = None
    BY DEF Withdrawn
  <2>3. row[i] # None => /\ Withdrawn(row[i]) # None
                         /\ Withdrawn(row[i]).status = row[i].status
                         /\ Withdrawn(row[i]).text = row[i].text
    BY <1>3, WithdrawnFields, RowFields
  <2> QED
    BY <2>1, <2>2, <2>3
<1>9. KeptPasses'
  BY <1>1, <1>2, <1>6, <1>7, PassesKept
<1>10. ASSUME NEW j \in Item, j # i PROVE KeptItem(j)'
  BY <1>1, <1>2, <1>10, KeptFacts DEF KeptItem, UnservedHasNoBody, ServedHasBody,
     ReviewedHasCandidates, HasCandidates, PosterIsBacked
<1>11. KeptItem(i)'
  <2>1. i \in Plain => (UnservedHasNoBody(i) /\ ServedHasBody(i))'
    BY <1>1, <1>3, <1>6, <1>8 DEF KeptItem, UnservedHasNoBody, ServedHasBody
  <2>3. (ReviewedHasCandidates(i) /\ PosterIsBacked(i))'
    BY <1>1, <1>3, <1>6, <1>7 DEF KeptItem, ReviewedHasCandidates, HasCandidates, PosterIsBacked
  <2> QED
    BY <1>1, <1>3, <2>1, <2>3 DEF KeptItem
<1> QED
  BY <1>9, <1>10, <1>11 DEF KeptItems

LEMMA EnqueueKeeps ==
  ASSUME KeptInv, NEW i \in Item, Enqueue(i)
  PROVE  KeptItems' /\ KeptPasses'
<1> USE DEF collector, store
<1>1. UNCHANGED <<src, served, reviewed, post, reading, pass>>
  BY DEF Enqueue
<1>2. row[i] = None /\ src[i] # None /\ \A j \in Item : j # i => row'[j] = row[j]
  BY DEF Enqueue, Collected, KeptInv, TypeInv, TypeOK
<1>3. row'[i] = NewRow
  BY DEF Enqueue, KeptInv, TypeInv, TypeOK
<1>4. PICK u : u = row'[i] /\ u # None /\ u.text = None /\ u.touched
  <2>1. NewRow # None /\ NewRow.text = None /\ NewRow.touched
    BY NewRowFields, RowFields DEF NewRow
  <2> QED
    BY <1>3, <2>1
<1>5. KeptPasses'
  BY <1>1, <1>2, PassesKept
<1>6. ASSUME NEW j \in Item, j # i PROVE KeptItem(j)'
  BY <1>1, <1>2, <1>6, KeptFacts DEF KeptItem, UnservedHasNoBody, ServedHasBody,
     ReviewedHasCandidates, HasCandidates, PosterIsBacked
<1>7. KeptItem(i)'
  BY <1>1, <1>2, <1>4, KeptFacts DEF KeptItem, UnservedHasNoBody, ServedHasBody,
     ReviewedHasCandidates, HasCandidates, PosterIsBacked
<1> QED
  BY <1>5, <1>6, <1>7 DEF KeptItems

LEMMA AcquireKeeps ==
  ASSUME KeptInv, NEW i \in Item, NEW status \in Status, NEW text \in Text \cup {None},
         NEW poster \in BOOLEAN, Acquire(i, status, text, poster)
  PROVE  KeptItems' /\ KeptPasses'
<1> USE DEF collector, store
<1>1. UNCHANGED <<src, reviewed, post, reading, pass>>
  BY DEF Acquire
<1>2. \A j \in Item : j # i => row'[j] = row[j] /\ served'[j] = served[j]
  BY DEF Acquire, KeptInv, TypeInv, TypeOK
<1> DEFINE old == IF row[i] = None THEN NewRow ELSE row[i]
<1>3. PICK u : u = row'[i] /\ u # None /\ u.text = text /\ u.status = status /\ u.touched
  <2>1. old \in Row
    BY KeptFacts, NewRowFields
  <2>2. row'[i] = [old EXCEPT !.status = status, !.text = text, !.poster = poster,
                              !.unread = TRUE, !.touched = TRUE]
    BY DEF Acquire, KeptInv, TypeInv, TypeOK
  <2>3. row'[i] \in Row
    BY AcquireType DEF KeptInv, TypeInv
  <2> HIDE DEF old
  <2> QED
    BY <2>1, <2>2, <2>3, RowFields DEF Row
<1>4. served'[i] = (served[i] \/ text # None)
  BY DEF Acquire, KeptInv, TypeInv, TypeOK
<1>5. /\ (text # None) <=> (status = "FETCHED")
      /\ "reacquire" \notin Others => row[i] # None /\ row[i].status \in Retryable
      /\ Quiet \/ "acquire" \in Others \/ "reacquire" \in Others
      /\ src[i] # None
  BY DEF Acquire, May, Collected
<1>6. KeptPasses'
  BY <1>1, <1>2, <1>4, <1>5, PassesKept DEF NoFetchBeside
<1>7. ASSUME NEW j \in Item, j # i PROVE KeptItem(j)'
  BY <1>1, <1>2, <1>7, KeptFacts DEF KeptItem, UnservedHasNoBody, ServedHasBody,
     ReviewedHasCandidates, HasCandidates, PosterIsBacked
<1>8. KeptItem(i)'
  <2>1. KeptItem(i) /\ "FETCHED" \notin Retryable
    BY KeptFacts DEF Retryable
  <2>2. i \in Plain => (UnservedHasNoBody(i) /\ ServedHasBody(i))'
    BY <1>1, <1>3, <1>4, <1>5, <2>1 DEF KeptItem, UnservedHasNoBody, ServedHasBody
  <2>4. (ReviewedHasCandidates(i) /\ PosterIsBacked(i))'
    BY <1>1, <1>3, <2>1 DEF KeptItem, ReviewedHasCandidates, HasCandidates, PosterIsBacked
  <2> QED
    BY <1>1, <2>1, <2>2, <2>4 DEF KeptItem
<1> QED
  BY <1>6, <1>7, <1>8 DEF KeptItems

LEMMA RefreshKeeps ==
  ASSUME KeptInv, NEW i \in Item, NEW text \in Text, NEW poster \in BOOLEAN,
         Refresh(i, text, poster)
  PROVE  KeptItems' /\ KeptPasses'
<1> USE DEF collector, store
<1>1. UNCHANGED <<src, reviewed, post, reading, pass>>
  BY DEF Refresh
<1>2. \A j \in Item : j # i => row'[j] = row[j] /\ served'[j] = served[j]
  BY DEF Refresh, KeptInv, TypeInv, TypeOK
<1>3. served'[i] /\ row[i] # None /\ row[i].status = "FETCHED"
      /\ (Quiet \/ "refresh" \in Others)
  BY DEF Refresh, May, KeptInv, TypeInv, TypeOK
<1>4. PICK u : u = row'[i] /\ u # None /\ u.text # None /\ u.status = "FETCHED" /\ u.touched
  <2> DEFINE v == [row[i] EXCEPT !.text = text, !.poster = poster, !.unread = TRUE,
                                 !.touched = TRUE]
  <2>1. row[i] \in Row /\ text \in Body /\ text # None
    BY <1>3, KeptFacts, DomainAssumption DEF Body
  <2>2. v \in Row /\ v.text = text /\ v.status = "FETCHED"
    BY <1>3, <2>1 DEF Row
  <2>3. row'[i] = Withdrawn(v)
    BY DEF Refresh, KeptInv, TypeInv, TypeOK
  <2> HIDE DEF v
  <2>4. Withdrawn(v).touched
    BY <2>2, RowFields DEF Withdrawn, Row
  <2> QED
    BY <2>1, <2>2, <2>3, <2>4, WithdrawnFields, RowFields
<1>5. KeptPasses'
  BY <1>1, <1>2, <1>3, PassesKept DEF NoFetchBeside
<1>6. ASSUME NEW j \in Item, j # i PROVE KeptItem(j)'
  BY <1>1, <1>2, <1>6, KeptFacts DEF KeptItem, UnservedHasNoBody, ServedHasBody,
     ReviewedHasCandidates, HasCandidates, PosterIsBacked
<1>7. KeptItem(i)'
  BY <1>1, <1>3, <1>4, KeptFacts DEF KeptItem, UnservedHasNoBody, ServedHasBody,
     ReviewedHasCandidates, HasCandidates, PosterIsBacked
<1> QED
  BY <1>5, <1>6, <1>7 DEF KeptItems

LEMMA ReviewKeeps ==
  ASSUME KeptInv, NEW i \in Item, Review(i)
  PROVE  KeptItems' /\ KeptPasses'
<1> USE DEF collector, store
<1>1. UNCHANGED <<src, row, served, post, reading, pass>>
  BY DEF Review
<1>2. HasCandidates(i) /\ (Quiet \/ "review" \in Others)
  BY DEF Review, May
<1>3. \A j \in Item : j # i => reviewed'[j] = reviewed[j]
  BY DEF Review, KeptInv, TypeInv, TypeOK
<1>4. KeptPasses'
  BY <1>1, <1>2, PassesKept DEF NoReviewBeside
<1>5. KeptItems'
  <2> SUFFICES ASSUME NEW j \in Item PROVE KeptItem(j)'
    BY DEF KeptItems
  <2> QED
    BY <1>1, <1>2, <1>3, KeptFacts DEF KeptItem, UnservedHasNoBody, ServedHasBody,
       ReviewedHasCandidates, HasCandidates, PosterIsBacked
<1> QED
  BY <1>4, <1>5

LEMMA DeployKeeps ==
  ASSUME KeptInv, Deploy
  PROVE  KeptItems' /\ KeptPasses'
<1>1. UNCHANGED <<src, row, served, reviewed, post, reading>>
  BY DEF Deploy, collector, store
<1>2. KeptPasses'
  BY IdleKept DEF Deploy, KeptPasses
<1> QED
  BY <1>1, <1>2, KeptUndisturbed

(* ---- the steps of a pass ---------------------------------------------- *)

LEMMA WorkerKeeps ==
  ASSUME KeptInv, NEW worker, Process = {worker}, NEW w,
         pass' = [pass EXCEPT ![worker] = w], KeptPass(w)'
  PROVE  KeptPasses'
<1>1. pass'[worker] = w
  BY DEF KeptInv, TypeInv, TypeOK
<1> QED
  BY <1>1 DEF KeptPasses

LEMMA EndKeeps ==
  ASSUME KeptInv, NEW worker, Process = {worker}, Crash(worker) \/ Finish(worker)
  PROVE  KeptItems' /\ KeptPasses'
<1>1. UNCHANGED <<src, row, served, reviewed, post, reading>>
  BY DEF Crash, Finish, collector, store
<1>2. pass' = [pass EXCEPT ![worker] = Idle]
  BY DEF Crash, Finish
<1> QED
  BY <1>1, <1>2, KeptUndisturbed, WorkerKeeps, IdleKept

LEMMA StartIngestKeeps ==
  ASSUME KeptInv, TypeOK', NEW worker, Process = {worker}, StartIngest(worker)
  PROVE  KeptItems' /\ KeptPasses'
<1> DEFINE copy(i) == [item |-> i, src |-> src[i], row |-> None, sig |-> None,
                       reviewed |-> FALSE, served |-> FALSE]
           T == {copy(i) : i \in Pending}
           W == [Idle EXCEPT !.job = "ingest", !.todo = T]
<1>1. UNCHANGED <<src, row, served, reviewed, post, reading>>
  BY DEF StartIngest, collector, store
<1>2. pass' = [pass EXCEPT ![worker] = W]
  BY DEF StartIngest
<1>3. \A c \in T : c.src = src[c.item] /\ c.row = None
  OBVIOUS
<1>4. PICK t : t = T
  OBVIOUS
<1>5. PICK w : w = [Idle EXCEPT !.job = "ingest", !.todo = t]
  OBVIOUS
<1>6. w.job = "ingest" /\ w.todo = t /\ w.cur = None /\ w.step = "next"
  BY <1>5 DEF Idle
<1>7. KeptPass(w)'
  <2>1. \A c \in Copies(w) : KeptCopy(w, c)'
    BY <1>1, <1>3, <1>4, <1>6 DEF Copies, KeptCopy, BodyOf
  <2>2. \A c, d \in t : c.item = d.item => c = d
    <3>1. \A c \in t : c = copy(c.item)
      BY <1>4
    <3> QED
      BY <3>1
  <2>3. None \notin t
    <3>1. pass'[worker].todo \subseteq Copy
      BY PassFields DEF TypeOK
    <3>2. t = pass'[worker].todo
      BY <1>2, <1>4, <1>5, <1>6 DEF KeptInv, TypeInv, TypeOK
    <3> QED
      BY <3>1, <3>2, DomainAssumption
  <2>4. OneCopyOfEach(w)'
    BY <1>6, <2>2, <2>3 DEF OneCopyOfEach, Copies
  <2> QED
    BY <1>6, <2>1, <2>4 DEF KeptPass, IdleHoldsNothing, CurIsPosted, FirstReading,
       MayBeReread, RereadWithPoster, Copies
<1> QED
  BY <1>1, <1>2, <1>4, <1>5, <1>7, KeptUndisturbed, WorkerKeeps

LEMMA StartReprocessKeeps ==
  ASSUME KeptInv, TypeOK', NEW worker, Process = {worker}, StartReprocess(worker)
  PROVE  KeptItems' /\ KeptPasses'
<1> DEFINE copy(i) == [item |-> i, src |-> src[i], row |-> row[i],
                       sig |-> SignatureOf(src[i], row[i]),
                       reviewed |-> reviewed[i], served |-> served[i]]
           T(b) == {copy(i) : i \in b}
           W(t) == [Idle EXCEPT !.job = "reprocess", !.todo = t]
<1>1. UNCHANGED <<src, row, served, reviewed, post, reading>>
  BY DEF StartReprocess, collector, store
<1>2. \A i \in Selectable : i \in Item /\ row[i] # None /\ Readable(row[i])
  BY DEF Selectable, NeedsReprocess, Outdated, Readable
<1>3. PICK b \in SUBSET Item :
        /\ pass' = [pass EXCEPT ![worker] = W(T(b))]
        /\ \/ b \subseteq Selectable
           \/ "force" \in Others /\ b \subseteq {i \in Item : row[i] # None}
  <2> HIDE DEF T, W
  <2>1. PICK queue \in {Selectable} \cup
               (IF "force" \in Others THEN {{i \in Item : row[i] # None}} ELSE {}) :
          \E b \in Batches(queue) : pass' = [pass EXCEPT ![worker] = W(T(b))]
    BY DEF StartReprocess, T, W
  <2>2. PICK b \in SUBSET queue : pass' = [pass EXCEPT ![worker] = W(T(b))]
    BY <2>1 DEF Batches
  <2>3. \/ queue = Selectable
        \/ "force" \in Others /\ queue = {i \in Item : row[i] # None}
    BY <2>1
  <2>4. Selectable \subseteq Item
    BY DEF Selectable
  <2>5. queue \subseteq Item
    BY <2>3, <2>4
  <2> QED
    BY <2>2, <2>3, <2>5
<1>4. \A c \in T(b) : /\ c.item \in b /\ c.src = src[c.item] /\ c.row = row[c.item]
                      /\ c.reviewed = reviewed[c.item] /\ c.served = served[c.item]
  OBVIOUS
<1>5. PICK t : t = T(b)
  OBVIOUS
<1>6. PICK w : w = W(t)
  OBVIOUS
<1>7. w.job = "reprocess" /\ w.todo = t /\ w.cur = None /\ w.step = "next"
  BY <1>6 DEF Idle
<1>8. KeptPass(w)'
  <2>1. ASSUME NEW c \in Copies(w)
        PROVE  KeptCopy(w, c)'
    <3>1. /\ c.item \in b /\ c.item \in Item /\ c.src = src[c.item] /\ c.row = row[c.item]
          /\ c.reviewed = reviewed[c.item] /\ c.served = served[c.item]
      BY <1>4, <1>5, <1>7 DEF Copies
    <3>2. KeptItem(c.item) /\ row[c.item] # None /\ row[c.item] \in Row
          /\ src[c.item] \in Record
      BY <1>2, <1>3, <3>1, KeptFacts DEF RecordComesFirst
    <3>3. c.item \in Plain /\ c.row.text # None => served[c.item]
      BY <3>1, <3>2 DEF KeptItem, UnservedHasNoBody
    <3>5. c.item \in Plain /\ ~c.served =>
            c.row.text = None /\ (reading[c.item] # None => reading[c.item].body = None)
      BY <3>1, <3>2 DEF KeptItem, UnservedHasNoBody
    <3>6. c.item \in Plain /\ c.served /\ NoForceBeside => Readable(c.row)
      BY <1>2, <1>3, <3>1, <3>2 DEF NoForceBeside, KeptItem, ServedHasBody, Readable
    <3> QED
      BY <1>1, <1>7, <3>1, <3>3, <3>5, <3>6 DEF KeptCopy
  <2>2. \A c, d \in t : c.item = d.item => c = d
    BY <1>5
  <2>3. None \notin t
    <3>1. pass'[worker].todo \subseteq Copy
      BY PassFields DEF TypeOK
    <3>2. t = pass'[worker].todo
      BY <1>3, <1>5, <1>6, <1>7 DEF KeptInv, TypeInv, TypeOK
    <3> QED
      BY <3>1, <3>2, DomainAssumption
  <2>4. OneCopyOfEach(w)'
    BY <1>7, <2>2, <2>3 DEF OneCopyOfEach, Copies
  <2> QED
    BY <1>7, <2>1, <2>4 DEF KeptPass, IdleHoldsNothing, CurIsPosted, FirstReading,
       MayBeReread, RereadWithPoster, Copies
<1> QED
  BY <1>1, <1>3, <1>5, <1>6, <1>8, KeptUndisturbed, WorkerKeeps

(* What a step knows of the item in hand.                                  *)
LEMMA KeptInHand ==
  ASSUME KeptInv, NEW worker \in Process, pass[worker].step # "next"
  PROVE  LET w == pass[worker]  c == w.cur  i == c.item IN
         /\ KeptPass(w) /\ PassHolds(w) /\ w \in Pass
         /\ c \in Copies(w) /\ c \in Copy /\ c # None /\ i \in Item
         /\ KeptCopy(w, c) /\ KeptItem(i) /\ c.row \in Row \cup {None}
<1>1. PassHolds(pass[worker]) /\ KeptPass(pass[worker]) /\ TypeInv
  BY DEF KeptInv, TypeInv
<1>2. pass[worker].cur \in Copies(pass[worker])
  BY <1>1 DEF PassHolds, Copies
<1>3. pass[worker].cur \in Copy /\ pass[worker] \in Pass
  BY <1>1, PassFacts
<1>4. pass[worker].cur.item \in Item /\ pass[worker].cur.row \in Row \cup {None}
  BY <1>3 DEF Copy
<1> QED
  BY <1>1, <1>2, <1>3, <1>4, KeptFacts, DomainAssumption DEF KeptPass

(* A pass that lets go of its item relies on less.                         *)
LEMMA ReleasedKeeps ==
  ASSUME KeptInv, NEW worker \in Process, NEW w, w = Released(pass[worker]),
         pass[worker].job # "none", pass[worker].step # "next",
         UNCHANGED <<src, served, reviewed, reading>>,
         \A i \in Item : i # pass[worker].cur.item => row'[i] = row[i]
  PROVE  KeptPass(w)'
<1>1. w.cur = None /\ w.step = "next" /\ w.todo = pass[worker].todo
      /\ w.job = pass[worker].job
  BY PassFacts DEF Released, Pass, KeptInv
<1>2. ASSUME NEW c \in Copies(w)
      PROVE  KeptCopy(w, c)'
  <2>1. c \in pass[worker].todo /\ c \in Copies(pass[worker]) /\ c.item \in Item
    BY <1>1, PassFacts DEF Copies, KeptInv
  <2>2. KeptCopy(pass[worker], c) /\ OneCopyOfEach(pass[worker])
    BY <2>1 DEF KeptInv, KeptPass
  <2>3. c.item # pass[worker].cur.item
    BY <2>1, <2>2, KeptInHand DEF OneCopyOfEach
  <2> QED
    BY <1>1, <2>1, <2>2, <2>3 DEF KeptCopy
<1>3. OneCopyOfEach(w)'
  <2>1. OneCopyOfEach(pass[worker]) /\ pass[worker].todo \subseteq Copy
    BY PassFacts DEF KeptInv, KeptPass
  <2> QED
    BY <1>1, <2>1, DomainAssumption DEF OneCopyOfEach, Copies
<1> QED
  BY <1>1, <1>2, <1>3 DEF KeptPass, IdleHoldsNothing, CurIsPosted, FirstReading, MayBeReread,
     RereadWithPoster, Copies

(* A step that keeps the pass's copies and their rows keeps what they say. *)
LEMMA CopiesKeep ==
  ASSUME KeptInv, NEW worker \in Process, NEW w,
         w.todo = pass[worker].todo, w.cur = pass[worker].cur, w.job = pass[worker].job,
         w.job # "none", UNCHANGED <<src, row, served, reviewed>>,
         \A c \in Copies(w) : w.job = "reprocess" /\ c.item \in Plain /\ ~c.served =>
           reading'[c.item] = reading[c.item] \/ reading'[c.item].body = None
  PROVE  /\ (IdleHoldsNothing(w) /\ OneCopyOfEach(w))'
         /\ \A c \in Copies(w) : KeptCopy(w, c)'
<1>1. KeptPass(pass[worker]) /\ Copies(w) = Copies(pass[worker])
  BY DEF KeptInv, Copies
<1>2. ASSUME NEW c \in Copies(w)
      PROVE  KeptCopy(w, c)'
  <2>1. KeptCopy(pass[worker], c)
    BY <1>1 DEF KeptPass
  <2> QED
    BY <2>1 DEF KeptCopy
<1> QED
  BY <1>1, <1>2 DEF KeptPass, OneCopyOfEach, IdleHoldsNothing, Copies

(* A stamp or a recorded failure keeps the body and the poster, and is not *)
(* taken for a reading with the poster that was none.                      *)
LEMMA StampKeeps ==
  ASSUME KeptInv, NEW i \in Item, row[i] # None, row'[i] # None,
         UNCHANGED <<src, served, reviewed, post, reading>>,
         \A j \in Item : j # i => row'[j] = row[j],
         row'[i].status = row[i].status, row'[i].text = row[i].text,
         row'[i].poster = row[i].poster,
         \/ row'[i].touched
         \/ NoFetchBeside /\ row'[i].outcome = "EXTRACTED" =>
              reading[i] # None /\ reading[i].poster = row[i].poster
  PROVE  KeptItems'
<1>1. ASSUME NEW j \in Item, j # i PROVE KeptItem(j)'
  BY <1>1, KeptFacts DEF KeptItem, UnservedHasNoBody, ServedHasBody,
     ReviewedHasCandidates, HasCandidates, PosterIsBacked
<1>2. KeptItem(i)'
  <2>1. i \in Plain => (UnservedHasNoBody(i) /\ ServedHasBody(i))'
    BY KeptFacts DEF KeptItem, UnservedHasNoBody, ServedHasBody
  <2>3. (ReviewedHasCandidates(i) /\ PosterIsBacked(i))'
    BY KeptFacts DEF KeptItem, ReviewedHasCandidates, HasCandidates, PosterIsBacked
  <2> QED
    BY <2>1, <2>3, KeptFacts DEF KeptItem
<1> QED
  BY <1>1, <1>2 DEF KeptItems

(* persist_raw_post() adds a post.                                         *)
LEMMA PostKeeps ==
  ASSUME KeptInv, UNCHANGED <<src, row, served, reviewed, reading>>,
         \A j \in Item : post[j] => post'[j]
  PROVE  KeptItems'
<1> SUFFICES ASSUME NEW j \in Item PROVE KeptItem(j)'
  BY DEF KeptItems
<1> QED
  BY KeptFacts DEF KeptItem, UnservedHasNoBody, ServedHasBody,
     ReviewedHasCandidates, HasCandidates, PosterIsBacked

(* A reading of a copy says what the copy held.                            *)
LEMMA ReadingKeeps ==
  ASSUME KeptInv, NEW worker \in Process, NEW c \in Copies(pass[worker]), NEW found,
         c.item \in Item, post[c.item],
         reading' = [reading EXCEPT ![c.item] = ReadingOf(c, found)],
         ReadingOf(c, found) # None,
         UNCHANGED <<src, row, served, reviewed, post>>,
         NoReviewBeside => ~reviewed[c.item],
         \/ reading[c.item] = None
         \/ NoFetchBeside => /\ ReadingOf(c, found).poster = c.row.poster
                             /\ row[c.item].poster = c.row.poster
  PROVE  KeptItems'
<1> DEFINE i == c.item
<1>1. KeptCopy(pass[worker], c) /\ KeptItem(i)
  BY KeptFacts DEF KeptInv, KeptPass
<1>2. /\ reading'[i] = ReadingOf(c, found)
      /\ \A j \in Item : j # i => reading'[j] = reading[j]
  BY DEF KeptInv, TypeInv, TypeOK
<1>3. ASSUME NEW j \in Item, j # i PROVE KeptItem(j)'
  BY <1>2, <1>3, KeptFacts DEF KeptItem, UnservedHasNoBody, ServedHasBody,
     ReviewedHasCandidates, HasCandidates, PosterIsBacked
<1>4. PICK d : d = ReadingOf(c, found) /\ d # None /\ d.src = c.src
               /\ d.body = BodyOf(i, c.src, c.row)
  BY ReadingFields
<1>5. i \in Plain => (UnservedHasNoBody(i) /\ ServedHasBody(i))'
  BY <1>1, <1>2, <1>4 DEF KeptItem, KeptCopy, UnservedHasNoBody, ServedHasBody, BodyOf, Plain
<1>7. ReviewedHasCandidates(i)'
  BY DEF ReviewedHasCandidates
<1>8. PosterIsBacked(i)'
  BY <1>1, <1>2, <1>4 DEF KeptItem, PosterIsBacked
<1> QED
  BY <1>3, <1>5, <1>7, <1>8 DEF KeptItems, KeptItem

LEMMA IngestSignKeeps ==
  ASSUME KeptInv, NEW worker, Process = {worker}, IngestSign(worker)
  PROVE  KeptItems' /\ KeptPasses'
<1> DEFINE v == pass[worker]
<1>1. UNCHANGED <<src, row, served, reviewed, post, reading>>
  BY DEF IngestSign, collector, store
<1>2. PICK d \in v.todo : \E sig :
        pass' = [pass EXCEPT ![worker] = [v EXCEPT !.todo = @ \ {d}, !.step = "read",
                                                   !.cur = [d EXCEPT !.sig = sig]]]
  <2> DEFINE sign(d) == IF row[d.item] = None THEN None ELSE SignatureOf(src[d.item], row[d.item])
  <2>1. PICK d \in v.todo :
          pass' = [pass EXCEPT ![worker] = [v EXCEPT !.todo = @ \ {d}, !.step = "read",
                                                     !.cur = [d EXCEPT !.sig = sign(d)]]]
    BY DEF IngestSign
  <2> HIDE DEF sign
  <2> QED
    BY <2>1
<1>3. v \in Pass /\ v.job = "ingest" /\ d \in Copy /\ v.todo \subseteq Copy /\ d \in Copies(v)
  BY PassFacts DEF IngestSign, KeptInv, Copies
<1>4. PICK e : /\ pass' = [pass EXCEPT ![worker] = [v EXCEPT !.todo = @ \ {d}, !.step = "read",
                                                              !.cur = e]]
               /\ \E sig : e = [d EXCEPT !.sig = sig]
  BY <1>2
<1>5. e.item = d.item /\ e.src = d.src /\ e.row = d.row
  BY <1>3, <1>4 DEF Copy
<1>6. PICK w : w = [v EXCEPT !.todo = @ \ {d}, !.step = "read", !.cur = e]
  OBVIOUS
<1>7. w.job = "ingest" /\ w.todo = v.todo \ {d} /\ w.cur = e /\ w.step = "read"
  BY <1>3, <1>6 DEF Pass
<1>8. KeptPass(v)
  BY DEF KeptInv
<1>9. KeptPass(w)'
  <2>1. ASSUME NEW c \in Copies(w)
        PROVE  KeptCopy(w, c)'
    <3>1. KeptCopy(v, d) /\ (c # e => KeptCopy(v, c))
      BY <1>3, <1>7, <1>8 DEF KeptPass, Copies
    <3> QED
      BY <1>1, <1>3, <1>5, <1>7, <3>1 DEF KeptCopy
  <2>2. OneCopyOfEach(w)'
    <3>1. \A x, y \in v.todo : x.item = y.item => x = y
      BY <1>8 DEF KeptPass, OneCopyOfEach, Copies
    <3> QED
      BY <1>5, <1>7, <3>1 DEF OneCopyOfEach, Copies
  <2> QED
    BY <1>7, <2>1, <2>2 DEF KeptPass, IdleHoldsNothing, CurIsPosted, FirstReading,
       MayBeReread, RereadWithPoster, Copies
<1> QED
  BY <1>1, <1>4, <1>6, <1>9, KeptUndisturbed, WorkerKeeps

LEMMA IngestReadKeeps ==
  ASSUME KeptInv, NEW worker, Process = {worker}, IngestRead(worker)
  PROVE  KeptItems' /\ KeptPasses'
<1> DEFINE v == pass[worker]
           c == v.cur
           i == c.item
<1>1. UNCHANGED <<src, row, served, reviewed, reading>>
  BY DEF IngestRead
<1>2. v.job = "ingest" /\ v.step = "read"
  BY DEF IngestRead
<1>3. /\ KeptPass(v) /\ v \in Pass /\ c \in Copies(v) /\ c \in Copy /\ i \in Item
      /\ KeptCopy(v, c) /\ KeptItem(i)
  BY <1>2, KeptInHand
<1>4. CASE i \in Linkless
  <2>1. post' = post /\ pass' = [pass EXCEPT ![worker] = Released(v)]
    BY <1>4 DEF IngestRead
  <2>2. PICK w : w = Released(v)
    OBVIOUS
  <2>3. KeptPass(w)'
    BY <1>1, <1>2, <2>2, ReleasedKeeps
  <2> QED
    BY <1>1, <2>1, <2>2, <2>3, KeptUndisturbed, WorkerKeeps
<1>5. CASE i \notin Linkless
  <2>1. PICK e, new : /\ e = [c EXCEPT !.row = row[i]] /\ new = ~post[i]
    OBVIOUS
  <2>2. e.item = i /\ e.src = c.src /\ e.row = row[i]
    BY <1>3, <2>1 DEF Copy
  <2>3. PICK w : w = [v EXCEPT !.step = "extract", !.new = new, !.cur = e]
    OBVIOUS
  <2>4. /\ w.job = "ingest" /\ w.todo = v.todo /\ w.cur = e /\ w.step = "extract"
        /\ w.new = new
    BY <1>2, <1>3, <2>3 DEF Pass
  <2>5. /\ pass' = [pass EXCEPT ![worker] = w]
        /\ post' = [post EXCEPT ![i] = TRUE]
    BY <1>5, <2>1, <2>3 DEF IngestRead
  <2>6. post'[i] /\ \A j \in Item : j # i => post'[j] = post[j]
    BY <1>3, <2>5 DEF KeptInv, TypeInv, TypeOK
  <2>7. KeptPass(w)'
    <3>1. ASSUME NEW d \in Copies(w)
          PROVE  KeptCopy(w, d)'
      <4>1. CASE d = e
        <5>2. row[i] # None /\ row[i].text # None /\ i \in Plain => served[i]
          BY <1>3 DEF KeptItem, UnservedHasNoBody
        <5> QED
          BY <1>1, <1>2, <1>3, <2>2, <2>4, <4>1, <5>2 DEF KeptCopy
      <4>2. CASE d \in v.todo
        BY <1>1, <1>2, <1>3, <2>4, <4>2 DEF KeptCopy, KeptPass, Copies
      <4> QED
        BY <2>4, <4>1, <4>2 DEF Copies
    <3>2. OneCopyOfEach(w)'
      <4>1. \A x, y \in Copies(v) : x.item = y.item => x = y
        BY <1>3 DEF KeptPass, OneCopyOfEach
      <4>2. c \notin v.todo /\ v.todo \subseteq Copies(v)
        BY <1>3 DEF KeptPass, OneCopyOfEach, Copies
      <4> QED
        BY <1>3, <2>2, <2>4, <4>1, <4>2 DEF OneCopyOfEach, Copies
    <3>3. FirstReading(w)'
      BY <1>1, <1>3, <2>1, <2>2, <2>4 DEF FirstReading, KeptItem
    <3> QED
      BY <2>2, <2>4, <2>6, <3>1, <3>2, <3>3 DEF KeptPass, IdleHoldsNothing, CurIsPosted,
         MayBeReread, RereadWithPoster, Copies
  <2>8. KeptItems'
    BY <1>1, <2>6, PostKeeps
  <2> QED
    BY <2>5, <2>7, <2>8, WorkerKeeps
<1> QED
  BY <1>4, <1>5

LEMMA IngestExtractKeeps ==
  ASSUME KeptInv, NEW worker, Process = {worker}, IngestExtract(worker)
  PROVE  KeptItems' /\ KeptPasses'
<1> DEFINE v == pass[worker]
           c == v.cur
           i == c.item
<1>1. UNCHANGED <<src, row, served, reviewed, post>>
  BY DEF IngestExtract, collector
<1>2. v.job = "ingest" /\ v.step = "extract"
  BY DEF IngestExtract
<1>3. /\ KeptPass(v) /\ v \in Pass /\ c \in Copies(v) /\ c \in Copy /\ i \in Item
      /\ KeptCopy(v, c) /\ KeptItem(i)
  BY <1>2, KeptInHand
<1>4. PICK w : w = [v EXCEPT !.step = "mark"]
  OBVIOUS
<1>5. /\ w.job = "ingest" /\ w.todo = v.todo /\ w.cur = c /\ w.step = "mark"
      /\ w.new = v.new
  BY <1>2, <1>3, <1>4 DEF Pass
<1>6. pass' = [pass EXCEPT ![worker] = w]
  BY <1>4 DEF IngestExtract
<1>7. /\ (IdleHoldsNothing(w) /\ OneCopyOfEach(w))'
      /\ \A d \in Copies(w) : KeptCopy(w, d)'
  BY <1>1, <1>2, <1>5, CopiesKeep
<1>8. post[i]
  BY <1>2, <1>3 DEF KeptPass, CurIsPosted
<1>9. KeptPasses'
  <2>1. KeptPass(w)'
    BY <1>1, <1>5, <1>7, <1>8 DEF KeptPass, CurIsPosted, FirstReading, MayBeReread,
       RereadWithPoster, Copies
  <2> QED
    BY <1>6, <2>1, WorkerKeeps
<1>10. CASE v.new
  <2>1. PICK found \in Found : reading' = [reading EXCEPT ![i] = ReadingOf(c, found)]
    BY <1>10 DEF IngestExtract, FoundIn, Found
  <2>2. ReadingOf(c, found) # None
    BY <1>3, KeptFacts, ReadingOfType, DomainAssumption
  <2>3. reading[i] = None
    BY <1>2, <1>3, <1>10 DEF KeptPass, FirstReading
  <2>4. NoReviewBeside => ~reviewed[i]
    BY <1>3, <2>3 DEF KeptItem, ReviewedHasCandidates, HasCandidates
  <2>5. KeptItems'
    BY <1>1, <1>3, <1>8, <2>1, <2>2, <2>3, <2>4, ReadingKeeps
  <2> QED
    BY <1>9, <2>5
<1>11. CASE ~v.new
  <2>1. reading' = reading
    BY <1>11 DEF IngestExtract
  <2> QED
    BY <1>1, <1>9, <2>1, KeptUndisturbed
<1> QED
  BY <1>3, <1>10, <1>11 DEF Pass

LEMMA IngestFailOrMarkKeeps ==
  ASSUME KeptInv, NEW worker, Process = {worker}, IngestFail(worker) \/ IngestMark(worker)
  PROVE  KeptItems' /\ KeptPasses'
<1> DEFINE v == pass[worker]
           c == v.cur
<1>1. UNCHANGED <<src, row, served, reviewed, post, reading>>
  BY DEF IngestFail, IngestMark, store
<1>2. v.job = "ingest" /\ v.step \in {"extract", "mark"}
  BY DEF IngestFail, IngestMark
<1>3. KeptPass(v) /\ v \in Pass /\ c \in Copies(v)
  BY <1>2, KeptInHand
<1>4. CASE pass' = [pass EXCEPT ![worker] = Released(v)]
  <2>1. PICK w : w = Released(v)
    OBVIOUS
  <2>2. KeptPass(w)'
    BY <1>1, <1>2, <2>1, ReleasedKeeps
  <2> QED
    BY <1>1, <1>4, <2>1, <2>2, KeptUndisturbed, WorkerKeeps
<1>5. CASE v.step = "mark" /\ pass' = [pass EXCEPT ![worker] = [v EXCEPT !.step = "stamp"]]
  <2>1. PICK w : w = [v EXCEPT !.step = "stamp"]
    OBVIOUS
  <2>2. w.job = "ingest" /\ w.todo = v.todo /\ w.cur = c /\ w.step = "stamp"
    BY <1>2, <1>3, <2>1 DEF Pass
  <2>3. /\ (IdleHoldsNothing(w) /\ OneCopyOfEach(w))'
        /\ \A d \in Copies(w) : KeptCopy(w, d)'
    BY <1>1, <1>2, <2>2, CopiesKeep
  <2>4. KeptPass(w)'
    BY <1>1, <1>2, <1>3, <1>5, <2>2, <2>3 DEF KeptPass, CurIsPosted, FirstReading,
       MayBeReread, RereadWithPoster, Copies
  <2> QED
    BY <1>1, <1>5, <2>1, <2>4, KeptUndisturbed, WorkerKeeps
<1> QED
  BY <1>2, <1>4, <1>5 DEF IngestFail, IngestMark

LEMMA IngestStampKeeps ==
  ASSUME KeptInv, NEW worker, Process = {worker}, IngestStamp(worker)
  PROVE  KeptItems' /\ KeptPasses'
<1> DEFINE v == pass[worker]
           c == v.cur
<1>1. UNCHANGED <<src, served, reviewed, post, reading>>
  BY DEF IngestStamp, collector, store
<1>2. v.job = "ingest" /\ v.step = "stamp"
  BY DEF IngestStamp
<1>3. PICK i \in Item : i = c.item /\ PassHolds(v) /\ c \in Copies(v)
  BY <1>2, KeptInHand
<1>4. row[i] \in Row /\ \A j \in Item : j # i => row'[j] = row[j]
  BY <1>2, <1>3, KeptFacts DEF PassHolds, IngestStamp, KeptInv, TypeInv, TypeOK
<1>5. row'[i] = StampedByIngest(row[i], c.sig, engine)
  BY <1>3 DEF IngestStamp, KeptInv, TypeInv, TypeOK
<1>6. /\ row'[i].status = row[i].status /\ row'[i].text = row[i].text
      /\ row'[i].poster = row[i].poster /\ row'[i].touched
  BY <1>4, <1>5 DEF StampedByIngest, Row
<1>7. row[i] # None /\ row'[i] # None
  <2>1. StampedByIngest(row[i], c.sig, engine) \in Row
    BY <1>3, <1>4, KeptFacts, StampedTypes, PassFacts, <1>2 DEF KeptInv, Copy
  <2> QED
    BY <1>4, <1>5, <2>1, RowFields
<1>8. KeptItems'
  BY <1>1, <1>4, <1>6, <1>7, StampKeeps
<1>9. PICK w : w = Released(v)
  OBVIOUS
<1>10. KeptPass(w)'
  BY <1>1, <1>2, <1>3, <1>4, <1>9, ReleasedKeeps
<1>11. pass' = [pass EXCEPT ![worker] = w]
  BY <1>9 DEF IngestStamp
<1> QED
  BY <1>8, <1>10, <1>11, WorkerKeeps

LEMMA ReprocessReadKeeps ==
  ASSUME KeptInv, NEW worker, Process = {worker}, ReprocessRead(worker)
  PROVE  KeptItems' /\ KeptPasses'
<1> DEFINE v == pass[worker]
           next(d) == IF Verdict(d) = None THEN "extract" ELSE "stamp"
<1>1. UNCHANGED <<src, row, served, reviewed, reading>>
  BY DEF ReprocessRead, collector
<1>2. PICK d \in v.todo :
        /\ post' = [post EXCEPT ![d.item] = TRUE]
        /\ pass' = [pass EXCEPT ![worker] = [v EXCEPT !.todo = @ \ {d}, !.cur = d,
                                               !.step = next(d), !.out = Verdict(d)]]
  BY ZenonT(60) DEF ReprocessRead
<1>3. PICK step, out : /\ step = next(d) /\ out = Verdict(d)
                       /\ step = "extract" \/ step = "stamp"
                       /\ step = "extract" => Verdict(d) = None
                       /\ out # "EXTRACTED"
  BY DomainAssumption DEF Verdict, Outcome
<1>4. /\ v \in Pass /\ v.job = "reprocess" /\ v.todo \subseteq Copies(v)
      /\ d.item \in Item /\ KeptPass(v) /\ KeptItem(d.item) /\ KeptCopy(v, d)
  <2>1. /\ v \in Pass /\ v.job = "reprocess" /\ v.todo \subseteq Copies(v)
        /\ d.item \in Item /\ KeptPass(v)
    BY PassFacts DEF ReprocessRead, KeptInv, Copies
  <2> QED
    BY <2>1, KeptFacts DEF KeptPass
<1>5. PICK w : w = [v EXCEPT !.todo = @ \ {d}, !.cur = d, !.step = step, !.out = out]
  OBVIOUS
<1>6. /\ w.job = "reprocess" /\ w.todo = v.todo \ {d} /\ w.cur = d /\ w.step = step
      /\ w.out = out
  BY <1>4, <1>5 DEF Pass
<1>7. post'[d.item] /\ \A j \in Item : j # d.item => post'[j] = post[j]
  BY <1>2, <1>4 DEF KeptInv, TypeInv, TypeOK
<1>8. step = "extract" => /\ ~BlockedBodyLost(d.item, d.row, d.served)
                          /\ NoReviewBeside => ~reviewed[d.item]
  <2> SUFFICES ASSUME step = "extract"
               PROVE  /\ ~BlockedBodyLost(d.item, d.row, d.served)
                      /\ NoReviewBeside => ~reviewed[d.item]
    OBVIOUS
  <2>1. ~KeepsReviewed(d) /\ ~BlockedBodyLost(d.item, d.row, d.served)
    BY <1>3, DomainAssumption DEF Verdict, Outcome
  <2>2. NoReviewBeside => ~(d.reviewed /\ HasCandidates(d.item))
    BY <2>1 DEF KeepsReviewed, HoldsReviewed, NoReviewBeside
  <2>3. NoReviewBeside => d.reviewed = reviewed[d.item]
    BY <1>4 DEF KeptCopy
  <2> QED
    BY <1>4, <2>1, <2>2, <2>3 DEF KeptItem, ReviewedHasCandidates
<1>9. KeptPass(w)'
  <2>1. Copies(w) \subseteq Copies(v)
    BY <1>4, <1>6 DEF Copies
  <2>2. \A c \in Copies(w) : KeptCopy(w, c)'
    BY <1>1, <1>4, <1>6, <2>1 DEF KeptPass, KeptCopy
  <2>3. OneCopyOfEach(w)'
    BY <1>4, <1>6, <2>1 DEF KeptPass, OneCopyOfEach, Copies
  <2>4. MayBeReread(w)'
    BY <1>1, <1>6, <1>8 DEF MayBeReread
  <2> QED
    BY <1>3, <1>6, <1>7, <2>2, <2>3, <2>4 DEF KeptPass, IdleHoldsNothing, CurIsPosted,
       FirstReading, RereadWithPoster, Copies
<1>10. KeptItems'
  BY <1>1, <1>7, PostKeeps
<1>11. pass' = [pass EXCEPT ![worker] = w]
  BY <1>2, <1>3, <1>5
<1> QED
  BY <1>9, <1>10, <1>11, WorkerKeeps

(* The engine is given the copy's poster, if it has one.                   *)
LEMMA ReadingPoster ==
  ASSUME NEW c, NEW found, c.row \in Row
  PROVE  ReadingOf(c, found).poster = c.row.poster
<1>1. c.row # None /\ c.row.poster \in BOOLEAN
  BY RowFields DEF Row
<1>2. ReadingOf(c, found).poster = (c.row # None /\ c.row.poster)
  BY DEF ReadingOf
<1> QED
  BY <1>1, <1>2

LEMMA ReprocessExtractKeeps ==
  ASSUME KeptInv, NEW worker, Process = {worker}, ReprocessExtract(worker)
  PROVE  KeptItems' /\ KeptPasses'
<1> DEFINE v == pass[worker]
<1>1. UNCHANGED <<src, row, served, reviewed, post>>
  BY DEF ReprocessExtract, collector
<1>2. v.job = "reprocess" /\ v.step = "extract"
  BY DEF ReprocessExtract
<1>3. PICK c \in Copies(v), i \in Item :
        /\ c = v.cur /\ i = c.item /\ KeptPass(v) /\ PassHolds(v) /\ v \in Pass
        /\ c \in Copy /\ KeptCopy(v, c) /\ KeptItem(i) /\ c.row \in Row \cup {None}
  BY <1>2, KeptInHand
<1>4. post[i] /\ c.row \in Row
  BY <1>2, <1>3 DEF KeptPass, CurIsPosted, PassHolds
<1>5. ASSUME NEW out, pass' = [pass EXCEPT ![worker].step = "stamp", ![worker].out = out],
             \A j \in Item : j # i => reading'[j] = reading[j],
             \/ reading'[i] = reading[i]
             \/ i \in Plain /\ ~c.served => reading'[i].body = None,
             out = "EXTRACTED" => reading'[i] # None /\ reading'[i].poster = c.row.poster
      PROVE  KeptPasses'
  <2>1. PICK w : w = [v EXCEPT !.step = "stamp", !.out = out]
    OBVIOUS
  <2>2. /\ w.job = "reprocess" /\ w.todo = v.todo /\ w.cur = c /\ w.step = "stamp"
        /\ w.out = out
    BY <1>2, <1>3, <2>1 DEF Pass
  <2>3. ASSUME NEW d \in Copies(w), d.item \in Plain, ~d.served
        PROVE  reading'[d.item] = reading[d.item] \/ reading'[d.item].body = None
    <3>1. d.item = i => d = c
      BY <1>3, <2>2, <2>3 DEF KeptPass, OneCopyOfEach, Copies
    <3> QED
      BY <1>3, <1>5, <2>3, <3>1 DEF Plain
  <2>4. /\ (IdleHoldsNothing(w) /\ OneCopyOfEach(w))'
        /\ \A d \in Copies(w) : KeptCopy(w, d)'
    BY <1>1, <1>2, <1>3, <2>2, <2>3, CopiesKeep
  <2>5. KeptPass(w)'
    BY <1>1, <1>3, <1>4, <1>5, <2>2, <2>4 DEF KeptPass, CurIsPosted, FirstReading,
       MayBeReread, RereadWithPoster, Copies
  <2>6. pass' = [pass EXCEPT ![worker] = w]
    BY <1>5, <2>1
  <2> QED
    BY <2>5, <2>6, WorkerKeeps
<1>6. CASE reading' = reading /\ \E out \in {"PRESERVED_IMAGE_EVIDENCE_LOST", "KEPT_HUMAN_REVIEWED"} :
             pass' = [pass EXCEPT ![worker].step = "stamp", ![worker].out = out]
  <2>1. KeptPasses'
    BY <1>5, <1>6
  <2> QED
    BY <1>1, <1>6, <2>1, KeptUndisturbed
<1>7. ASSUME NEW found \in Found, reading' = [reading EXCEPT ![i] = ReadingOf(c, found)],
             pass' = [pass EXCEPT ![worker].step = "stamp", ![worker].out = "EXTRACTED"]
      PROVE  KeptItems' /\ KeptPasses'
  <2>1. /\ reading'[i] = ReadingOf(c, found) /\ ReadingOf(c, found) # None
        /\ \A j \in Item : j # i => reading'[j] = reading[j]
    BY <1>3, <1>7, KeptFacts, ReadingOfType, DomainAssumption DEF KeptInv, TypeInv, TypeOK
  <2>2. PICK d : /\ d = ReadingOf(c, found) /\ d.poster = c.row.poster
                 /\ d.body = BodyOf(i, c.src, c.row)
    BY <1>3, <1>4, ReadingPoster, ReadingFields
  <2>3. KeptPasses'
    <3>1. i \in Plain /\ ~c.served => d.body = None
      BY <1>2, <1>3, <2>2 DEF KeptCopy, BodyOf, Plain
    <3> QED
      BY <1>5, <1>7, <2>1, <2>2, <3>1
  <2>4. KeptItems'
    <3>1. NoReviewBeside => ~reviewed[i]
      BY <1>2, <1>3 DEF KeptPass, MayBeReread
    <3>2. NoFetchBeside => row[i].poster = c.row.poster
      BY <1>2, <1>3 DEF KeptCopy
    <3> QED
      BY <1>1, <1>3, <1>4, <1>7, <2>1, <2>2, <3>1, <3>2, ReadingKeeps
  <2> QED
    BY <2>3, <2>4
<1>8. HoldsReviewed(c) => reading[i].found \in Found
  BY <1>3, KeptFacts DEF HoldsReviewed, HasCandidates, Reading
<1>9. \/ reading' = reading /\ \E out \in {"PRESERVED_IMAGE_EVIDENCE_LOST", "KEPT_HUMAN_REVIEWED"} :
           pass' = [pass EXCEPT ![worker].step = "stamp", ![worker].out = out]
      \/ \E found \in Found :
           /\ reading' = [reading EXCEPT ![i] = ReadingOf(c, found)]
           /\ pass' = [pass EXCEPT ![worker].step = "stamp", ![worker].out = "EXTRACTED"]
  BY <1>3, <1>8 DEF ReprocessExtract, FoundIn, Found
<1> QED
  BY <1>6, <1>7, <1>9

LEMMA ReprocessFailKeeps ==
  ASSUME KeptInv, NEW worker, Process = {worker}, ReprocessFail(worker)
  PROVE  KeptItems' /\ KeptPasses'
<1> DEFINE v == pass[worker]
<1>1. UNCHANGED <<src, served, reviewed, post, reading>>
  BY DEF ReprocessFail, collector, store
<1>2. v.job = "reprocess" /\ v.step = "extract"
  BY DEF ReprocessFail
<1>3. PICK i \in Item : i = v.cur.item /\ row[i] \in Row
  <2>1. LET i == v.cur.item IN i \in Item /\ row[i] # None
    BY <1>2, KeptInHand DEF PassHolds
  <2> QED
    BY <2>1, KeptFacts
<1>4. row'[i] = FailedAgain(row[i]) /\ \A j \in Item : j # i => row'[j] = row[j]
  BY <1>3 DEF ReprocessFail, KeptInv, TypeInv, TypeOK
<1>5. /\ row'[i].status = row[i].status /\ row'[i].text = row[i].text
      /\ row'[i].poster = row[i].poster /\ row'[i].touched
  BY <1>3, <1>4 DEF FailedAgain, Row
<1>6. row[i] # None /\ row'[i] # None
  <2>1. row[i].attempts \in 0 .. MaxAttempts /\ MaxAttempts \in Nat
    BY <1>3, DomainAssumption DEF Row
  <2>2. (IF row[i].attempts < MaxAttempts THEN row[i].attempts + 1 ELSE row[i].attempts)
           \in 0 .. MaxAttempts
    BY <2>1
  <2>3. FailedAgain(row[i]) \in Row
    BY <1>3, <2>2 DEF FailedAgain, Row
  <2> QED
    BY <1>3, <1>4, <2>3, RowFields
<1>7. KeptItems'
  BY <1>1, <1>4, <1>5, <1>6, StampKeeps
<1>8. PICK w : w = Released(v)
  OBVIOUS
<1>9. KeptPass(w)'
  BY <1>1, <1>2, <1>3, <1>4, <1>8, ReleasedKeeps
<1>10. pass' = [pass EXCEPT ![worker] = w]
  BY <1>8 DEF ReprocessFail
<1> QED
  BY <1>7, <1>9, <1>10, WorkerKeeps

LEMMA ReprocessStampKeeps ==
  ASSUME KeptInv, NEW worker, Process = {worker}, ReprocessStamp(worker)
  PROVE  KeptItems' /\ KeptPasses'
<1> DEFINE v == pass[worker]
<1>1. UNCHANGED <<src, served, reviewed, post, reading>>
  BY DEF ReprocessStamp, collector, store
<1>2. v.job = "reprocess" /\ v.step = "stamp"
  BY DEF ReprocessStamp
<1>3. PICK c \in Copies(v), i \in Item :
        /\ c = v.cur /\ i = c.item /\ KeptPass(v) /\ PassHolds(v) /\ v \in Pass
        /\ c \in Copy /\ KeptCopy(v, c)
  BY <1>2, KeptInHand
<1>4. row[i] \in Row /\ \A j \in Item : j # i => row'[j] = row[j]
  BY <1>2, <1>3, KeptFacts DEF PassHolds, ReprocessStamp, KeptInv, TypeInv, TypeOK
<1>5. row'[i] = StampedByReprocess(row[i], c.sig, engine, v.out)
  BY <1>3 DEF ReprocessStamp, KeptInv, TypeInv, TypeOK
<1>6. /\ row'[i].status = row[i].status /\ row'[i].text = row[i].text
      /\ row'[i].poster = row[i].poster /\ row'[i].outcome = v.out
  BY <1>4, <1>5 DEF StampedByReprocess, Row
<1>7. row[i] # None /\ row'[i] # None
  <2>1. StampedByReprocess(row[i], c.sig, engine, v.out) \in Row
    BY <1>3, <1>4, KeptFacts, StampedTypes, PassFields DEF Copy
  <2> QED
    BY <1>4, <1>5, <2>1, RowFields
<1>8. NoFetchBeside /\ v.out = "EXTRACTED" =>
        reading[i] # None /\ reading[i].poster = row[i].poster
  BY <1>2, <1>3 DEF KeptPass, RereadWithPoster, KeptCopy
<1>9. KeptItems'
  BY <1>1, <1>4, <1>6, <1>7, <1>8, StampKeeps
<1>10. PICK w : w = Released(v)
  OBVIOUS
<1>11. KeptPass(w)'
  BY <1>1, <1>2, <1>3, <1>4, <1>10, ReleasedKeeps
<1>12. pass' = [pass EXCEPT ![worker] = w]
  BY <1>10 DEF ReprocessStamp
<1> QED
  BY <1>9, <1>11, <1>12, WorkerKeeps

(* ---- the theorems about re-readings ----------------------------------- *)

LEMMA KeptInit == Init => KeptInv
<1> SUFFICES ASSUME Init PROVE KeptInv
  OBVIOUS
<1>1. TypeInv
  BY InitTypeInv
<1>2. KeptItems
  BY DEF Init, KeptItems, KeptItem, UnservedHasNoBody, ServedHasBody,
     ReviewedHasCandidates, PosterIsBacked
<1>3. KeptPasses
  BY DomainAssumption DEF Init, KeptPasses, KeptPass, Idle, IdleHoldsNothing, OneCopyOfEach,
     CurIsPosted, Copies, FirstReading, MayBeReread, RereadWithPoster
<1> QED
  BY <1>1, <1>2, <1>3 DEF KeptInv, KeptItems, KeptPasses

LEMMA KeptNext ==
  ASSUME NEW worker, Process = {worker}, KeptInv, [Next]_vars
  PROVE  KeptInv'
<1>1. TypeInv' /\ TypeOK'
  BY NextTypeInv DEF KeptInv, TypeInv
<1>2. KeptItems' /\ KeptPasses'
  <2>1. ASSUME NEW i \in Item, NEW s \in Record, Collect(i, s) \/ Revise(i, s) \/ Rejudge(i, s)
        PROVE  KeptItems' /\ KeptPasses'
    <3>1. Collect(i, s) \/ Revise(i, s) \/ Rejudge(i, s) \/ (Recollect(i) /\ s = src[i])
      BY <2>1
    <3> QED
      BY <3>1, CollectorKeeps
  <2>2. ASSUME NEW i \in Item, Recollect(i)
        PROVE  KeptItems' /\ KeptPasses'
    <3>1. src[i] \in Record
      BY <2>2, KeptFacts DEF Recollect, Collected
    <3> QED
      BY <2>2, <3>1, CollectorKeeps
  <2>3. ASSUME NEW i \in Item, Enqueue(i) \/ Review(i)
        PROVE  KeptItems' /\ KeptPasses'
    BY <2>3, EnqueueKeeps, ReviewKeeps
  <2>4. ASSUME NEW i \in Item, NEW status \in Status \ {"FETCH_PENDING"},
               NEW text \in Text \cup {None}, NEW poster \in BOOLEAN,
               Acquire(i, status, text, poster)
        PROVE  KeptItems' /\ KeptPasses'
    BY <2>4, AcquireKeeps
  <2>5. ASSUME NEW i \in Item, NEW text \in Text, NEW poster \in BOOLEAN,
               Refresh(i, text, poster)
        PROVE  KeptItems' /\ KeptPasses'
    BY <2>5, RefreshKeeps
  <2>6. CASE Deploy
    BY <2>6, DeployKeeps
  <2>7. CASE Crash(worker) \/ Finish(worker)
    BY <2>7, EndKeeps
  <2>8. CASE StartIngest(worker)
    BY <1>1, <2>8, StartIngestKeeps
  <2>9. CASE StartReprocess(worker)
    BY <1>1, <2>9, StartReprocessKeeps
  <2>10. CASE IngestStep(worker)
    BY <2>10, IngestSignKeeps, IngestReadKeeps, IngestExtractKeeps, IngestFailOrMarkKeeps,
       IngestStampKeeps DEF IngestStep
  <2>11. CASE ReprocessStep(worker)
    BY <2>11, ReprocessReadKeeps, ReprocessExtractKeeps, ReprocessFailKeeps,
       ReprocessStampKeeps DEF ReprocessStep
  <2>12. CASE UNCHANGED vars
    <3>1. UNCHANGED <<src, row, served, reviewed, post, reading, pass>>
      BY <2>12 DEF vars
    <3> QED
      BY <3>1, KeptUndisturbed, PassesKept
  <2> QED
    BY <2>1, <2>2, <2>3, <2>4, <2>5, <2>6, <2>7, <2>8, <2>9, <2>10, <2>11, <2>12
       DEF Next, Outside, PassStep
<1> QED
  BY <1>1, <1>2 DEF KeptInv, KeptItems, KeptPasses

(* Whoever runs beside the one process of passes, its copies and the rows  *)
(* go on saying what a re-reading must keep.                               *)
THEOREM RereadingsKeep ==
  ASSUME NEW CONSTANT worker, Process = {worker}
  PROVE  Spec => []KeptInv
<1>1. KeptInv /\ [Next]_vars => KeptInv'
  BY KeptNext
<1> QED
  BY <1>1, KeptInit, PTL DEF Spec

(* What a step makes of the engine's candidates.                           *)
LEMMA ReadingStep ==
  ASSUME NEW worker, Process = {worker}, KeptInv, [Next]_vars, NEW i \in Item
  PROVE  \/ reading'[i] = reading[i]
         \/ IngestExtract(worker) /\ reading[i] = None
         \/ /\ ReprocessExtract(worker)
            /\ \E c \in Copies(pass[worker]) :
                 /\ c.item = i /\ c = pass[worker].cur /\ c.row \in Row
                 /\ KeptCopy(pass[worker], c) /\ MayBeReread(pass[worker])
                 /\ reading'[i].body = BodyOf(i, c.src, c.row)
<1> DEFINE v == pass[worker]
<1>1. reading \in [Item -> Reading \cup {None}]
  BY DEF KeptInv, TypeInv, TypeOK
<1>2. reading' = reading \/ IngestExtract(worker) \/ ReprocessExtract(worker)
  <2>1. CASE Outside
    BY <2>1 DEF Outside, Collect, Revise, Rejudge, Recollect, Enqueue, Review, Acquire, Refresh,
       Deploy, Crash, store
  <2>2. CASE PassStep(worker)
    BY <2>2 DEF PassStep, StartIngest, StartReprocess, Finish, IngestStep, IngestSign, IngestRead,
       IngestFail, IngestMark, IngestStamp, ReprocessStep, ReprocessRead, ReprocessFail,
       ReprocessStamp, store
  <2>3. CASE UNCHANGED vars
    BY <2>3 DEF vars
  <2> QED
    BY <2>1, <2>2, <2>3 DEF Next
<1>3. CASE IngestExtract(worker)
  <2>1. v.job = "ingest" /\ v.step = "extract"
    BY <1>3 DEF IngestExtract
  <2>2. KeptPass(v)
    BY <2>1, KeptInHand
  <2>3. reading' = reading
        \/ (v.new /\ \E d : reading' = [reading EXCEPT ![v.cur.item] = d])
    <3>1. CASE v.new
      <4>1. PICK found : reading' = [reading EXCEPT ![v.cur.item] = ReadingOf(v.cur, found)]
        BY <1>3, <3>1 DEF IngestExtract
      <4> QED
        BY <3>1, <4>1
    <3>2. ~v.new => reading' = reading
      BY <1>3 DEF IngestExtract
    <3> QED
      BY <3>1, <3>2
  <2>4. v.new => reading[v.cur.item] = None
    BY <2>1, <2>2 DEF KeptPass, FirstReading
  <2> QED
    BY <1>1, <1>3, <2>3, <2>4
<1>4. CASE ReprocessExtract(worker)
  <2>1. v.job = "reprocess" /\ v.step = "extract"
    BY <1>4 DEF ReprocessExtract
  <2>2. PICK c \in Copies(v) : /\ c = v.cur /\ KeptPass(v) /\ PassHolds(v) /\ KeptCopy(v, c)
                               /\ c.row \in Row \cup {None}
    BY <2>1, KeptInHand
  <2>3. c.row \in Row
    BY <2>1, <2>2 DEF PassHolds
  <2>4. reading' = reading
        \/ \E found : reading' = [reading EXCEPT ![c.item] = ReadingOf(c, found)]
    BY <1>4, <2>2 DEF ReprocessExtract
  <2>5. CASE reading' # reading /\ c.item = i
    <3>1. reading'[i].body = BodyOf(i, c.src, c.row)
      BY <1>1, <2>4, <2>5, ReadingFields
    <3> QED
      BY <1>4, <2>2, <2>3, <2>5, <3>1 DEF KeptPass
  <2> QED
    BY <1>1, <2>4, <2>5
<1> QED
  BY <1>2, <1>3, <1>4

BodyStep == \A i \in Item \ (LongSnippet \cup Synth) :
              reading[i] # None /\ reading[i].body # None => reading'[i].body # None

(* A fetched article's reading is never replaced by one of the bare        *)
(* snippet: reprocess_acquired() asks the fetch log before the engine, and *)
(* ingest_pending() extracts a post the store did not hold.  A forced      *)
(* fetch beside a forced re-extraction can leave an item without a body    *)
(* that is re-read all the same, so not both run beside a pass.            *)
THEOREM BodyIsKept ==
  ASSUME NEW CONSTANT worker, Process = {worker}, NoForceBeside
  PROVE  Spec => BodyNeverDowngraded
<1>1. ASSUME KeptInv, [Next]_vars
      PROVE  [BodyStep]_vars
  <2> SUFFICES ASSUME NEW i \in Item \ (LongSnippet \cup Synth),
                      reading[i] # None, reading[i].body # None
               PROVE  reading'[i].body # None
    BY DEF BodyStep
  <2>1. i \in Item /\ i \in Plain /\ i \notin LongSnippet
    BY DEF Plain
  <2>2. CASE ReprocessExtract(worker) /\
             \E c \in Copies(pass[worker]) :
               /\ c.item = i /\ c = pass[worker].cur /\ c.row \in Row
               /\ KeptCopy(pass[worker], c) /\ MayBeReread(pass[worker])
               /\ reading'[i].body = BodyOf(i, c.src, c.row)
    <3>1. pass[worker].job = "reprocess" /\ pass[worker].step = "extract"
      BY <2>2 DEF ReprocessExtract
    <3>2. PICK c \in Copies(pass[worker]) :
               /\ c.item = i /\ c = pass[worker].cur /\ c.row \in Row
               /\ KeptCopy(pass[worker], c) /\ MayBeReread(pass[worker])
               /\ reading'[i].body = BodyOf(i, c.src, c.row)
      BY <2>2
    <3>3. c.served /\ Readable(c.row)
      BY <2>1, <3>1, <3>2 DEF KeptCopy
    <3>4. c.row.status # "FETCH_BLOCKED"
      BY <2>1, <3>1, <3>2, <3>3 DEF MayBeReread, BlockedBodyLost
    <3> QED
      BY <3>2, <3>3, <3>4, RowFields DEF Readable, BodyOf
  <2> QED
    BY <1>1, <2>1, <2>2, ReadingStep
<1>2. [BodyStep]_vars => [\A i \in Item \ (LongSnippet \cup Synth) :
         reading[i] # None /\ reading[i].body # None => reading'[i].body # None]_vars
  BY DEF BodyStep
<1>3. Spec => []KeptInv
  BY RereadingsKeep
<1> QED
  BY <1>1, <1>2, <1>3, PTL DEF Spec, BodyNeverDowngraded

ReviewedStep == \A i \in Item : reviewed[i] => reading'[i] = reading[i]

(* Outside review-aware mode no pass re-reads an item a person has acted   *)
(* on.  A review beside a pass, after its snapshot, goes unseen: none does.*)
THEOREM ReviewedStaysAsItIs ==
  ASSUME NEW CONSTANT worker, Process = {worker}, NoReviewBeside
  PROVE  Spec => ReviewedIsKept
<1>1. ASSUME KeptInv, [Next]_vars
      PROVE  [ReviewedStep]_vars
  <2> SUFFICES ASSUME NEW i \in Item, reviewed[i] PROVE reading'[i] = reading[i]
    BY DEF ReviewedStep
  <2>1. reading[i] # None
    BY <1>1, KeptFacts DEF KeptItem, ReviewedHasCandidates, HasCandidates
  <2>2. ReprocessExtract(worker) => pass[worker].job = "reprocess" /\ pass[worker].step = "extract"
    BY DEF ReprocessExtract
  <2> QED
    BY <1>1, <2>1, <2>2, ReadingStep DEF MayBeReread
<1>2. [ReviewedStep]_vars => [\A i \in Item : reviewed[i] => reading'[i] = reading[i]]_vars
  BY DEF ReviewedStep
<1>3. Spec => []KeptInv
  BY RereadingsKeep
<1> QED
  BY <1>1, <1>2, <1>3, PTL DEF Spec, ReviewedIsKept

(* The poster of a blocked fetch reaches the engine: a row that no longer  *)
(* asks to be read again was read with it.  A fetch beside a pass can      *)
(* bring a poster after the copy was taken, and the stamp hides it.        *)
THEOREM PosterReachesTheEngine ==
  ASSUME NEW CONSTANT worker, Process = {worker}, NoFetchBeside
  PROVE  Spec => []PosterIsRead
<1>1. ASSUME KeptInv PROVE PosterIsRead
  <2> SUFFICES ASSUME NEW i \in Item, row[i] # None, row[i].status = "FETCH_BLOCKED",
                      row[i].poster, ~NeedsReprocess(i), row[i].outcome = "EXTRACTED"
               PROVE  reading[i].poster
    BY DEF PosterIsRead
  <2>1. ~row[i].touched
    BY DEF NeedsReprocess, Outdated
  <2> QED
    BY <1>1, <2>1, KeptFacts DEF KeptItem, PosterIsBacked
<1>2. Spec => []KeptInv
  BY RereadingsKeep
<1> QED
  BY <1>1, <1>2, PTL

=============================================================================
