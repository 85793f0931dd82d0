----------------------- MODULE AcquisitionQueueProofs -----------------------
(***************************************************************************)
(* AcquisitionQueue is type correct, and a tick leaves every settled,      *)
(* refused or exhausted row alone as long as the console fetches nothing   *)
(* while a tick runs.  The argument: what stands in line or on the tick's  *)
(* list is scheduled, a scheduled row is never terminal, and the one fetch *)
(* of a step is of the head of a list without repetitions.                 *)
(***************************************************************************)
EXTENDS AcquisitionQueue, FiniteSetTheorems, SequenceTheorems, TLAPS

(* ---- sequences without repetitions ------------------------------------ *)

(* What is left of a list when one entry leaves it.                        *)
LEMMA WithoutIsPart ==
  ASSUME NEW S, NEW q \in Seq(S), IsInjective(q), NEW i
  PROVE  /\ Without(q, i) \in Seq(S) /\ IsInjective(Without(q, i))
         /\ \A m \in 1 .. Len(Without(q, i)) :
              Without(q, i)[m] # i /\ Contains(q, Without(q, i)[m])
<1>0. Len(q) \in Nat /\ DOMAIN q = 1 .. Len(q) /\ \A m \in 1 .. Len(q) : q[m] \in S
  BY LenProperties, ElementOfSeq
<1>1. CASE ~Contains(q, i)
  BY <1>0, <1>1 DEF Without, Contains
<1>2. CASE Contains(q, i)
  <2> DEFINE k == CHOOSE k \in DOMAIN q : q[k] = i
             a == SubSeq(q, 1, k - 1)
             b == SubSeq(q, k + 1, Len(q))
             r == a \o b
  <2>1. k \in 1 .. Len(q) /\ q[k] = i
    BY <1>0, <1>2 DEF Contains
  <2> HIDE DEF k
  <2>2. /\ a \in Seq(S) /\ Len(a) = k - 1
        /\ \A m \in 1 .. k - 1 : a[m] = q[m]
    <3>1. \A m \in 1 .. k - 1 : q[m] \in S
      BY <1>0, <2>1
    <3>2. 1 \in Int /\ k - 1 \in Int
      BY <1>0, <2>1
    <3> QED  BY <3>1, <3>2, <2>1, <1>0, SubSeqProperties
  <2>3. /\ b \in Seq(S) /\ Len(b) = Len(q) - k
        /\ \A m \in 1 .. Len(q) - k : b[m] = q[k + m]
    <3>1. \A m \in k + 1 .. Len(q) : q[m] \in S
      BY <1>0, <2>1
    <3>2. k + 1 \in Int /\ Len(q) \in Int
      BY <1>0, <2>1
    <3>3. /\ b \in Seq(S)
          /\ Len(b) = IF k + 1 <= Len(q) THEN Len(q) - (k + 1) + 1 ELSE 0
          /\ \A m \in 1 .. Len(q) - (k + 1) + 1 : b[m] = q[(k + 1) + m - 1]
      BY <3>1, <3>2, SubSeqProperties
    <3>4. \A m \in 1 .. Len(q) - k : (k + 1) + m - 1 = k + m
      BY <2>1, <1>0
    <3>5. Len(q) - (k + 1) + 1 = Len(q) - k
      BY <2>1, <1>0
    <3>6. ASSUME ~(k + 1 <= Len(q))
          PROVE  Len(q) - k = 0
      <4>1. k \in Nat /\ Len(q) \in Nat /\ k <= Len(q)
        BY <2>1, <1>0
      <4> QED  BY <4>1, <3>6
    <3> QED  BY <3>3, <3>4, <3>5, <3>6
  <2> HIDE DEF a, b
  <2>4. /\ r \in Seq(S) /\ Len(r) = Len(q) - 1
        /\ \A m \in 1 .. Len(r) : r[m] = IF m < k THEN q[m] ELSE q[m + 1]
    <3>1. /\ r \in Seq(S) /\ Len(r) = Len(a) + Len(b)
          /\ \A m \in 1 .. Len(a) + Len(b) :
               r[m] = IF m <= Len(a) THEN a[m] ELSE b[m - Len(a)]
      BY <2>2, <2>3, ConcatProperties
    <3> HIDE DEF r
    <3>3. Len(r) = Len(q) - 1 /\ k - 1 \in Nat
      BY <3>1, <2>1, <2>2, <2>3, <1>0
    <3>2. ASSUME NEW m \in 1 .. Len(r)
          PROVE  r[m] = IF m < k THEN q[m] ELSE q[m + 1]
      <4>1. CASE m < k
        BY <4>1, <3>1, <3>3, <2>1, <2>2, <2>3, <1>0
      <4>2. CASE ~(m < k)
        <5>1. m - (k - 1) \in 1 .. Len(q) - k /\ k + (m - (k - 1)) = m + 1
          BY <4>2, <3>3, <2>1, <1>0
        <5>2. b[m - (k - 1)] = q[m + 1]
          BY <5>1, <2>3
        <5> QED  BY <5>1, <5>2, <4>2, <3>1, <3>3, <2>1, <2>2, <2>3, <1>0
      <4> QED  BY <4>1, <4>2
    <3> QED  BY <3>1, <3>2, <3>3
  <2>5. Without(q, i) = r
    BY <1>2 DEF Without, RemoveAt, k, a, b
  <2> HIDE DEF r
  <2>6. DOMAIN r = 1 .. Len(r)
    BY <2>4, LenProperties
  <2>7. IsInjective(r)
    <3> SUFFICES ASSUME NEW m \in 1 .. Len(r), NEW n \in 1 .. Len(r), r[m] = r[n]
                 PROVE  m = n
      BY <2>6 DEF IsInjective
    <3>1. (IF m < k THEN q[m] ELSE q[m + 1]) = (IF n < k THEN q[n] ELSE q[n + 1])
      BY <2>4
    <3>2. \A x, y \in 1 .. Len(q) : q[x] = q[y] => x = y
      BY <1>0 DEF IsInjective
    <3> QED  BY <3>1, <3>2, <2>1, <2>4, <1>0
  <2>8. ASSUME NEW m \in 1 .. Len(r)
        PROVE  r[m] # i /\ Contains(q, r[m])
    <3>1. PICK x \in 1 .. Len(q) : x # k /\ r[m] = q[x]
      BY <2>1, <2>4, <1>0
    <3> QED  BY <3>1, <2>1, <1>0 DEF IsInjective, Contains
  <2> QED  BY <2>4, <2>5, <2>7, <2>8
<1> QED  BY <1>1, <1>2

(* The tick's list is the beginning of the line.                           *)
LEMMA DueListIsPart ==
  ASSUME NEW S, NEW q \in Seq(S), IsInjective(q)
  PROVE  /\ DueList(q) \in Seq(S) /\ IsInjective(DueList(q))
         /\ \A m \in 1 .. Len(DueList(q)) : Contains(q, DueList(q)[m])
<1>0. Len(q) \in Nat /\ DOMAIN q = 1 .. Len(q) /\ \A m \in 1 .. Len(q) : q[m] \in S
  BY LenProperties, ElementOfSeq
<1> DEFINE n == IF Len(q) < Limit THEN Len(q) ELSE Limit
<1>1. n \in Nat /\ n <= Len(q)
  <2>1. Limit \in Nat
    BY QueueAssumption DEF QueueAssumption
  <2>2. CASE Len(q) < Limit
    BY <1>0, <2>1, <2>2
  <2>3. CASE ~(Len(q) < Limit)
    BY <1>0, <2>1, <2>3
  <2> QED  BY <2>2, <2>3
<1> HIDE DEF n
<1>2. /\ SubSeq(q, 1, n) \in Seq(S) /\ Len(SubSeq(q, 1, n)) = n
      /\ \A m \in 1 .. n : SubSeq(q, 1, n)[m] = q[m]
  <2>1. \A m \in 1 .. n : q[m] \in S
    BY <1>0, <1>1
  <2>2. /\ SubSeq(q, 1, n) \in Seq(S)
        /\ Len(SubSeq(q, 1, n)) = IF 1 <= n THEN n - 1 + 1 ELSE 0
        /\ \A m \in 1 .. n - 1 + 1 : SubSeq(q, 1, n)[m] = q[1 + m - 1]
    BY <2>1, <1>1, SubSeqProperties
  <2> QED  BY <2>2, <1>1
<1>3. DueList(q) = SubSeq(q, 1, n)
  BY DEF DueList, n
<1>4. DOMAIN DueList(q) = 1 .. n
  BY <1>2, <1>3, LenProperties
<1> QED  BY <1>0, <1>1, <1>2, <1>3, <1>4 DEF IsInjective, Contains

(* Two lists with nothing in common make one without repetitions.          *)
LEMMA JoinedIsInjective ==
  ASSUME NEW S, NEW p \in Seq(S), NEW q \in Seq(S), IsInjective(p), IsInjective(q),
         \A m \in 1 .. Len(p), n \in 1 .. Len(q) : p[m] # q[n]
  PROVE  /\ p \o q \in Seq(S) /\ IsInjective(p \o q)
         /\ \A i : Contains(p \o q, i) => Contains(p, i) \/ Contains(q, i)
<1>0. /\ Len(p) \in Nat /\ Len(q) \in Nat
      /\ DOMAIN p = 1 .. Len(p) /\ DOMAIN q = 1 .. Len(q)
  BY LenProperties
<1>1. /\ p \o q \in Seq(S) /\ Len(p \o q) = Len(p) + Len(q)
      /\ \A m \in 1 .. Len(p) + Len(q) :
           (p \o q)[m] = IF m <= Len(p) THEN p[m] ELSE q[m - Len(p)]
  BY ConcatProperties
<1>2. DOMAIN (p \o q) = 1 .. Len(p) + Len(q)
  BY <1>1, LenProperties
<1>3. ASSUME NEW m \in 1 .. Len(p) + Len(q)
      PROVE  \/ m \in 1 .. Len(p) /\ (p \o q)[m] = p[m]
             \/ m - Len(p) \in 1 .. Len(q) /\ (p \o q)[m] = q[m - Len(p)]
  BY <1>0, <1>1
<1>4. IsInjective(p \o q)
  <2> SUFFICES ASSUME NEW m \in 1 .. Len(p) + Len(q), NEW n \in 1 .. Len(p) + Len(q),
                      (p \o q)[m] = (p \o q)[n]
               PROVE  m = n
    BY <1>2 DEF IsInjective
  <2>1. /\ \A x, y \in 1 .. Len(p) : p[x] = p[y] => x = y
        /\ \A x, y \in 1 .. Len(q) : q[x] = q[y] => x = y
    BY <1>0 DEF IsInjective
  <2>2. CASE m \in 1 .. Len(p) /\ (p \o q)[m] = p[m]
    <3>1. CASE n \in 1 .. Len(p) /\ (p \o q)[n] = p[n]
      BY <2>1, <2>2, <3>1
    <3>2. CASE n - Len(p) \in 1 .. Len(q) /\ (p \o q)[n] = q[n - Len(p)]
      BY <2>2, <3>2
    <3> QED  BY <3>1, <3>2, <1>3
  <2>3. CASE m - Len(p) \in 1 .. Len(q) /\ (p \o q)[m] = q[m - Len(p)]
    <3>1. CASE n \in 1 .. Len(p) /\ (p \o q)[n] = p[n]
      BY <2>3, <3>1
    <3>2. CASE n - Len(p) \in 1 .. Len(q) /\ (p \o q)[n] = q[n - Len(p)]
      <4>1. m - Len(p) = n - Len(p)
        BY <2>1, <2>3, <3>2
      <4> QED  BY <4>1, <1>0
    <3> QED  BY <3>1, <3>2, <1>3
  <2> QED  BY <2>2, <2>3, <1>3
<1>5. ASSUME NEW i, Contains(p \o q, i)
      PROVE  Contains(p, i) \/ Contains(q, i)
  BY <1>1, <1>3, <1>5 DEF Contains
<1> QED  BY <1>1, <1>4, <1>5

(* ---- rows --------------------------------------------------------------- *)

Live(i) == row[i] # None /\ row[i].scheduled

(* a scheduled row may be asked again                                      *)
ScheduledIsRetryable ==
  \A i \in Item : Live(i) =>
    row[i].reply \notin SETTLED \cup PERMANENT_ERRORS \cup {"METADATA_ONLY"}

LineIsLive == \A k \in 1 .. Len(line) : Live(line[k])
DueIsLive == \A k \in 1 .. Len(due) : Live(due[k])

(* only collected items are ever on a tick's list                          *)
DueIsCollected == \A k \in 1 .. Len(due) : row[due[k]] # None

QueueInv == TypeOK /\ ScheduledIsRetryable /\ LineIsLive /\ DueIsCollected

(* A row that can be asked again is not terminal.                          *)
LEMMA LiveIsNotTerminal ==
  ASSUME TypeOK, ScheduledIsRetryable, NEW i \in Item, Live(i)
  PROVE  ~Terminal(row[i])
BY DEF TypeOK, ScheduledIsRetryable, Live, Terminal, Row

(* The cap of attempts is a count.                                         *)
LEMMA CountIsNat == MaxCount \in Nat
BY QueueAssumption DEF QueueAssumption, MaxCount

(* What record_outcome() writes.                                           *)
LEMMA RecordedRow ==
  ASSUME NEW r \in Row, NEW i \in Item, NEW replies \in Replies(i)
  PROVE  LET w == Recorded(r, Fetched(i, replies))
         IN /\ w \in Row
            /\ w.scheduled => w.reply \notin SETTLED \cup PERMANENT_ERRORS \cup {"METADATA_ONLY"}
<1> DEFINE reply == Fetched(i, replies)
           n == IF r.attempts < MaxCount THEN r.attempts + 1 ELSE MaxCount
<1>1. reply \in Reply
  <2>1. CASE i \in TwoForms
    <3>1. replies[1] \in Reply /\ replies[2] \in Reply
      BY <2>1 DEF Replies
    <3> QED  BY <3>1, <2>1 DEF Fetched, Reported
  <2>2. CASE i \notin TwoForms
    BY <2>2 DEF Fetched, Replies
  <2> QED  BY <2>1, <2>2
<1> HIDE DEF reply
<1>2. n \in 0 .. MaxCount
  <2>1. r.attempts \in 0 .. MaxCount
    BY DEF Row
  <2> QED  BY <2>1, CountIsNat
<1> HIDE DEF n
<1>3. Reschedules(reply, n) \in BOOLEAN
  BY DEF Reschedules
<1>4. Reschedules(reply, n) => reply \notin SETTLED \cup PERMANENT_ERRORS
  BY DEF Reschedules
<1>5. reply # "METADATA_ONLY"
  BY <1>1 DEF Reply
<1>6. Recorded(r, reply) = [reply |-> reply, attempts |-> n, scheduled |-> Reschedules(reply, n)]
  BY DEF Recorded, n
<1> QED  BY <1>1, <1>2, <1>3, <1>4, <1>5, <1>6 DEF Row, reply

(* A fetch of one item writes its row and takes it out of the line.        *)
LEMMA FetchKeepsInv ==
  ASSUME QueueInv, NEW i \in Item, row[i] # None, NEW replies \in Replies(i),
         row' = [row EXCEPT ![i] = Recorded(@, Fetched(i, replies))],
         line' = Without(line, i), due' \in Seq(Item), IsInjective(due'),
         \A k \in 1 .. Len(due') : row[due'[k]] # None
  PROVE  /\ QueueInv' /\ row'[i] # None
         /\ \A j \in Item \ {i} : row'[j] = row[j]
<1>1. row \in [Item -> Row \cup {None}] /\ row[i] \in Row
  BY DEF QueueInv, TypeOK
<1>2. /\ row'[i] \in Row
      /\ row'[i].scheduled =>
           row'[i].reply \notin SETTLED \cup PERMANENT_ERRORS \cup {"METADATA_ONLY"}
  BY <1>1, RecordedRow
<1>3. row' \in [Item -> Row \cup {None}] /\ \A j \in Item \ {i} : row'[j] = row[j]
  BY <1>1, <1>2
<1>4. /\ line' \in Seq(Item) /\ IsInjective(line')
      /\ \A k \in 1 .. Len(line') : line'[k] # i /\ Contains(line, line'[k])
  BY WithoutIsPart DEF QueueInv, TypeOK
<1>5. ScheduledIsRetryable'
  BY <1>2, <1>3 DEF QueueInv, ScheduledIsRetryable, Live
<1>6. LineIsLive'
  <2> SUFFICES ASSUME NEW k \in 1 .. Len(line')
               PROVE  row'[line'[k]] # None /\ row'[line'[k]].scheduled
    BY DEF LineIsLive, Live
  <2>1. PICK m \in 1 .. Len(line) : line[m] = line'[k] /\ line[m] # i
    BY <1>4 DEF Contains
  <2>2. line[m] \in Item
    BY ElementOfSeq DEF QueueInv, TypeOK
  <2>3. row[line[m]] # None /\ row[line[m]].scheduled
    BY DEF QueueInv, LineIsLive, Live
  <2> QED  BY <2>1, <2>2, <2>3, <1>3
<1>7. row'[i] # None
  BY <1>2, QueueAssumption DEF QueueAssumption
<1>8. DueIsCollected'
  <2> SUFFICES ASSUME NEW k \in 1 .. Len(due')
               PROVE  row'[due'[k]] # None
    BY DEF DueIsCollected
  <2>1. due'[k] \in Item
    BY ElementOfSeq
  <2> QED  BY <2>1, <1>3, <1>7
<1> QED  BY <1>3, <1>4, <1>5, <1>6, <1>7, <1>8 DEF QueueInv, TypeOK

(* What is left of the tick's list after its head.                         *)
LEMMA RestOfDue ==
  ASSUME TypeOK, due # <<>>
  PROVE  /\ Head(due) \in Item /\ Head(due) = due[1]
         /\ Tail(due) \in Seq(Item) /\ IsInjective(Tail(due))
         /\ \A k \in 1 .. Len(Tail(due)) :
              k + 1 \in 1 .. Len(due) /\ Tail(due)[k] = due[k + 1] /\ due[k + 1] # Head(due)
<1>1. /\ due \in Seq(Item) /\ Len(due) \in Nat /\ DOMAIN due = 1 .. Len(due)
      /\ \A x, y \in 1 .. Len(due) : due[x] = due[y] => x = y
  BY LenProperties DEF TypeOK, IsInjective
<1>2. /\ Head(due) \in Item /\ Tail(due) \in Seq(Item) /\ Len(Tail(due)) = Len(due) - 1
      /\ \A k \in 1 .. Len(Tail(due)) : Tail(due)[k] = due[k + 1]
  BY <1>1, HeadTailProperties
<1>3. Len(due) # 0
  BY <1>1, EmptySeq
<1>4. Head(due) = due[1]
  BY <1>1, <1>3
<1>5. \A k \in 1 .. Len(Tail(due)) : k + 1 \in 1 .. Len(due) /\ due[k + 1] # due[1]
  BY <1>1, <1>2, <1>3
<1>6. DOMAIN Tail(due) = 1 .. Len(Tail(due))
  BY <1>2, LenProperties
<1>7. IsInjective(Tail(due))
  <2> SUFFICES ASSUME NEW x \in 1 .. Len(Tail(due)), NEW y \in 1 .. Len(Tail(due)),
                      Tail(due)[x] = Tail(due)[y]
               PROVE  x = y
    BY <1>6 DEF IsInjective
  <2>1. due[x + 1] = due[y + 1] /\ x + 1 \in 1 .. Len(due) /\ y + 1 \in 1 .. Len(due)
    BY <1>2, <1>5
  <2>2. x + 1 = y + 1
    BY <1>1, <2>1
  <2> QED  BY <2>2, <1>1, <1>2
<1> QED  BY <1>2, <1>4, <1>5, <1>7

(* The order in which a tick queues the new items.                         *)
LEMMA OrdersOfNew ==
  ASSUME NEW new \in Orders(New)
  PROVE  /\ new \in Seq(Item) /\ IsInjective(new)
         /\ \A k \in 1 .. Len(new) : new[k] \in New
<1>1. IsFiniteSet(New) /\ New \subseteq Item
  BY FS_Subset, QueueAssumption DEF New, QueueAssumption
<1>2. Cardinality(New) \in Nat
  BY <1>1, FS_CardinalityType
<1>3. new \in [1 .. Cardinality(New) -> New] /\ IsInjective(new)
  BY DEF Orders
<1>4. new \in Seq(New)
  BY <1>2, <1>3, IsASeq
<1>5. \A k \in 1 .. Len(new) : new[k] \in New
  BY <1>4, ElementOfSeq
<1>6. new \in Seq(Item)
  BY <1>1, <1>4, SeqMonotonic
<1> QED  BY <1>3, <1>5, <1>6

(* A tick queues the new items behind the line and takes its list from it. *)
LEMMA StartTickKeepsInv ==
  ASSUME QueueInv, StartTick
  PROVE  QueueInv' /\ DueIsLive'
<1>1. PICK new \in Orders(New) :
        /\ line' = line \o new
        /\ row' = [i \in Item |->
             IF i \in New
             THEN [reply |-> "FETCH_PENDING", attempts |-> 0, scheduled |-> TRUE]
             ELSE row[i]]
        /\ due' = DueList(line')
  BY DEF StartTick
<1>2. /\ new \in Seq(Item) /\ IsInjective(new) /\ \A k \in 1 .. Len(new) : new[k] \in New
      /\ line \in Seq(Item) /\ IsInjective(line)
      /\ \A k \in 1 .. Len(line) : line[k] \in Item /\ Live(line[k])
  BY OrdersOfNew, ElementOfSeq DEF QueueInv, TypeOK, LineIsLive
<1>3. \A k \in 1 .. Len(line) : line[k] \notin New
  BY <1>2 DEF QueueInv, ScheduledIsRetryable, New
<1>4. /\ line' \in Seq(Item) /\ IsInjective(line')
      /\ \A i : Contains(line', i) => Contains(line, i) \/ Contains(new, i)
  <2>1. \A m \in 1 .. Len(line), n \in 1 .. Len(new) : line[m] # new[n]
    BY <1>2, <1>3
  <2> QED  BY <1>1, <1>2, <2>1, JoinedIsInjective
<1>5. row' \in [Item -> Row \cup {None}]
  <2>1. [reply |-> "FETCH_PENDING", attempts |-> 0, scheduled |-> TRUE] \in Row
    BY CountIsNat DEF Row
  <2> QED  BY <1>1, <2>1 DEF QueueInv, TypeOK
<1>6. \A i \in Item : Live(i) \/ i \in New => row'[i] # None /\ row'[i].scheduled
  <2>1. None # [reply |-> "FETCH_PENDING", attempts |-> 0, scheduled |-> TRUE]
    <3>1. [reply |-> "FETCH_PENDING", attempts |-> 0, scheduled |-> TRUE] \in Row
      BY CountIsNat DEF Row
    <3> QED  BY <3>1, QueueAssumption DEF QueueAssumption
  <2> QED  BY <1>1, <2>1 DEF Live
<1>7. ScheduledIsRetryable'
  BY <1>1 DEF QueueInv, ScheduledIsRetryable, Live, SETTLED, PERMANENT_ERRORS
<1>8. \A i : Contains(line', i) => row'[i] # None /\ row'[i].scheduled
  BY <1>2, <1>4, <1>6 DEF Contains, New
<1>9. LineIsLive'
  BY <1>8 DEF LineIsLive, Live, Contains
<1>10. /\ due' \in Seq(Item) /\ IsInjective(due')
       /\ \A k \in 1 .. Len(due') : Contains(line', due'[k])
  BY <1>1, <1>4, DueListIsPart
<1>11. DueIsLive'
  BY <1>8, <1>10 DEF DueIsLive, Live
<1>12. DueIsCollected'
  BY <1>8, <1>10 DEF DueIsCollected
<1> QED  BY <1>4, <1>5, <1>7, <1>9, <1>10, <1>11, <1>12 DEF QueueInv, TypeOK

(* The tick's fetch writes the head's row and no other.                    *)
LEMMA FetchNextKeepsInv ==
  ASSUME QueueInv, FetchNext
  PROVE  /\ QueueInv'
         /\ \A j \in Item \ {Head(due)} : row'[j] = row[j]
<1>1. /\ Head(due) \in Item /\ Head(due) = due[1]
      /\ Tail(due) \in Seq(Item) /\ IsInjective(Tail(due))
      /\ \A k \in 1 .. Len(Tail(due)) :
           k + 1 \in 1 .. Len(due) /\ Tail(due)[k] = due[k + 1]
  BY RestOfDue DEF QueueInv, FetchNext
<1>2. PICK replies \in Replies(Head(due)) :
        row' = [row EXCEPT ![Head(due)] = Recorded(@, Fetched(Head(due), replies))]
  BY DEF FetchNext
<1>3. line' = Without(line, Head(due)) /\ due' = Tail(due)
  BY DEF FetchNext
<1>4. row[Head(due)] # None
  <2>1. due \in Seq(Item) /\ due # <<>>
    BY DEF QueueInv, TypeOK, FetchNext
  <2>2. 1 \in 1 .. Len(due)
    BY <2>1, LenProperties, EmptySeq
  <2> QED  BY <1>1, <2>2 DEF QueueInv, DueIsCollected
<1>5. \A k \in 1 .. Len(due') : row[due'[k]] # None
  BY <1>1, <1>3 DEF QueueInv, DueIsCollected
<1> QED  BY <1>1, <1>2, <1>3, <1>4, <1>5, FetchKeepsInv

(* So does the console's.                                                  *)
LEMMA ReacquireKeepsInv ==
  ASSUME QueueInv, NEW i \in Item, Reacquire(i)
  PROVE  /\ QueueInv' /\ due' = due
         /\ \A j \in Item \ {i} : row'[j] = row[j]
<1>1. PICK replies \in Replies(i) : row' = [row EXCEPT ![i] = Recorded(@, Fetched(i, replies))]
  BY DEF Reacquire
<1>2. row[i] # None /\ line' = Without(line, i) /\ due' = due
  BY DEF Reacquire
<1>3. /\ due' \in Seq(Item) /\ IsInjective(due')
      /\ \A k \in 1 .. Len(due') : row[due'[k]] # None
  BY <1>2 DEF QueueInv, TypeOK, DueIsCollected
<1> QED  BY <1>1, <1>2, <1>3, FetchKeepsInv

(* A collected item waits for the next tick; no other row moves.           *)
LEMMA CollectKeepsInv ==
  ASSUME QueueInv, NEW i \in Item, Collect(i)
  PROVE  /\ QueueInv' /\ due' = due
         /\ \A j \in Item \ {i} : row'[j] = row[j]
<1> DEFINE fresh == [reply |-> "METADATA_ONLY", attempts |-> 0, scheduled |-> FALSE]
<1>1. /\ row[i] = None /\ row' = [row EXCEPT ![i] = fresh] /\ line' = line /\ due' = due
      /\ row \in [Item -> Row \cup {None}]
  BY DEF Collect, QueueInv, TypeOK
<1>2. fresh \in Row
  BY CountIsNat DEF Row
<1>3. fresh # None /\ ~fresh.scheduled
  BY <1>2, QueueAssumption DEF QueueAssumption
<1> HIDE DEF fresh
<1>4. /\ row' \in [Item -> Row \cup {None}] /\ row'[i] = fresh
      /\ \A j \in Item \ {i} : row'[j] = row[j]
  BY <1>1, <1>2
<1>5. ScheduledIsRetryable'
  BY <1>3, <1>4 DEF QueueInv, ScheduledIsRetryable, Live
<1>6. LineIsLive'
  <2> SUFFICES ASSUME NEW k \in 1 .. Len(line)
               PROVE  row'[line[k]] # None /\ row'[line[k]].scheduled
    BY <1>1 DEF LineIsLive, Live
  <2>1. line[k] \in Item /\ row[line[k]] # None /\ row[line[k]].scheduled
    BY ElementOfSeq DEF QueueInv, TypeOK, LineIsLive, Live
  <2> QED  BY <2>1, <1>1, <1>4
<1>7. DueIsCollected'
  <2> SUFFICES ASSUME NEW k \in 1 .. Len(due)
               PROVE  row'[due[k]] # None
    BY <1>1 DEF DueIsCollected
  <2>1. due[k] \in Item /\ row[due[k]] # None
    BY ElementOfSeq DEF QueueInv, TypeOK, DueIsCollected
  <2> QED  BY <2>1, <1>1, <1>4
<1> QED  BY <1>1, <1>4, <1>5, <1>6, <1>7 DEF QueueInv, TypeOK

(* A row whose time has come joins the end of the line.                    *)
LEMMA ComesDueKeepsInv ==
  ASSUME QueueInv, NEW i \in Item, ComesDue(i)
  PROVE  QueueInv'
<1>1. /\ Live(i) /\ ~Contains(line, i) /\ line' = Append(line, i)
      /\ row' = row /\ due' = due /\ line \in Seq(Item) /\ IsInjective(line)
  BY DEF ComesDue, InLine, Live, QueueInv, TypeOK
<1>2. /\ Len(line) \in Nat /\ DOMAIN line = 1 .. Len(line)
      /\ \A x, y \in 1 .. Len(line) : line[x] = line[y] => x = y
  BY <1>1, LenProperties DEF IsInjective
<1>3. /\ line' \in Seq(Item) /\ Len(line') = Len(line) + 1
      /\ \A k \in 1 .. Len(line) : line'[k] = line[k]
      /\ line'[Len(line) + 1] = i
  BY <1>1, AppendProperties
<1>4. DOMAIN line' = 1 .. Len(line) + 1
  BY <1>3, LenProperties
<1>5. \A k \in 1 .. Len(line) : line[k] # i
  BY <1>1 DEF Contains
<1>6. IsInjective(line')
  <2> SUFFICES ASSUME NEW x \in 1 .. Len(line) + 1, NEW y \in 1 .. Len(line) + 1,
                      line'[x] = line'[y]
               PROVE  x = y
    BY <1>4 DEF IsInjective
  <2>1. CASE x \in 1 .. Len(line) /\ y \in 1 .. Len(line)
    BY <2>1, <1>2, <1>3
  <2>2. CASE x = Len(line) + 1 /\ y \in 1 .. Len(line)
    BY <2>2, <1>3, <1>5
  <2>3. CASE x \in 1 .. Len(line) /\ y = Len(line) + 1
    BY <2>3, <1>3, <1>5
  <2> QED  BY <2>1, <2>2, <2>3, <1>2
<1>7. LineIsLive'
  <2> SUFFICES ASSUME NEW k \in 1 .. Len(line) + 1
               PROVE  row[line'[k]] # None /\ row[line'[k]].scheduled
    BY <1>1, <1>3 DEF LineIsLive, Live
  <2>1. CASE k \in 1 .. Len(line)
    BY <2>1, <1>3 DEF QueueInv, LineIsLive, Live
  <2>2. CASE k = Len(line) + 1
    BY <2>2, <1>1, <1>3 DEF Live
  <2> QED  BY <2>1, <2>2, <1>2
<1> QED  BY <1>1, <1>3, <1>6, <1>7
         DEF QueueInv, TypeOK, ScheduledIsRetryable, DueIsCollected, Live

(* A tick cut short forgets its list.                                      *)
LEMMA EmptyListKeepsInv ==
  ASSUME QueueInv, row' = row, line' = line, due' = <<>>
  PROVE  QueueInv' /\ DueIsLive'
<1>1. due' \in Seq(Item) /\ IsInjective(due') /\ \A k : k \notin 1 .. Len(due')
  BY EmptySeq DEF IsInjective
<1> QED  BY <1>1 DEF QueueInv, TypeOK, ScheduledIsRetryable, LineIsLive, DueIsCollected,
                     DueIsLive, Live

(* ---- the specification -------------------------------------------------- *)

(* Nothing is collected, in line or on a list at first.                    *)
LEMMA QueueInit == Init => QueueInv /\ DueIsLive
<1> SUFFICES ASSUME Init PROVE QueueInv /\ DueIsLive
  OBVIOUS
<1>1. <<>> \in Seq(Item) /\ IsInjective(<<>>) /\ \A k : k \notin 1 .. Len(<<>>)
  BY EmptySeq DEF IsInjective
<1> QED  BY <1>1 DEF Init, QueueInv, TypeOK, ScheduledIsRetryable, LineIsLive,
                     DueIsCollected, DueIsLive, Live

(* Every action keeps the invariant, whenever the console is used.         *)
LEMMA QueueStep == QueueInv /\ [Next]_vars => QueueInv'
<1> SUFFICES ASSUME QueueInv, [Next]_vars PROVE QueueInv'
  OBVIOUS
<1>1. ASSUME NEW i \in Item, Collect(i) PROVE QueueInv'
  BY <1>1, CollectKeepsInv
<1>2. ASSUME NEW i \in Item, ComesDue(i) PROVE QueueInv'
  BY <1>2, ComesDueKeepsInv
<1>3. ASSUME NEW i \in Item, Reacquire(i) PROVE QueueInv'
  BY <1>3, ReacquireKeepsInv
<1>4. CASE StartTick
  BY <1>4, StartTickKeepsInv
<1>5. CASE FetchNext
  BY <1>5, FetchNextKeepsInv
<1>6. CASE Crash
  BY <1>6, EmptyListKeepsInv DEF Crash
<1>7. CASE UNCHANGED vars
  BY <1>7 DEF vars, QueueInv, TypeOK, ScheduledIsRetryable, LineIsLive, DueIsCollected, Live
<1> QED  BY <1>1, <1>2, <1>3, <1>4, <1>5, <1>6, <1>7 DEF Next

(* The rows are what migration 004 allows, and neither the line nor the    *)
(* tick's list names an item twice, whenever the console is used           *)
(* (due_for_acquisition(), record_outcome()).                              *)
THEOREM QueueTypeCorrect == Spec => []TypeOK
<1>1. QueueInv => TypeOK
  BY DEF QueueInv
<1> QED  BY <1>1, QueueInit, QueueStep, PTL DEF Spec

(* A tick at its end has nothing left to fetch.                            *)
LEMMA EmptyListIsLive ==
  ASSUME due' = <<>>
  PROVE  DueIsLive'
<1>1. due' \in Seq(Item) /\ \A k : k \notin 1 .. Len(due')
  BY EmptySeq
<1> QED  BY <1>1 DEF DueIsLive

(* Without a console fetch inside a tick, what is on its list stays live.  *)
LEMMA DueStaysLive ==
  ASSUME Console # "any time"
  PROVE  QueueInv /\ DueIsLive /\ [Next]_vars => DueIsLive'
<1> SUFFICES ASSUME QueueInv, DueIsLive, [Next]_vars PROVE DueIsLive'
  OBVIOUS
<1>0. \A k \in 1 .. Len(due) :
        due[k] \in Item /\ row[due[k]] # None /\ row[due[k]].scheduled
  BY ElementOfSeq DEF DueIsLive, Live, QueueInv, TypeOK
<1>1. ASSUME NEW i \in Item, Collect(i) PROVE DueIsLive'
  <2>1. row[i] = None /\ due' = due /\ \A j \in Item \ {i} : row'[j] = row[j]
    BY <1>1, CollectKeepsInv DEF Collect
  <2> QED  BY <2>1, <1>0 DEF DueIsLive, Live
<1>2. ASSUME NEW i \in Item, ComesDue(i) PROVE DueIsLive'
  BY <1>2 DEF ComesDue, DueIsLive, Live
<1>3. ASSUME NEW i \in Item, Reacquire(i) PROVE DueIsLive'
  <2>1. due' = <<>>
    BY <1>3, QueueAssumption DEF Reacquire, QueueAssumption
  <2> QED  BY <2>1, EmptyListIsLive
<1>4. CASE StartTick
  BY <1>4, StartTickKeepsInv
<1>5. CASE FetchNext
  <2>1. /\ \A k \in 1 .. Len(Tail(due)) : k + 1 \in 1 .. Len(due)
             /\ Tail(due)[k] = due[k + 1] /\ due[k + 1] # Head(due)
        /\ due' = Tail(due)
    BY <1>5, RestOfDue DEF QueueInv, FetchNext
  <2>2. \A j \in Item \ {Head(due)} : row'[j] = row[j]
    BY <1>5, FetchNextKeepsInv
  <2>3. ASSUME NEW k \in 1 .. Len(due')
        PROVE  row'[due'[k]] # None /\ row'[due'[k]].scheduled
    <3>1. k + 1 \in 1 .. Len(due) /\ due'[k] = due[k + 1] /\ due[k + 1] # Head(due)
      BY <2>1
    <3>2. due[k + 1] \in Item /\ row[due[k + 1]] # None /\ row[due[k + 1]].scheduled
      BY <3>1, <1>0
    <3>3. row'[due[k + 1]] = row[due[k + 1]]
      BY <3>1, <3>2, <2>2
    <3> QED  BY <3>1, <3>2, <3>3
  <2> QED  BY <2>3 DEF DueIsLive, Live
<1>6. CASE Crash
  BY <1>6, EmptyListKeepsInv DEF Crash
<1>7. CASE UNCHANGED vars
  BY <1>7 DEF vars, DueIsLive, Live
<1> QED  BY <1>1, <1>2, <1>3, <1>4, <1>5, <1>6, <1>7 DEF Next

(* The tick's steps, those that change its list, write live or new rows.   *)
LEMMA TickLeavesTerminalAlone ==
  ASSUME QueueInv, DueIsLive, Next, due' # due, NEW i \in Item,
         row[i] # None, Terminal(row[i]), row[i].reply # "METADATA_ONLY"
  PROVE  row'[i] = row[i]
<1>1. ~Live(i)
  BY LiveIsNotTerminal DEF QueueInv
<1>2. CASE StartTick
  <2>1. i \notin New
    BY DEF New
  <2> QED  BY <1>2, <2>1 DEF StartTick
<1>3. CASE FetchNext
  <2>1. Head(due) = due[1] /\ due \in Seq(Item) /\ due # <<>>
    BY <1>3, RestOfDue DEF QueueInv, TypeOK, FetchNext
  <2>2. 1 \in 1 .. Len(due)
    BY <2>1, LenProperties, EmptySeq
  <2>3. Live(Head(due))
    BY <2>1, <2>2 DEF DueIsLive
  <2>4. i # Head(due)
    BY <1>1, <2>3
  <2> QED  BY <1>3, <2>4, FetchNextKeepsInv
<1>4. CASE Crash
  BY <1>4 DEF Crash
<1> QED  BY <1>2, <1>3, <1>4 DEF Next, Collect, ComesDue, Reacquire

(* "Never touches a URL whose status has settled" (acquisition_job.py),    *)
(* for any number of items, list length and limits, as long as the console *)
(* does not fetch while a tick runs.                                       *)
THEOREM TickTouchesNoTerminalRow ==
  ASSUME Console # "any time"
  PROVE  Spec => TerminalIsLeftAlone
<1>1. QueueInv /\ DueIsLive /\ [Next]_vars =>
        [due' # due => \A i \in Item :
           row[i] # None /\ Terminal(row[i]) /\ row[i].reply # "METADATA_ONLY"
           => row'[i] = row[i]]_vars
  BY TickLeavesTerminalAlone
<1>2. QueueInv /\ DueIsLive /\ [Next]_vars => QueueInv' /\ DueIsLive'
  BY QueueStep, DueStaysLive
<1>3. Init => QueueInv /\ DueIsLive
  BY QueueInit
<1> QED  BY <1>1, <1>2, <1>3, PTL DEF Spec, TerminalIsLeftAlone

=============================================================================
