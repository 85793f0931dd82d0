--------------------------- MODULE DuplicatesProofs ---------------------------
(***************************************************************************)
(* Proofs about Duplicates: its type invariant, and that a person's answer *)
(* stands until it is taken back.  The scan a revert runs is a fold; that  *)
(* such a fold stays among certain states is proved from its definition,   *)
(* by the least number of elements for which it would not.                 *)
(***************************************************************************)
EXTENDS Duplicates, FiniteSetTheorems, WellFoundedInduction, TLAPS

LEMMA LeastNumber ==
  ASSUME NEW T \in SUBSET Nat, T # {}
  PROVE  \E n \in T : \A m \in T : n <= m
<1>1. PICK n \in T : ~(\E m \in T : <<m, n>> \in OpToRel(<, Nat))
  <2>1. IsWellFoundedOn(OpToRel(<, Nat), T)
    BY NatLessThanWellFounded, IsWellFoundedOnSubset
  <2> QED  BY <2>1, WFMin
<1> QED  BY <1>1 DEF OpToRel

-----------------------------------------------------------------------------
(* Folds over a finite set whose elements are taken in a given order.      *)

(* An order that is total has a last element in every finite set.          *)
IsOrder(S, below) ==
  /\ \A x, y \in S : x = y \/ x \in below[y] \/ y \in below[x]
  /\ \A x, y, z \in S : x \in below[y] /\ y \in below[z] => x \in below[z]

HasLast(S, below) ==
  \A T \in SUBSET S : T # {} => \E x \in T : \A y \in T : y = x \/ y \in below[x]

LEMMA LastExists ==
  ASSUME NEW S, IsFiniteSet(S), NEW below, IsOrder(S, below)
  PROVE  HasLast(S, below)
<1> DEFINE Topped(T) == \E x \in T : \A y \in T : y = x \/ y \in below[x]
           Bad == {n \in Nat : \E T \in SUBSET S : T # {} /\ Cardinality(T) = n /\ ~Topped(T)}
<1> SUFFICES ASSUME NEW U \in SUBSET S, U # {}, ~Topped(U) PROVE FALSE
  BY DEF HasLast
<1>1. \A T \in SUBSET S : IsFiniteSet(T) /\ Cardinality(T) \in Nat
  BY FS_Subset, FS_CardinalityType
<1>2. Bad # {} /\ Bad \in SUBSET Nat
  BY <1>1
<1>3. PICK n \in Bad : \A m \in Bad : n <= m
  BY <1>2, LeastNumber
<1>4. PICK T \in SUBSET S : T # {} /\ Cardinality(T) = n /\ ~Topped(T)
  BY <1>3
<1>5. PICK x \in T : TRUE
  BY <1>4
<1>6. Cardinality(T \ {x}) = n - 1 /\ n \in Nat
  BY <1>1, <1>3, <1>4, <1>5, FS_RemoveElement
<1>7. CASE T \ {x} = {}
  <2>1. T = {x}
    BY <1>5, <1>7
  <2> QED  BY <2>1, <1>4
<1>8. CASE T \ {x} # {}
  <2>1. T \ {x} \in SUBSET S
    OBVIOUS
  <2>2. n - 1 \in Nat
    BY <2>1, <1>1, <1>6
  <2>3. Topped(T \ {x})
    <3> SUFFICES ASSUME ~Topped(T \ {x}) PROVE FALSE
      OBVIOUS
    <3>1. n - 1 \in Bad
      BY <2>1, <2>2, <1>6, <1>8
    <3> HIDE DEF Bad
    <3> QED  BY <3>1, <2>2, <1>3, <1>6
  <2>4. PICK y \in T \ {x} : \A z \in T \ {x} : z = y \/ z \in below[y]
    BY <2>3
  <2>5. CASE x \in below[y]
    <3>1. \A z \in T : z = y \/ z \in below[y]
      BY <2>4, <2>5
    <3> QED  BY <3>1, <1>4, <2>4
  <2>6. CASE y \in below[x]
    <3>1. \A z \in T : z = x \/ z \in below[x]
      <4> SUFFICES ASSUME NEW z \in T, z # x PROVE z \in below[x]
        OBVIOUS
      <4>1. z = y \/ z \in below[y]
        BY <2>4
      <4>2. x \in S /\ y \in S /\ z \in S
        BY <1>5, <2>4
      <4> QED  BY <4>1, <4>2, <2>6 DEF IsOrder
    <3> QED  BY <3>1, <1>4, <1>5
  <2> QED  BY <2>4, <2>5, <2>6, <1>5 DEF IsOrder
<1> QED  BY <1>7, <1>8

NonEmpty(S) == {T \in SUBSET S : T # {}}
TakesLast(last, S) == last \in [NonEmpty(S) -> S] /\ \A T \in NonEmpty(S) : last[T] \in T

(* What a fold is: with the elements of done behind it, it is at f[done].  *)
IsFold(f, S, start, step, last) ==
  f = [done \in SUBSET S |->
         IF done = {} THEN start
         ELSE LET x == last[done] IN step[x][f[done \ {x}]]]

(* Such a function exists: one for the sets of n + 1 elements is made of   *)
(* one for the sets of n.                                                  *)
LEMMA FoldExists ==
  ASSUME NEW S, IsFiniteSet(S), NEW St, NEW start \in St,
         NEW step, step \in [S -> [St -> St]], NEW last, TakesLast(last, S)
  PROVE  \E f \in [SUBSET S -> St] : IsFold(f, S, start, step, last)
<1> DEFINE Upto(n) == {T \in SUBSET S : Cardinality(T) <= n}
           Eq(f, D) == \A T \in D : f[T] = IF T = {} THEN start
                                           ELSE step[last[T]][f[T \ {last[T]}]]
           Has(n) == \E f \in [Upto(n) -> St] : Eq(f, Upto(n))
           Bad == {n \in Nat : ~Has(n)}
<1>1. \A T \in SUBSET S : IsFiniteSet(T) /\ Cardinality(T) \in Nat
  BY FS_Subset, FS_CardinalityType
<1>2. \A T \in SUBSET S : T # {} =>
        /\ last[T] \in S /\ T \ {last[T]} \in SUBSET S
        /\ Cardinality(T \ {last[T]}) = Cardinality(T) - 1 /\ Cardinality(T) # 0
  <2> SUFFICES ASSUME NEW T \in SUBSET S, T # {}
               PROVE  /\ last[T] \in S /\ T \ {last[T]} \in SUBSET S
                      /\ Cardinality(T \ {last[T]}) = Cardinality(T) - 1 /\ Cardinality(T) # 0
    OBVIOUS
  <2>1. last[T] \in T /\ IsFiniteSet(T)
    BY <1>1 DEF TakesLast, NonEmpty
  <2>2. Cardinality(T \ {last[T]}) = Cardinality(T) - 1
    BY <2>1, FS_RemoveElement
  <2>3. Cardinality(T) # 0
    BY <2>1, FS_EmptySet
  <2> QED  BY <2>1, <2>2, <2>3
<1>3. Has(0)
  <2>1. \A T \in Upto(0) : T = {}
    <3> SUFFICES ASSUME NEW T \in SUBSET S, Cardinality(T) <= 0 PROVE T = {}
      OBVIOUS
    <3> QED  BY <1>1, FS_EmptySet
  <2> DEFINE f == [T \in Upto(0) |-> start]
  <2>2. f \in [Upto(0) -> St] /\ Eq(f, Upto(0))
    BY <2>1
  <2> QED  BY <2>2
<1>4. ASSUME NEW n \in Nat, Has(n) PROVE Has(n + 1)
  <2>1. PICK f \in [Upto(n) -> St] : Eq(f, Upto(n))
    BY <1>4
  <2> DEFINE g == [T \in Upto(n + 1) |->
                     IF T = {} THEN start ELSE step[last[T]][f[T \ {last[T]}]]]
  <2>2. \A T \in Upto(n + 1) : T # {} =>
          last[T] \in S /\ T \ {last[T]} \in Upto(n) /\ T \ {last[T]} \in Upto(n + 1)
    BY <1>1, <1>2
  <2>3. g \in [Upto(n + 1) -> St]
    BY <2>2
  <2>4. \A T \in Upto(n) : T \in Upto(n + 1)
    BY <1>1
  <2>5. \A T \in Upto(n) : g[T] = f[T]
    BY <2>1, <2>4
  <2>6. Eq(g, Upto(n + 1))
    <3> SUFFICES ASSUME NEW T \in Upto(n + 1)
                 PROVE  g[T] = IF T = {} THEN start ELSE step[last[T]][g[T \ {last[T]}]]
      OBVIOUS
    <3>1. T # {} => g[T \ {last[T]}] = f[T \ {last[T]}]
      BY <2>2, <2>5
    <3> QED  BY <3>1
  <2> HIDE DEF g
  <2> QED  BY <2>3, <2>6
<1>5. \A n \in Nat : Has(n)
  <2> SUFFICES ASSUME Bad # {} PROVE FALSE
    OBVIOUS
  <2>1. PICK n \in Bad : \A m \in Bad : n <= m
    <3>1. Bad \in SUBSET Nat
      OBVIOUS
    <3> HIDE DEF Bad
    <3> QED  BY <3>1, LeastNumber
  <2> HIDE DEF Has
  <2>2. n # 0 /\ n \in Nat
    BY <2>1, <1>3
  <2>3. Has(n - 1)
    <3>1. n - 1 \in Nat /\ n - 1 \notin Bad
      <4>1. n - 1 \in Nat /\ ~(n <= n - 1)
        BY <2>2
      <4> HIDE DEF Bad
      <4> QED  BY <4>1, <2>1
    <3> QED  BY <3>1
  <2>4. Has((n - 1) + 1)
    BY <2>2, <2>3, <1>4
  <2> QED  BY <2>1, <2>2, <2>4
<1>6. PICK f \in [Upto(Cardinality(S)) -> St] : Eq(f, Upto(Cardinality(S)))
  <2>1. Has(Cardinality(S))
    BY <1>1, <1>5
  <2> QED  BY <2>1
<1>7. Upto(Cardinality(S)) = SUBSET S
  <2>1. \A T \in SUBSET S : Cardinality(T) <= Cardinality(S)
    BY FS_Subset
  <2> QED  BY <2>1
<1> QED  BY <1>6, <1>7 DEF IsFold

(* What a fold cannot leave.                                               *)
StaysIn(f, S, St, last) ==
  \A T \in SUBSET S : T # {} /\ f[T \ {last[T]}] \in St => f[T] \in St

LEMMA FoldStays ==
  ASSUME NEW S, IsFiniteSet(S), NEW St, NEW last, TakesLast(last, S),
         NEW f, f[{}] \in St, StaysIn(f, S, St, last)
  PROVE  f[S] \in St
<1> DEFINE Bad == {n \in Nat : \E T \in SUBSET S : Cardinality(T) = n /\ f[T] \notin St}
<1> SUFFICES ASSUME f[S] \notin St PROVE FALSE
  OBVIOUS
<1>1. \A T \in SUBSET S : IsFiniteSet(T) /\ Cardinality(T) \in Nat
  BY FS_Subset, FS_CardinalityType
<1>2. Bad # {} /\ Bad \in SUBSET Nat
  BY <1>1
<1>3. PICK n \in Bad : \A m \in Bad : n <= m
  BY <1>2, LeastNumber
<1>4. PICK T \in SUBSET S : Cardinality(T) = n /\ f[T] \notin St
  BY <1>3
<1>5. T # {} /\ last[T] \in T
  BY <1>4 DEF TakesLast, NonEmpty
<1>6. Cardinality(T \ {last[T]}) = n - 1 /\ T \ {last[T]} \in SUBSET S
  BY <1>1, <1>4, <1>5, FS_RemoveElement
<1>7. n - 1 \in Nat /\ n \in Nat
  BY <1>1, <1>6, <1>3
<1>8. f[T \ {last[T]}] \notin St
  BY <1>4, <1>5 DEF StaysIn
<1>9. n - 1 \in Bad
  BY <1>6, <1>7, <1>8
<1> HIDE DEF Bad
<1> QED  BY <1>3, <1>7, <1>9

-----------------------------------------------------------------------------
(* Rows, and what a scan makes of them.                                    *)

Rows == [Event -> Row \cup {None, Gone}]
Holdings == [Event -> Held \cup {None}]

LEMMA Apart ==
  /\ None \notin Row /\ Gone \notin Row /\ None \notin Event
  /\ None \in Decider /\ "AUTO" \in Decider /\ "HUMAN" \in Decider
BY DuplicatesAssumption DEF Decider

LEMMA HereIsRow ==
  ASSUME NEW rows \in Rows, NEW e \in Event
  PROVE  e \in Here(rows) <=> rows[e] \in Row
BY Apart DEF Here, Rows

LEMMA RowFields ==
  ASSUME NEW r \in Row
  PROVE  /\ r.data \in Reading /\ r.canonical \in Event \cup {None} /\ r.by \in Decider
         /\ r = [data |-> r.data, canonical |-> r.canonical, by |-> r.by]
         /\ \A d \in Reading, c \in Event \cup {None}, by \in Decider :
              [data |-> d, canonical |-> c, by |-> by] \in Row
         /\ \A d \in Reading :
              LET q == [r EXCEPT !.data = d]
              IN q \in Row /\ q.data = d /\ q.canonical = r.canonical /\ q.by = r.by
BY DEF Row

LEMMA DecideIs ==
  ASSUME NEW rows \in Rows, NEW e \in Here(rows),
         NEW c \in Event \cup {None}, NEW by \in Decider
  PROVE  LET new == Decide(rows, e, c, by)
         IN /\ new \in Rows /\ Here(new) = Here(rows)
            /\ new[e] \in Row /\ new[e].canonical = c /\ new[e].by = by
            /\ new[e].data = rows[e].data
            /\ \A d \in Event : d # e => new[d] = rows[d]
<1> DEFINE new == Decide(rows, e, c, by)
<1>1. e \in Event /\ rows[e] \in Row
  BY HereIsRow DEF Here
<1>2. /\ new[e] = [data |-> rows[e].data, canonical |-> c, by |-> by]
      /\ \A d \in Event : d # e => new[d] = rows[d]
  <2>1. new = [[rows EXCEPT ![e].canonical = c] EXCEPT ![e].by = by]
    BY DEF Decide
  <2>2. rows[e] = [data |-> rows[e].data, canonical |-> rows[e].canonical, by |-> rows[e].by]
    BY <1>1, RowFields
  <2> QED  BY <1>1, <2>1, <2>2 DEF Rows
<1>3. new[e] \in Row /\ new[e].canonical = c /\ new[e].by = by /\ new[e].data = rows[e].data
  <2> HIDE DEF new
  <2> QED  BY <1>1, <1>2, RowFields
<1>4. new \in Rows
  BY <1>1, <1>2, <1>3 DEF Decide, Rows
<1> HIDE DEF new
<1>5. Here(new) = Here(rows)
  <2>1. \A d \in Event : d \in Here(new) <=> d \in Here(rows)
    BY <1>1, <1>2, <1>3, <1>4, HereIsRow
  <2> QED  BY <2>1 DEF Here
<1> QED  BY <1>2, <1>3, <1>4, <1>5 DEF new

LEMMA FoldedIsNumber ==
  ASSUME NEW rows, NEW e
  PROVE  Folded(rows, e) \in Nat
<1>1. {d \in Here(rows) : rows[d].canonical = e} \in SUBSET Event
  BY DEF Here
<1> QED  BY <1>1, DuplicatesAssumption, FS_Subset, FS_CardinalityType DEF Folded

LEMMA ReadIs ==
  ASSUME NEW rows \in Rows, NEW scope \in SUBSET Here(rows)
  PROVE  LET held == Read(rows, scope)
         IN /\ held \in Holdings
            /\ \A e \in Event : held[e] # None => e \in scope /\ held[e].by = rows[e].by
<1> SUFFICES ASSUME NEW e \in Event
             PROVE  LET held == Read(rows, scope)
                    IN /\ held[e] \in Held \cup {None}
                       /\ held[e] # None => e \in scope /\ held[e].by = rows[e].by
  BY DEF Read, Holdings
<1>1. CASE e \in scope
  <2>1. rows[e] \in Row
    BY <1>1, HereIsRow
  <2> QED  BY <1>1, <2>1, RowFields, FoldedIsNumber DEF Read, Held
<1>2. CASE e \notin scope
  BY <1>2 DEF Read
<1> QED  BY <1>1, <1>2

LEMMA UnheldIs ==
  ASSUME NEW held \in Holdings, NEW e \in Event, IsStale(held, e)
  PROVE  /\ Unheld(held, e) \in Holdings
         /\ held[e] # None /\ held[e].by # "HUMAN"
         /\ \A d \in Event : d # e => /\ held[d] = None => Unheld(held, e)[d] = None
                                      /\ held[d] # None => Unheld(held, e)[d].by = held[d].by
<1> DEFINE c == held[e].canonical
<1>1. held[e] \in Held /\ c \in Event /\ held[c] \in Held /\ held[c] # None /\ held[e] # None
      /\ held[e].by # "HUMAN"
  BY DEF IsStale, Holdings, Held
<1>2. PICK k \in Event : k = c
  BY <1>1
<1> DEFINE one == [[held EXCEPT ![e].canonical = None] EXCEPT ![e].by = "AUTO"]
           new == [one EXCEPT ![k].folded = IF @ = 0 THEN 0 ELSE @ - 1]
<1>3. Unheld(held, e) = new
  BY <1>2 DEF Unheld
<1>4. one \in Holdings /\ one[e] \in Held /\ \A d \in Event : d # e => one[d] = held[d]
  BY <1>1, Apart DEF Holdings, Held
<1>5. one[k] \in Held
  BY <1>1, <1>2, <1>4
<1> HIDE DEF one
<1>6. (IF one[k].folded = 0 THEN 0 ELSE one[k].folded - 1) \in Nat
  BY <1>5 DEF Held
<1>7. new[k] \in Held /\ new[k].by = one[k].by /\ \A d \in Event : d # k => new[d] = one[d]
  BY <1>4, <1>5, <1>6 DEF Holdings, Held
<1>8. new \in Holdings
  BY <1>4, <1>7 DEF Holdings
<1> HIDE DEF new
<1>9. \A d \in Event : d # e => /\ held[d] = None => new[d] = None
                                /\ held[d] # None => new[d].by = held[d].by
  BY <1>1, <1>2, <1>4, <1>7
<1> QED  BY <1>1, <1>3, <1>8, <1>9

(* of two rows that are compared, one keeps and the other is lost          *)
LEMMA OneIsLost ==
  ASSUME NEW held \in Holdings, NEW pr \in Pair
  PROVE  /\ pr[1] \in Event /\ pr[2] \in Event /\ pr[1] # pr[2]
         /\ {Lost(held, pr), Kept(held, pr)} = {pr[1], pr[2]}
         /\ Lost(held, pr) \in Event /\ Kept(held, pr) \in Event
<1>1. pr[1] \in Event /\ pr[2] \in Event /\ pr[1] # pr[2]
  <2>1. pr[1] \in Event /\ pr[2] \in Event /\ pr[1] < pr[2]
    BY DEF Pair
  <2>2. pr[1] \in Nat /\ pr[2] \in Nat
    BY <2>1, DuplicatesAssumption
  <2> QED  BY <2>1, <2>2
<1>2. Kept(held, pr) \in {pr[1], pr[2]}
  <2>1. CASE held[pr[1]].folded > 0 /\ held[pr[2]].folded = 0
    <3>1. Keeper(held, pr[1], pr[2]) = pr[1] \/ Keeper(held, pr[1], pr[2]) = pr[2]
      BY <2>1 DEF Keeper
    <3> QED  BY <3>1 DEF Kept
  <2>2. CASE held[pr[1]].folded = 0 /\ held[pr[2]].folded > 0
    <3>1. Keeper(held, pr[1], pr[2]) = pr[1] \/ Keeper(held, pr[1], pr[2]) = pr[2]
      BY <2>2 DEF Keeper
    <3> QED  BY <3>1 DEF Kept
  <2>3. CASE ~(held[pr[1]].folded > 0 /\ held[pr[2]].folded = 0)
             /\ ~(held[pr[1]].folded = 0 /\ held[pr[2]].folded > 0)
    <3>1. Keeper(held, pr[1], pr[2]) = pr[1] \/ Keeper(held, pr[1], pr[2]) = pr[2]
      BY <2>3 DEF Keeper
    <3> QED  BY <3>1 DEF Kept
  <2> QED  BY <2>1, <2>2, <2>3
<1> QED  BY <1>1, <1>2 DEF Lost

LEMMA HeldMergeIs ==
  ASSUME NEW held \in Holdings, NEW pr \in Pair, Matters(held, pr)
  PROVE  /\ HeldMerge(held, pr) \in Holdings
         /\ \A e \in {pr[1], pr[2]} : held[e] # None /\ held[e].by # "HUMAN"
         /\ \A e \in Event : /\ held[e] = None => HeldMerge(held, pr)[e] = None
                             /\ held[e] # None => HeldMerge(held, pr)[e].by = held[e].by
<1>1. PICK k \in Event, l \in Event :
        k = Kept(held, pr) /\ l = Lost(held, pr) /\ {l, k} = {pr[1], pr[2]}
  BY OneIsLost
<1>2. \A e \in {pr[1], pr[2]} : held[e] # None /\ held[e].by # "HUMAN"
  BY DEF Matters
<1>3. held[l] \in Held
  BY <1>1, <1>2 DEF Holdings
<1> DEFINE new == [held EXCEPT ![l].canonical = k]
<1>4. HeldMerge(held, pr) = new
  BY <1>1 DEF HeldMerge
<1>5. new \in Holdings /\ \A e \in Event : new[e].by = held[e].by
                                           /\ (held[e] = None => new[e] = None)
  BY <1>1, <1>2, <1>3 DEF Holdings, Held
<1> QED  BY <1>2, <1>4, <1>5

-----------------------------------------------------------------------------
(* A scan in one transaction.  Of the tables it started with it changes no *)
(* row that a person decided and no question that was there.               *)

(* what the rows of a scan say of who decided                              *)
KnowsHumans(rows, held) ==
  \A e \in Here(rows) : held[e] # None /\ rows[e].by = "HUMAN" => held[e].by = "HUMAN"

Spares(rows, new) ==
  /\ Here(new) = Here(rows)
  /\ \A e \in Event : rows[e] \notin Row \/ rows[e].by = "HUMAN" => new[e] = rows[e]

OnlyAsks(rows, pairs, new) ==
  \A pr \in Pair :
    new[pr] = pairs[pr] \/ (/\ pairs[pr] = "none" /\ new[pr] = "OPEN"
                            /\ {pr[1], pr[2]} \subseteq Here(rows))

ScanStates(rows, pairs) ==
  {at \in [rows : Rows, pairs : [Pair -> PairState], held : Holdings] :
     /\ Spares(rows, at.rows) /\ OnlyAsks(rows, pairs, at.pairs)
     /\ KnowsHumans(rows, at.held) /\ \A e \in Event : at.held[e] # None => e \in Here(rows)}

LEMMA StateIs ==
  ASSUME NEW rows, NEW pairs, NEW r \in Rows, NEW p \in [Pair -> PairState], NEW h \in Holdings,
         Spares(rows, r), OnlyAsks(rows, pairs, p), KnowsHumans(rows, h),
         \A e \in Event : h[e] # None => e \in Here(rows)
  PROVE  [rows |-> r, pairs |-> p, held |-> h] \in ScanStates(rows, pairs)
BY DEF ScanStates

LEMMA StateHas ==
  ASSUME NEW rows, NEW pairs, NEW at \in ScanStates(rows, pairs)
  PROVE  /\ at = [rows |-> at.rows, pairs |-> at.pairs, held |-> at.held]
         /\ at.rows \in Rows /\ at.pairs \in [Pair -> PairState] /\ at.held \in Holdings
         /\ Spares(rows, at.rows) /\ OnlyAsks(rows, pairs, at.pairs)
         /\ KnowsHumans(rows, at.held) /\ \A e \in Event : at.held[e] # None => e \in Here(rows)
BY DEF ScanStates

(* automation's decision of a row it holds as not a person's               *)
LEMMA DecideSpares ==
  ASSUME NEW rows \in Rows, NEW r \in Rows, NEW h \in Holdings, Spares(rows, r),
         KnowsHumans(rows, h), NEW e \in Here(rows), h[e] # None, h[e].by # "HUMAN",
         NEW c \in Event \cup {None}
  PROVE  Decide(r, e, c, "AUTO") \in Rows /\ Spares(rows, Decide(r, e, c, "AUTO"))
<1> DEFINE new == Decide(r, e, c, "AUTO")
<1>1. e \in Here(r) /\ rows[e] \in Row /\ rows[e].by # "HUMAN"
  BY HereIsRow DEF Spares, KnowsHumans, Here
<1>2. new \in Rows /\ Here(new) = Here(r) /\ \A d \in Event : d # e => new[d] = r[d]
  BY <1>1, Apart, DecideIs
<1> HIDE DEF new
<1>3. Spares(rows, new)
  BY <1>1, <1>2 DEF Spares
<1> QED  BY <1>2, <1>3 DEF new

LEMMA ReleaseStays ==
  ASSUME NEW rows \in Rows, NEW pairs, NEW at \in ScanStates(rows, pairs), NEW e \in Event
  PROVE  Release(e, at) \in ScanStates(rows, pairs)
<1>1. CASE ~IsStale(at.held, e)
  BY <1>1 DEF Release
<1>2. CASE IsStale(at.held, e)
  <2>1. Release(e, at) = [rows |-> Decide(at.rows, e, None, "AUTO"), pairs |-> at.pairs,
                          held |-> Unheld(at.held, e)]
    BY <1>2 DEF Release
  <2>2. /\ at.rows \in Rows /\ at.pairs \in [Pair -> PairState] /\ at.held \in Holdings
        /\ Spares(rows, at.rows) /\ OnlyAsks(rows, pairs, at.pairs)
        /\ KnowsHumans(rows, at.held) /\ \A d \in Event : at.held[d] # None => d \in Here(rows)
    BY StateHas
  <2>3. PICK h \in Holdings :
          /\ h = Unheld(at.held, e) /\ at.held[e] # None /\ at.held[e].by # "HUMAN"
          /\ \A d \in Event : d # e => /\ at.held[d] = None => h[d] = None
                                       /\ at.held[d] # None => h[d].by = at.held[d].by
    BY <1>2, <2>2, UnheldIs
  <2>4. e \in Here(rows) /\ rows[e] \in Row /\ rows[e].by # "HUMAN"
    BY <2>2, <2>3, HereIsRow DEF KnowsHumans
  <2>5. KnowsHumans(rows, h) /\ \A d \in Event : h[d] # None => d \in Here(rows)
    <3>1. \A d \in Event : h[d] # None => d \in Here(rows)
      BY <2>2, <2>3, <2>4
    <3>2. ASSUME NEW d \in Here(rows), h[d] # None, rows[d].by = "HUMAN" PROVE h[d].by = "HUMAN"
      <4>1. d \in Event /\ d # e
        BY <3>2, <2>4 DEF Here
      <4>2. at.held[d] # None
        BY <4>1, <3>2, <2>3
      <4> QED  BY <4>1, <4>2, <3>2, <2>2, <2>3 DEF KnowsHumans
    <3> QED  BY <3>1, <3>2 DEF KnowsHumans
  <2>6. Decide(at.rows, e, None, "AUTO") \in Rows /\ Spares(rows, Decide(at.rows, e, None, "AUTO"))
    BY <2>2, <2>3, <2>4, DecideSpares
  <2> QED  BY <2>1, <2>2, <2>3, <2>5, <2>6, StateIs
<1> QED  BY <1>1, <1>2

LEMMA AskedIs ==
  ASSUME NEW pairs \in [Pair -> PairState], NEW pr \in Pair
  PROVE  /\ Asked(pairs, pr) \in [Pair -> PairState]
         /\ \A qr \in Pair : \/ Asked(pairs, pr)[qr] = pairs[qr]
                             \/ qr = pr /\ pairs[qr] = "none" /\ Asked(pairs, pr)[qr] = "OPEN"
BY DEF Asked, PairState

LEMMA CompareStays ==
  ASSUME NEW rows \in Rows, NEW pairs \in [Pair -> PairState], NEW at \in ScanStates(rows, pairs),
         NEW pr \in Pair
  PROVE  Compare(pr, at) \in ScanStates(rows, pairs)
<1>1. /\ at.rows \in Rows /\ at.pairs \in [Pair -> PairState] /\ at.held \in Holdings
      /\ Spares(rows, at.rows) /\ OnlyAsks(rows, pairs, at.pairs)
      /\ KnowsHumans(rows, at.held) /\ \A d \in Event : at.held[d] # None => d \in Here(rows)
  BY StateHas
<1>2. CASE ~Matters(at.held, pr)
  BY <1>2 DEF Compare
<1>3. CASE Matters(at.held, pr) /\ IsMerge(at.held, pr)
  <2>1. PICK k \in Event, l \in Event :
          k = Kept(at.held, pr) /\ l = Lost(at.held, pr) /\ {l, k} = {pr[1], pr[2]}
    BY <1>1, OneIsLost
  <2>2. PICK h \in Holdings :
          /\ h = HeldMerge(at.held, pr)
          /\ \A e \in {pr[1], pr[2]} : at.held[e] # None /\ at.held[e].by # "HUMAN"
          /\ \A e \in Event : /\ at.held[e] = None => h[e] = None
                              /\ at.held[e] # None => h[e].by = at.held[e].by
    BY <1>1, <1>3, HeldMergeIs
  <2>3. Compare(pr, at) = [rows |-> Decide(at.rows, l, k, "AUTO"), pairs |-> at.pairs, held |-> h]
    BY <1>3, <2>1, <2>2 DEF Compare
  <2>4. KnowsHumans(rows, h) /\ \A d \in Event : h[d] # None => d \in Here(rows)
    BY <1>1, <2>2 DEF KnowsHumans, Here
  <2>5. Decide(at.rows, l, k, "AUTO") \in Rows /\ Spares(rows, Decide(at.rows, l, k, "AUTO"))
    BY <1>1, <2>1, <2>2, DecideSpares
  <2> QED  BY <1>1, <2>3, <2>4, <2>5, StateIs
<1>4. CASE Matters(at.held, pr) /\ ~IsMerge(at.held, pr)
  <2>1. Compare(pr, at) = [rows |-> at.rows, pairs |-> Asked(at.pairs, pr), held |-> at.held]
    BY <1>4 DEF Compare
  <2>2. {pr[1], pr[2]} \subseteq Here(rows)
    BY <1>1, <1>4, OneIsLost DEF Matters
  <2>3. Asked(at.pairs, pr) \in [Pair -> PairState] /\ OnlyAsks(rows, pairs, Asked(at.pairs, pr))
    <3>1. /\ Asked(at.pairs, pr) \in [Pair -> PairState]
          /\ \A qr \in Pair :
               \/ Asked(at.pairs, pr)[qr] = at.pairs[qr]
               \/ qr = pr /\ at.pairs[qr] = "none" /\ Asked(at.pairs, pr)[qr] = "OPEN"
      BY <1>1, AskedIs
    <3> QED  BY <3>1, <2>2, <1>1 DEF OnlyAsks
  <2> QED  BY <1>1, <2>1, <2>3, StateIs
<1> QED  BY <1>2, <1>3, <1>4

LEMMA MaxIs ==
  \A T \in NonEmpty(Event) : Max(T) \in T
<1> DEFINE below == [x \in Event |-> {y \in Event : y < x}]
<1>1. \A x, y \in Event : /\ x = y \/ x \in below[y] \/ y \in below[x]
                          /\ x \in below[y] <=> x < y
  <2>1. \A x, y \in Event : x \in below[y] <=> x < y
    OBVIOUS
  <2>2. \A x, y \in Event : x = y \/ x < y \/ y < x
    BY DuplicatesAssumption
  <2> QED  BY <2>1, <2>2
<1>2. \A x, y, z \in Event : x \in below[y] /\ y \in below[z] => x \in below[z]
  <2>1. \A x, y, z \in Event : x < y /\ y < z => x < z
    BY DuplicatesAssumption
  <2> HIDE DEF below
  <2> QED  BY <1>1, <2>1
<1> HIDE DEF below
<1>3. HasLast(Event, below)
  <2>1. IsOrder(Event, below)
    BY <1>1, <1>2 DEF IsOrder
  <2> QED  BY <2>1, DuplicatesAssumption, LastExists
<1>4. ASSUME NEW T \in NonEmpty(Event) PROVE \E x \in T : \A y \in T : x >= y
  <2>1. PICK x \in T : \A y \in T : y = x \/ y \in below[x]
    BY <1>3 DEF HasLast, NonEmpty
  <2>2. \A y \in T : x >= y
    <3> SUFFICES ASSUME NEW y \in T PROVE x >= y
      OBVIOUS
    <3>1. x \in Event /\ y \in Event /\ x \in Nat /\ y \in Nat
      BY DuplicatesAssumption DEF NonEmpty
    <3> QED  BY <1>1, <2>1, <3>1
  <2> QED  BY <2>2
<1> QED  BY <1>4 DEF Max

LEMMA PairsAreFinite == IsFiniteSet(Pair)
<1>1. IsFiniteSet(Event \X Event)
  BY DuplicatesAssumption, FS_Product
<1> QED  BY <1>1, FS_Subset DEF Pair

LEMMA LatestIs ==
  \A T \in NonEmpty(Pair) : Latest(T) \in T
<1> DEFINE below == [x \in Pair |-> {y \in Pair : Before(y, x)}]
<1>1. ASSUME NEW x \in Pair PROVE x = <<x[1], x[2]>> /\ x[1] \in Nat /\ x[2] \in Nat
  <2>1. x \in Event \X Event
    BY DEF Pair
  <2>2. x = <<x[1], x[2]>> /\ x[1] \in Event /\ x[2] \in Event
    BY <2>1
  <2> QED  BY <2>2, DuplicatesAssumption
<1>2. \A x, y \in Pair : x = y \/ Before(x, y) \/ Before(y, x)
  BY <1>1 DEF Before
<1>3. \A x, y, z \in Pair : Before(x, y) /\ Before(y, z) => Before(x, z)
  BY <1>1 DEF Before
<1>4. \A x, y \in Pair : x \in below[y] <=> Before(x, y)
  OBVIOUS
<1> HIDE DEF below
<1>5. HasLast(Pair, below)
  <2>1. IsOrder(Pair, below)
    BY <1>2, <1>3, <1>4 DEF IsOrder
  <2> QED  BY <2>1, PairsAreFinite, LastExists
<1>6. ASSUME NEW T \in NonEmpty(Pair) PROVE \E x \in T : \A y \in T : y = x \/ Before(y, x)
  <2>1. PICK x \in T : \A y \in T : y = x \/ y \in below[x]
    BY <1>5 DEF HasLast, NonEmpty
  <2>2. \A y \in T : y \in Pair
    BY DEF NonEmpty
  <2> QED  BY <1>4, <2>1, <2>2
<1> QED  BY <1>6 DEF Latest

LEMMA ReleasedStays ==
  ASSUME NEW rows \in Rows, NEW pairs, NEW start \in ScanStates(rows, pairs)
  PROVE  Released(start) \in ScanStates(rows, pairs)
<1> DEFINE St == ScanStates(rows, pairs)
           last == [T \in NonEmpty(Event) |-> Max(T)]
           step == [e \in Event |-> [at \in St |-> Release(e, at)]]
           Fold(f) == f = [done \in SUBSET Event |->
                             IF done = {} THEN start
                             ELSE LET e == Max(done) IN Release(e, f[done \ {e}])]
<1>1. step \in [Event -> [St -> St]]
  BY ReleaseStays
<1>2. TakesLast(last, Event)
  BY MaxIs DEF TakesLast, NonEmpty
<1>3. PICK g \in [SUBSET Event -> St] : IsFold(g, Event, start, step, last)
  <2> HIDE DEF step, last
  <2> QED  BY <1>1, <1>2, DuplicatesAssumption, FoldExists
<1>4. Fold(g)
  <2> SUFFICES ASSUME NEW T \in SUBSET Event
               PROVE  g[T] = IF T = {} THEN start
                             ELSE LET e == Max(T) IN Release(e, g[T \ {e}])
    OBVIOUS
  <2>1. g[T] = IF T = {} THEN start ELSE LET e == last[T] IN step[e][g[T \ {e}]]
    <3> HIDE DEF step, last
    <3> QED  BY <1>3 DEF IsFold
  <2>2. CASE T # {}
    <3>1. last[T] = Max(T) /\ Max(T) \in Event /\ g[T \ {Max(T)}] \in St
      BY <2>2, MaxIs DEF NonEmpty
    <3>2. step[Max(T)][g[T \ {Max(T)}]] = Release(Max(T), g[T \ {Max(T)}])
      BY <3>1
    <3> HIDE DEF step, last
    <3> QED  BY <2>1, <2>2, <3>1, <3>2
  <2> QED  BY <2>1, <2>2
<1>5. PICK f : Fold(f) /\ Released(start) = f[Event]
  BY <1>4 DEF Released, MapThenFoldSet
<1>6. f[{}] \in St
  BY <1>5
<1>7. StaysIn(f, Event, St, last)
  <2> SUFFICES ASSUME NEW T \in SUBSET Event, T # {}, f[T \ {last[T]}] \in St PROVE f[T] \in St
    BY DEF StaysIn
  <2>1. f[T] = Release(Max(T), f[T \ {Max(T)}]) /\ last[T] = Max(T) /\ Max(T) \in Event
    BY <1>5, MaxIs DEF NonEmpty
  <2> HIDE DEF last
  <2> QED  BY <2>1, ReleaseStays
<1> HIDE DEF St, last
<1>8. f[Event] \in St
  BY <1>2, <1>6, <1>7, DuplicatesAssumption, FoldStays
<1> QED  BY <1>5, <1>8 DEF St

LEMMA ComparedStays ==
  ASSUME NEW rows \in Rows, NEW pairs \in [Pair -> PairState],
         NEW start \in ScanStates(rows, pairs)
  PROVE  Compared(start) \in ScanStates(rows, pairs)
<1> DEFINE St == ScanStates(rows, pairs)
           last == [T \in NonEmpty(Pair) |-> Latest(T)]
           step == [pr \in Pair |-> [at \in St |-> Compare(pr, at)]]
           Fold(f) == f = [done \in SUBSET Pair |->
                             IF done = {} THEN start
                             ELSE LET pr == Latest(done) IN Compare(pr, f[done \ {pr}])]
<1>1. step \in [Pair -> [St -> St]]
  BY CompareStays
<1>2. TakesLast(last, Pair)
  BY LatestIs DEF TakesLast, NonEmpty
<1>3. PICK g \in [SUBSET Pair -> St] : IsFold(g, Pair, start, step, last)
  <2> HIDE DEF step, last
  <2> QED  BY <1>1, <1>2, PairsAreFinite, FoldExists
<1>4. Fold(g)
  <2> SUFFICES ASSUME NEW T \in SUBSET Pair
               PROVE  g[T] = IF T = {} THEN start
                             ELSE LET pr == Latest(T) IN Compare(pr, g[T \ {pr}])
    OBVIOUS
  <2>1. g[T] = IF T = {} THEN start ELSE LET pr == last[T] IN step[pr][g[T \ {pr}]]
    <3> HIDE DEF step, last
    <3> QED  BY <1>3 DEF IsFold
  <2>2. CASE T # {}
    <3>1. last[T] = Latest(T) /\ Latest(T) \in Pair /\ g[T \ {Latest(T)}] \in St
      BY <2>2, LatestIs DEF NonEmpty
    <3>2. step[Latest(T)][g[T \ {Latest(T)}]] = Compare(Latest(T), g[T \ {Latest(T)}])
      BY <3>1
    <3> HIDE DEF step, last
    <3> QED  BY <2>1, <2>2, <3>1, <3>2
  <2> QED  BY <2>1, <2>2
<1>5. PICK f : Fold(f) /\ Compared(start) = f[Pair]
  BY <1>4 DEF Compared, MapThenFoldSet
<1>6. f[{}] \in St
  BY <1>5
<1>7. StaysIn(f, Pair, St, last)
  <2> SUFFICES ASSUME NEW T \in SUBSET Pair, T # {}, f[T \ {last[T]}] \in St PROVE f[T] \in St
    BY DEF StaysIn
  <2>1. f[T] = Compare(Latest(T), f[T \ {Latest(T)}]) /\ last[T] = Latest(T) /\ Latest(T) \in Pair
    BY <1>5, LatestIs DEF NonEmpty
  <2> HIDE DEF last
  <2> QED  BY <2>1, CompareStays
<1> HIDE DEF St, last
<1>8. f[Pair] \in St
  BY <1>2, <1>6, <1>7, PairsAreFinite, FoldStays
<1> QED  BY <1>5, <1>8 DEF St

(* The scan of a revert leaves what a person decided as it is.             *)
LEMMA ScanDaySpares ==
  ASSUME NEW rows \in Rows, NEW pairs \in [Pair -> PairState], NEW day
  PROVE  LET at == ScanDay(rows, pairs, day)
         IN /\ at.rows \in Rows /\ at.pairs \in [Pair -> PairState]
            /\ Spares(rows, at.rows) /\ OnlyAsks(rows, pairs, at.pairs)
<1> DEFINE scope == {e \in Here(rows) : rows[e].data.day = day /\ ~rows[e].data.rejected}
           start == [rows |-> rows, pairs |-> pairs, held |-> Read(rows, scope)]
<1>1. PICK h \in Holdings :
        /\ h = Read(rows, scope)
        /\ \A e \in Event : h[e] # None => e \in Here(rows) /\ h[e].by = rows[e].by
  <2>1. scope \in SUBSET Here(rows)
    OBVIOUS
  <2> HIDE DEF scope
  <2> QED  BY <2>1, ReadIs
<1>2. KnowsHumans(rows, h)
  BY <1>1 DEF KnowsHumans, Here
<1>3. Spares(rows, rows) /\ OnlyAsks(rows, pairs, pairs)
  BY DEF Spares, OnlyAsks
<1>4. start \in ScanStates(rows, pairs)
  BY <1>1, <1>2, <1>3, StateIs
<1>5. ScanDay(rows, pairs, day) = Compared(Released(start))
  BY DEF ScanDay
<1> HIDE DEF start
<1>6. ScanDay(rows, pairs, day) \in ScanStates(rows, pairs)
  BY <1>4, <1>5, ReleasedStays, ComparedStays
<1> QED  BY <1>6, StateHas

-----------------------------------------------------------------------------
(* What each action does to the rows.                                      *)

(* no row is lost, and what a person decided stays                         *)
Keeps(rows, new) ==
  \A e \in Here(rows) :
    /\ e \in Here(new)
    /\ rows[e].by = "HUMAN" => new[e].by = "HUMAN" /\ new[e].canonical = rows[e].canonical

NoNewHumans(rows, new) ==
  \A e \in Here(new) : new[e].by = "HUMAN" => e \in Here(rows) /\ rows[e].by = "HUMAN"

(* a question is about rows that exist                                     *)
QuestionsAreHere(rows, pairs) ==
  \A pr \in Pair : pairs[pr] # "none" => {pr[1], pr[2]} \subseteq Here(rows)

TInv == TypeOK /\ QuestionsAreHere(row, pair)

LEMMA Typed ==
  ASSUME TInv
  PROVE  /\ row \in Rows /\ pair \in [Pair -> PairState] /\ verdict \in SUBSET Verdict
         /\ scan \in [Scanner -> Scan] /\ writes \in 0 .. MaxWrites /\ answers \in 0 .. MaxAnswers
         /\ MaxWrites \in Nat /\ MaxAnswers \in Nat
BY DuplicatesAssumption DEF TInv, TypeOK, Rows

LEMMA HereGrows ==
  ASSUME NEW rows, NEW new, Keeps(rows, new)
  PROVE  Here(rows) \subseteq Here(new)
BY DEF Keeps

LEMMA SameDecisions ==
  ASSUME NEW rows \in Rows, NEW new \in Rows,
         \A d \in Event : /\ new[d] \in Row <=> rows[d] \in Row
                          /\ rows[d] \in Row => /\ new[d].by = rows[d].by
                                                /\ new[d].canonical = rows[d].canonical
  PROVE  Keeps(rows, new) /\ NoNewHumans(rows, new)
<1>1. \A d \in Event : /\ d \in Here(rows) <=> rows[d] \in Row
                       /\ d \in Here(new) <=> new[d] \in Row
  BY HereIsRow
<1> QED  BY <1>1 DEF Keeps, NoNewHumans, Here

LEMMA NewIs ==
  ASSUME TInv, NEW e \in Event, New(e)
  PROVE  row' \in Rows /\ Keeps(row, row') /\ NoNewHumans(row, row')
<1>1. PICK r \in Finds[e] : row' = [row EXCEPT ![e] = [data |-> r, canonical |-> None, by |-> None]]
  BY DEF New
<1>2. r \in Reading
  BY DuplicatesAssumption
<1>3. row \in Rows /\ row[e] = None
  BY Typed DEF New
<1> DEFINE q == [data |-> r, canonical |-> None, by |-> None]
<1>4. q \in Row /\ q.by = None
  BY <1>2, Apart DEF Row
<1>5. row'[e] = q /\ \A d \in Event : d # e => row'[d] = row[d]
  BY <1>1, <1>3 DEF Rows
<1>6. row' \in Rows
  BY <1>1, <1>3, <1>4 DEF Rows
<1> HIDE DEF q
<1>7. Keeps(row, row')
  <2> SUFFICES ASSUME NEW d \in Here(row) PROVE d \in Here(row') /\ row'[d] = row[d]
    BY DEF Keeps
  <2>1. d \in Event /\ d # e
    BY <1>3 DEF Here
  <2> QED  BY <2>1, <1>5 DEF Here
<1>8. NoNewHumans(row, row')
  <2> SUFFICES ASSUME NEW d \in Here(row'), row'[d].by = "HUMAN"
               PROVE  d \in Here(row) /\ row[d].by = "HUMAN"
    BY DEF NoNewHumans
  <2>1. d # e
    BY <1>4, <1>5, DuplicatesAssumption
  <2> QED  BY <2>1, <1>5 DEF Here
<1> QED  BY <1>6, <1>7, <1>8

LEMMA RewriteIs ==
  ASSUME TInv, NEW e \in Event, Rewrite(e)
  PROVE  row' \in Rows /\ Keeps(row, row') /\ NoNewHumans(row, row')
<1>1. PICK r \in Finds[e] : row' = [row EXCEPT ![e].data = r]
  BY DEF Rewrite
<1>2. r \in Reading
  BY DuplicatesAssumption
<1>3. row \in Rows /\ row[e] \in Row
  BY Typed, HereIsRow DEF Rewrite
<1> DEFINE q == [row[e] EXCEPT !.data = r]
<1>4. q \in Row /\ q.canonical = row[e].canonical /\ q.by = row[e].by
  BY <1>2, <1>3, RowFields
<1>5. row'[e] = q /\ \A d \in Event : d # e => row'[d] = row[d]
  BY <1>1, <1>3 DEF Rows
<1>6. row' \in Rows
  BY <1>1, <1>3, <1>4 DEF Rows
<1> HIDE DEF q
<1>7. \A d \in Event : /\ row'[d] \in Row <=> row[d] \in Row
                       /\ row[d] \in Row => /\ row'[d].by = row[d].by
                                            /\ row'[d].canonical = row[d].canonical
  BY <1>3, <1>4, <1>5
<1> QED  BY <1>3, <1>6, <1>7, SameDecisions

LEMMA LoseVenueIs ==
  ASSUME TInv, NEW e \in Event, LoseVenue(e)
  PROVE  row' \in Rows /\ Keeps(row, row') /\ NoNewHumans(row, row')
<1>1. row \in Rows /\ e \in Here(row) /\ row[e] \in Row
  BY Typed, HereIsRow DEF LoseVenue
<1> DEFINE less(d) == IF d = e THEN [row[d] EXCEPT !.data.venue = None] ELSE row[d]
           new(d) == IF d \in Here(row) /\ less(d).by = "AUTO" /\ (d = e \/ less(d).canonical = e)
                     THEN [less(d) EXCEPT !.canonical = None, !.by = None] ELSE less(d)
<1>2. row' = [d \in Event |-> new(d)]
  BY DEF LoseVenue
<1>3. ASSUME NEW d \in Here(row)
      PROVE  less(d) \in Row /\ less(d).by = row[d].by /\ less(d).canonical = row[d].canonical
  <2>1. row[d] \in Row
    BY <1>1, HereIsRow DEF Here
  <2>2. CASE d = e
    <3>1. row[d].data \in Reading
      BY <2>1, RowFields
    <3>2. [row[d].data EXCEPT !.venue = None] \in Reading
      BY <3>1 DEF Reading
    <3>3. less(d) = [row[d] EXCEPT !.data = [row[d].data EXCEPT !.venue = None]]
      BY <2>2
    <3> HIDE DEF less
    <3> QED  BY <2>1, <3>2, <3>3, RowFields
  <2>3. CASE d # e
    BY <2>1, <2>3
  <2> QED  BY <2>2, <2>3
<1>4. ASSUME NEW d \in Event
      PROVE  /\ d \notin Here(row) => row'[d] = row[d]
             /\ d \in Here(row) => /\ row'[d] \in Row
                                   /\ row'[d].by \in {row[d].by, None}
                                   /\ row[d].by = "HUMAN" => /\ row'[d].by = "HUMAN"
                                                             /\ row'[d].canonical = row[d].canonical
  <2>1. row'[d] = new(d)
    BY <1>2
  <2>2. CASE d \notin Here(row)
    BY <1>1, <2>1, <2>2
  <2>3. CASE d \in Here(row)
    <3>1. less(d) \in Row /\ less(d).by = row[d].by /\ less(d).canonical = row[d].canonical
      BY <1>3, <2>3
    <3> HIDE DEF less
    <3>2. [less(d) EXCEPT !.canonical = None, !.by = None] \in Row
          /\ [less(d) EXCEPT !.canonical = None, !.by = None].by = None
      BY <3>1, Apart DEF Row
    <3> QED  BY <2>1, <2>3, <3>1, <3>2
  <2> QED  BY <2>2, <2>3
<1> HIDE DEF less, new
<1>5. row' \in Rows
  <2>1. row' = [d \in Event |-> row'[d]]
    BY <1>2
  <2>2. \A d \in Event : row'[d] \in Row \cup {None, Gone}
    BY <1>1, <1>4 DEF Rows
  <2> QED  BY <2>1, <2>2 DEF Rows
<1>6. \A d \in Event : d \in Here(row') <=> d \in Here(row)
  BY <1>1, <1>4, <1>5, HereIsRow DEF Here
<1>7. Keeps(row, row')
  BY <1>4, <1>6 DEF Keeps, Here
<1>8. NoNewHumans(row, row')
  BY <1>4, <1>6, DuplicatesAssumption DEF NoNewHumans, Here
<1> QED  BY <1>5, <1>7, <1>8

(* a prune keeps every row but the one it deletes                          *)
LEMMA PruneIs ==
  ASSUME TInv, NEW e \in Event, Prune(e)
  PROVE  /\ row' \in Rows /\ NoNewHumans(row, row') /\ Here(row') = Here(row) \ {e}
         /\ "prune" \notin Beside => Keeps([row EXCEPT ![e] = Gone], row')
<1>1. row \in Rows /\ e \in Here(row)
  BY Typed DEF Prune
<1> DEFINE freed(d) == [row[d] EXCEPT !.canonical = None, !.by = None]
<1>2. \A d \in Here(row) : row[d] \in Row /\ freed(d) \in Row /\ freed(d).by = None
  <2> SUFFICES ASSUME NEW d \in Here(row)
               PROVE  row[d] \in Row /\ freed(d) \in Row /\ freed(d).by = None
    OBVIOUS
  <2>1. row[d] \in Row
    BY <1>1, HereIsRow DEF Here
  <2> QED  BY <2>1, Apart DEF Row
<1>3. /\ row' = [d \in Event |-> row'[d]]
      /\ row'[e] = Gone
      /\ \A d \in Event : d # e =>
           row'[d] = IF d \in Here(row) /\ row[d].canonical = e THEN freed(d) ELSE row[d]
  <2>1. row' = [d \in Event |->
                  CASE d = e -> Gone
                    [] d # e /\ d \in Here(row) /\ row[d].canonical = e -> freed(d)
                    [] OTHER -> row[d]]
    BY DEF Prune
  <2>2. ASSUME NEW d \in Event, d # e
        PROVE  row'[d] = IF d \in Here(row) /\ row[d].canonical = e THEN freed(d) ELSE row[d]
    <3> HIDE DEF freed
    <3>1. CASE d \in Here(row) /\ row[d].canonical = e
      BY <2>1, <2>2, <3>1
    <3>2. CASE ~(d \in Here(row) /\ row[d].canonical = e)
      BY <2>1, <2>2, <3>2
    <3> QED  BY <3>1, <3>2
  <2> HIDE DEF freed
  <2>3. row'[e] = Gone
    BY <1>1, <2>1 DEF Here
  <2> QED  BY <2>1, <2>2, <2>3
<1> HIDE DEF freed
<1>4. row' \in Rows
  <2>1. \A d \in Event : row'[d] \in Row \cup {None, Gone}
    BY <1>1, <1>2, <1>3 DEF Rows
  <2> QED  BY <2>1, <1>3 DEF Rows
<1>5. \A d \in Event : d \in Here(row') <=> d \in Here(row) /\ d # e
  <2> SUFFICES ASSUME NEW d \in Event PROVE d \in Here(row') <=> d \in Here(row) /\ d # e
    OBVIOUS
  <2>1. (d \in Here(row') <=> row'[d] \in Row) /\ (d \in Here(row) <=> row[d] \in Row)
    BY <1>1, <1>4, HereIsRow
  <2> QED  BY <2>1, <1>2, <1>3, Apart
<1>6. NoNewHumans(row, row')
  <2> SUFFICES ASSUME NEW d \in Here(row'), row'[d].by = "HUMAN"
               PROVE  d \in Here(row) /\ row[d].by = "HUMAN"
    BY DEF NoNewHumans
  <2>1. d \in Event /\ d \in Here(row) /\ d # e
    BY <1>5 DEF Here
  <2> QED  BY <2>1, <1>2, <1>3, DuplicatesAssumption
<1>7. ASSUME "prune" \notin Beside PROVE Keeps([row EXCEPT ![e] = Gone], row')
  <2> DEFINE rest == [row EXCEPT ![e] = Gone]
  <2> SUFFICES ASSUME NEW d \in Here(rest)
               PROVE  /\ d \in Here(row')
                      /\ rest[d].by = "HUMAN" => /\ row'[d].by = "HUMAN"
                                                 /\ row'[d].canonical = rest[d].canonical
    BY DEF Keeps
  <2>1. d \in Event /\ d # e /\ rest[d] = row[d] /\ d \in Here(row)
    BY <1>1 DEF Here, Rows
  <2> HIDE DEF rest
  <2>2. row[d].canonical = e => row[d].by # "HUMAN"
    BY <1>7, <2>1 DEF Prune
  <2> QED  BY <1>3, <1>5, <2>1, <2>2
<1> QED
  <2>1. Here(row') = Here(row) \ {e}
    BY <1>5 DEF Here
  <2> QED  BY <1>4, <1>6, <1>7, <2>1

LEMMA PairFields ==
  ASSUME NEW pr \in Pair
  PROVE  pr[1] \in Event /\ pr[2] \in Event /\ pr[1] # pr[2] /\ pr = <<pr[1], pr[2]>>
<1>1. pr \in Event \X Event /\ pr[1] < pr[2]
  BY DEF Pair
<1>2. pr[1] \in Event /\ pr[2] \in Event /\ pr = <<pr[1], pr[2]>>
  BY <1>1
<1>3. pr[1] \in Nat /\ pr[2] \in Nat
  BY <1>2, DuplicatesAssumption
<1> QED  BY <1>1, <1>2, <1>3

LEMMA KeepSeparateIs ==
  ASSUME TInv, NEW pr \in Pair, KeepSeparate(pr)
  PROVE  /\ row' \in Rows /\ Here(row') = Here(row) /\ {pr[1], pr[2]} \subseteq Here(row)
         /\ \A e \in {pr[1], pr[2]} : row'[e].by = "HUMAN" /\ row'[e].canonical = None
         /\ \A e \in Event : e \notin {pr[1], pr[2]} => row'[e] = row[e]
<1>1. row \in Rows /\ {pr[1], pr[2]} \subseteq Here(row)
  BY Typed DEF KeepSeparate, Answerable, TInv, QuestionsAreHere
<1> DEFINE one == Decide(row, pr[1], None, "HUMAN")
<1>2. /\ one \in Rows /\ Here(one) = Here(row)
      /\ one[pr[1]].by = "HUMAN" /\ one[pr[1]].canonical = None
      /\ \A d \in Event : d # pr[1] => one[d] = row[d]
  BY <1>1, Apart, DecideIs
<1>3. row' = Decide(one, pr[2], None, "HUMAN")
  BY DEF KeepSeparate
<1> HIDE DEF one
<1>4. /\ row' \in Rows /\ Here(row') = Here(one)
      /\ row'[pr[2]].by = "HUMAN" /\ row'[pr[2]].canonical = None
      /\ \A d \in Event : d # pr[2] => row'[d] = one[d]
  <2>1. pr[2] \in Here(one)
    BY <1>1, <1>2
  <2> QED  BY <1>2, <1>3, <2>1, Apart, DecideIs
<1> QED  BY <1>1, <1>2, <1>4, PairFields

LEMMA SameEventIs ==
  ASSUME TInv, NEW pr \in Pair, NEW keep \in Event, NEW fold \in Event, SameEvent(pr, keep, fold)
  PROVE  /\ row' \in Rows /\ Here(row') = Here(row) /\ {pr[1], pr[2]} \subseteq Here(row)
         /\ row'[fold].by = "HUMAN" /\ row'[fold].canonical = keep
         /\ \A e \in Event : e # fold => row'[e] = row[e]
<1>1. row \in Rows /\ {pr[1], pr[2]} \subseteq Here(row)
  BY Typed DEF SameEvent, Answerable, TInv, QuestionsAreHere
<1> DEFINE new == Decide(row, fold, keep, "HUMAN")
<1>2. fold \in Here(row)
  BY <1>1 DEF SameEvent
<1>3. /\ new \in Rows /\ Here(new) = Here(row)
      /\ new[fold].by = "HUMAN" /\ new[fold].canonical = keep
      /\ \A d \in Event : d # fold => new[d] = row[d]
  <2>1. keep \in Event \cup {None} /\ "HUMAN" \in Decider /\ row \in Rows
    BY <1>1, Apart
  <2> QED  BY <1>2, <2>1, DecideIs
<1>4. row' = new
  BY DEF SameEvent
<1> HIDE DEF new
<1> QED  BY <1>1, <1>3, <1>4

LEMMA UndoneIs ==
  ASSUME TInv, NEW vs, \A v \in vs : v.event \in Here(row)
  PROVE  LET new == Undone(row, vs)
         IN /\ new \in Rows /\ Here(new) = Here(row)
            /\ \A e \in Event : (\A v \in vs : v.event # e) => new[e] = row[e]
            /\ \A v \in vs : new[v.event].by = IF Standing(v.event, vs) THEN "HUMAN" ELSE None
<1> DEFINE new == Undone(row, vs)
           back(e) == [row[e] EXCEPT !.canonical = None,
                                     !.by = IF Standing(e, vs) THEN "HUMAN" ELSE None]
<1>1. row \in Rows
  BY Typed
<1>2. new = [e \in Event |-> IF \E v \in vs : v.event = e THEN back(e) ELSE row[e]]
  BY DEF Undone
<1>3. ASSUME NEW e \in Here(row)
      PROVE  back(e) \in Row /\ back(e).by = IF Standing(e, vs) THEN "HUMAN" ELSE None
  <2>1. row[e] \in Row
    BY <1>1, HereIsRow DEF Here
  <2>2. (IF Standing(e, vs) THEN "HUMAN" ELSE None) \in Decider
    BY Apart
  <2> QED  BY <2>1, <2>2, Apart DEF Row
<1> HIDE DEF back, new
<1>4. \A e \in Event : (\A v \in vs : v.event # e) => new[e] = row[e]
  BY <1>2
<1>5. \A v \in vs : new[v.event] = back(v.event)
  BY <1>2 DEF Here
<1>6. new \in Rows
  <2>1. \A e \in Event : new[e] \in Row \cup {None, Gone}
    BY <1>1, <1>3, <1>4, <1>5 DEF Rows
  <2> QED  BY <2>1, <1>2 DEF Rows
<1>7. \A e \in Event : e \in Here(new) <=> e \in Here(row)
  <2> SUFFICES ASSUME NEW e \in Event PROVE new[e] \in Row <=> row[e] \in Row
    BY <1>1, <1>6, HereIsRow
  <2>1. CASE \A v \in vs : v.event # e
    BY <2>1, <1>4
  <2>2. CASE \E v \in vs : v.event = e
    <3>1. e \in Here(row) /\ new[e] = back(e)
      BY <2>2, <1>5
    <3> QED  BY <3>1, <1>1, <1>3, HereIsRow
  <2> QED  BY <2>1, <2>2
<1>8. Here(new) = Here(row)
  BY <1>7 DEF Here
<1> QED  BY <1>3, <1>4, <1>5, <1>6, <1>8 DEF new

(* A revert is an undoing, and scans that spare what is decided.           *)
LEMMA RevertIs ==
  ASSUME TInv, NEW pr \in Pair, Revert(pr)
  PROVE  LET vs == {v \in verdict : v.pair = pr}
             new == Undone(row, vs)
             asked == [pair EXCEPT ![pr] = "OPEN"]
         IN /\ row' \in Rows /\ pair' \in [Pair -> PairState]
            /\ Spares(new, row') /\ OnlyAsks(new, asked, pair')
            /\ new \in Rows /\ Here(new) = Here(row) /\ asked \in [Pair -> PairState]
            /\ \A v \in vs : v.event \in {pr[1], pr[2]} /\ v.event \in Here(row)
            /\ {pr[1], pr[2]} \subseteq Here(row)
<1> DEFINE vs == {v \in verdict : v.pair = pr}
           new == Undone(row, vs)
           asked == [pair EXCEPT ![pr] = "OPEN"]
           l == row[pr[1]].data
           r == row[pr[2]].data
           one == ScanDay(new, asked, l.day)
           all == IF l.day = r.day THEN one ELSE ScanDay(one.rows, one.pairs, r.day)
<1>1. /\ {pr[1], pr[2]} \subseteq Here(row) /\ Members(vs) = {pr[1], pr[2]}
      /\ row' = all.rows /\ pair' = all.pairs
  BY DEF Revert
<1>2. \A v \in vs : v.event \in {pr[1], pr[2]} /\ v.event \in Here(row)
  <2>1. \A v \in vs : v.event \in Members(vs)
    BY DEF Members
  <2> QED  BY <1>1, <2>1
<1>3. new \in Rows /\ Here(new) = Here(row)
  <2> HIDE DEF vs
  <2> QED  BY <1>2, UndoneIs
<1>4. asked \in [Pair -> PairState]
  BY Typed DEF PairState
<1> HIDE DEF vs, new, asked, l, r
<1>5. /\ one.rows \in Rows /\ one.pairs \in [Pair -> PairState]
      /\ Spares(new, one.rows) /\ OnlyAsks(new, asked, one.pairs)
  BY <1>3, <1>4, ScanDaySpares
<1> HIDE DEF one
<1>6. CASE l.day = r.day
  BY <1>1, <1>2, <1>3, <1>4, <1>5, <1>6 DEF vs, new, asked
<1>7. CASE l.day # r.day
  <2> DEFINE two == ScanDay(one.rows, one.pairs, r.day)
  <2>1. /\ two.rows \in Rows /\ two.pairs \in [Pair -> PairState]
        /\ Spares(one.rows, two.rows) /\ OnlyAsks(one.rows, one.pairs, two.pairs)
    BY <1>5, ScanDaySpares
  <2>2. row' = two.rows /\ pair' = two.pairs
    BY <1>1, <1>7
  <2> HIDE DEF two
  <2>3. Spares(new, two.rows)
    BY <1>5, <2>1 DEF Spares
  <2>4. OnlyAsks(new, asked, two.pairs)
    <3>1. Here(one.rows) = Here(new)
      BY <1>5 DEF Spares
    <3> QED  BY <1>5, <2>1, <3>1 DEF OnlyAsks
  <2> QED  BY <1>1, <1>2, <1>3, <1>4, <2>1, <2>2, <2>3, <2>4 DEF vs, new, asked
<1> QED  BY <1>6, <1>7

-----------------------------------------------------------------------------
(* What the steps of a scan do.                                            *)

ScanKnows(s) == scan[s].phase # "idle" => KnowsHumans(row, scan[s].held)

(* automation's write to the rows                                          *)
LEMMA AutoDecideIs ==
  ASSUME NEW rows \in Rows, NEW h \in Holdings, NEW e \in Here(rows), NEW c \in Event \cup {None},
         h[e] # None, h[e].by # "HUMAN"
  PROVE  LET new == Decide(rows, e, c, "AUTO")
         IN /\ new \in Rows /\ Here(new) = Here(rows) /\ NoNewHumans(rows, new)
            /\ KnowsHumans(rows, h) => Spares(rows, new)
<1> DEFINE new == Decide(rows, e, c, "AUTO")
<1>1. /\ new \in Rows /\ Here(new) = Here(rows) /\ new[e].by = "AUTO"
      /\ \A d \in Event : d # e => new[d] = rows[d]
  BY Apart, DecideIs
<1> HIDE DEF new
<1>2. NoNewHumans(rows, new)
  BY <1>1 DEF NoNewHumans, Here
<1>3. KnowsHumans(rows, h) => rows[e] \in Row /\ rows[e].by # "HUMAN"
  BY HereIsRow DEF KnowsHumans, Here
<1>4. KnowsHumans(rows, h) => Spares(rows, new)
  BY <1>1, <1>3 DEF Spares
<1> QED  BY <1>1, <1>2, <1>4 DEF new

(* what every step of a scan is                                            *)
ScanOutcome(s) ==
  /\ row' \in Rows /\ Here(row') = Here(row) /\ NoNewHumans(row, row')
  /\ pair' \in [Pair -> PairState] /\ OnlyAsks(row, pair, pair')
  /\ scan' \in [Scanner -> Scan] /\ \A t \in Scanner : t # s => scan'[t] = scan[t]
  /\ UNCHANGED <<verdict, writes, answers>>
  /\ ScanKnows(s) => /\ Spares(row, row')
                     /\ scan'[s].phase # "idle" => KnowsHumans(row, scan'[s].held)

LEMMA ScanFields ==
  ASSUME TInv, NEW s \in Scanner
  PROVE  /\ scan[s] \in Scan /\ scan[s].held \in Holdings /\ scan[s].todo \in SUBSET Pair
BY Typed DEF Scan, Holdings

LEMMA ScanWith ==
  ASSUME NEW p \in {"idle", "release", "compare"}, NEW h \in Holdings, NEW t \in SUBSET Pair
  PROVE  [phase |-> p, held |-> h, todo |-> t] \in Scan
BY DEF Scan, Holdings

LEMMA HeldWith ==
  ASSUME NEW sc \in [Scanner -> Scan], NEW s \in Scanner, NEW h \in Holdings
  PROVE  LET new == [sc EXCEPT ![s].held = h]
         IN /\ new \in [Scanner -> Scan] /\ new[s].held = h /\ new[s].phase = sc[s].phase
            /\ new[s].todo = sc[s].todo /\ \A t \in Scanner : t # s => new[t] = sc[t]
<1>1. sc[s] \in Scan
  OBVIOUS
<1>2. [sc[s] EXCEPT !.held = h] \in Scan
  BY <1>1 DEF Scan, Holdings
<1> QED  BY <1>1, <1>2 DEF Scan

LEMMA TodoWith ==
  ASSUME NEW sc \in [Scanner -> Scan], NEW s \in Scanner, NEW todo \in SUBSET Pair
  PROVE  LET new == [sc EXCEPT ![s].todo = todo]
         IN /\ new \in [Scanner -> Scan] /\ new[s].held = sc[s].held
            /\ \A t \in Scanner : t # s => new[t] = sc[t]
<1>1. sc[s] \in Scan
  OBVIOUS
<1>2. [sc[s] EXCEPT !.todo = todo] \in Scan
  BY <1>1 DEF Scan
<1> QED  BY <1>1, <1>2 DEF Scan

LEMMA RowsStay ==
  ASSUME TInv, UNCHANGED <<row, pair, verdict, writes, answers>>,
         NEW s \in Scanner, NEW w \in Scan, scan' = [scan EXCEPT ![s] = w],
         ScanKnows(s) => (w.phase # "idle" => KnowsHumans(row, w.held))
  PROVE  ScanOutcome(s)
<1>1. scan' \in [Scanner -> Scan] /\ scan'[s] = w /\ \A t \in Scanner : t # s => scan'[t] = scan[t]
  BY Typed
<1>2. row' = row /\ pair' = pair /\ Spares(row, row) /\ NoNewHumans(row, row)
      /\ OnlyAsks(row, pair, pair)
  BY DEF Spares, NoNewHumans, OnlyAsks
<1> QED  BY <1>1, <1>2, Typed DEF ScanOutcome

LEMMA IdleIsScan == Idle \in Scan /\ Idle.phase = "idle"
BY DEF Idle, Scan

LEMMA StartScanIs ==
  ASSUME TInv, NEW s \in Scanner, StartScan(s)
  PROVE  ScanOutcome(s)
<1> DEFINE scope == {e \in Here(row) : ~row[e].data.rejected}
<1>1. PICK h \in Holdings :
        /\ h = Read(row, scope)
        /\ \A e \in Event : h[e] # None => e \in scope /\ h[e].by = row[e].by
  <2>1. scope \in SUBSET Here(row)
    OBVIOUS
  <2> HIDE DEF scope
  <2> QED  BY <2>1, Typed, ReadIs
<1> DEFINE w == [phase |-> "release", held |-> h, todo |-> Pair]
<1>2. w \in Scan
  BY ScanWith
<1>3. scan' = [scan EXCEPT ![s] = w] /\ UNCHANGED <<row, pair, verdict, writes, answers>>
  <2>1. scan' = [scan EXCEPT ![s] =
                   [phase |-> "release", todo |-> Pair, held |-> Read(row, scope)]]
    BY DEF StartScan
  <2>2. UNCHANGED <<row, pair, verdict, writes, answers>>
    BY DEF StartScan
  <2> HIDE DEF scope
  <2> QED  BY <1>1, <2>1, <2>2
<1>4. KnowsHumans(row, w.held)
  BY <1>1 DEF KnowsHumans, Here
<1> HIDE DEF w
<1> QED  BY <1>2, <1>3, <1>4, RowsStay

LEMMA ReleaseOneIs ==
  ASSUME TInv, NEW s \in Scanner, ReleaseOne(s)
  PROVE  ScanOutcome(s)
<1>1. PICK e \in Event : /\ IsStale(scan[s].held, e) /\ e \in Here(row)
                         /\ row' = Decide(row, e, None, "AUTO")
                         /\ scan' = [scan EXCEPT ![s].held = Unheld(@, e)]
  BY DEF ReleaseOne, ToRelease
<1>2. UNCHANGED <<pair, verdict, writes, answers>>
  BY DEF ReleaseOne
<1>3. scan[s].held \in Holdings /\ row \in Rows
  BY ScanFields, Typed
<1>4. PICK h \in Holdings :
        /\ h = Unheld(scan[s].held, e) /\ scan[s].held[e] # None /\ scan[s].held[e].by # "HUMAN"
        /\ \A d \in Event : d # e => /\ scan[s].held[d] = None => h[d] = None
                                     /\ scan[s].held[d] # None => h[d].by = scan[s].held[d].by
  BY <1>1, <1>3, UnheldIs
<1>5. scan' \in [Scanner -> Scan] /\ scan'[s].held = h /\ scan'[s].phase = scan[s].phase
      /\ \A t \in Scanner : t # s => scan'[t] = scan[t]
  <2> DEFINE new == [scan EXCEPT ![s].held = h]
  <2>1. scan' = new
    BY <1>1, <1>4
  <2>2. /\ new \in [Scanner -> Scan] /\ new[s].held = h /\ new[s].phase = scan[s].phase
        /\ \A t \in Scanner : t # s => new[t] = scan[t]
    BY Typed, HeldWith
  <2> HIDE DEF new
  <2> QED  BY <2>1, <2>2
<1>6. /\ row' \in Rows /\ Here(row') = Here(row) /\ NoNewHumans(row, row')
      /\ KnowsHumans(row, scan[s].held) => Spares(row, row')
  <2> DEFINE new == Decide(row, e, None, "AUTO")
  <2>1. /\ new \in Rows /\ Here(new) = Here(row) /\ NoNewHumans(row, new)
        /\ KnowsHumans(row, scan[s].held) => Spares(row, new)
    BY <1>1, <1>3, <1>4, AutoDecideIs
  <2>2. row' = new
    BY <1>1
  <2> HIDE DEF new
  <2> QED  BY <2>1, <2>2
<1>7. KnowsHumans(row, scan[s].held) => KnowsHumans(row, h)
  <2> SUFFICES ASSUME KnowsHumans(row, scan[s].held), NEW d \in Here(row), h[d] # None,
                      row[d].by = "HUMAN"
               PROVE  h[d].by = "HUMAN"
    BY DEF KnowsHumans
  <2>1. d \in Event /\ d # e
    BY <1>1, <1>4 DEF KnowsHumans, Here
  <2> QED  BY <1>4, <2>1 DEF KnowsHumans
<1>8. scan[s].phase # "idle"
  BY DEF ReleaseOne
<1> QED  BY <1>2, <1>5, <1>6, <1>7, <1>8, Typed DEF ScanOutcome, ScanKnows, OnlyAsks

LEMMA CompareOneIs ==
  ASSUME TInv, NEW s \in Scanner, CompareOne(s)
  PROVE  ScanOutcome(s)
<1> DEFINE held == scan[s].held
<1>1. PICK pr \in Pair :
        /\ Matters(held, pr) /\ {pr[1], pr[2]} \subseteq Here(row)
        /\ IF IsMerge(held, pr)
           THEN /\ row' = Decide(row, Lost(held, pr), Kept(held, pr), "AUTO")
                /\ scan' = [scan EXCEPT ![s].held = HeldMerge(@, pr),
                                        ![s].todo = {qr \in @ : Before(pr, qr)}]
                /\ UNCHANGED pair
           ELSE /\ pair' = Asked(pair, pr)
                /\ scan' = [scan EXCEPT ![s].todo = {qr \in @ : Before(pr, qr)}]
                /\ UNCHANGED row
  <2>1. scan[s].todo \in SUBSET Pair
    BY ScanFields
  <2> QED  BY <2>1 DEF CompareOne, ToCompare
<1>2. UNCHANGED <<verdict, writes, answers>> /\ scan[s].phase = "compare"
  BY DEF CompareOne
<1>3. held \in Holdings /\ row \in Rows /\ scan[s].todo \in SUBSET Pair
  BY ScanFields, Typed
<1> DEFINE rest == {qr \in scan[s].todo : Before(pr, qr)}
<1>4. CASE IsMerge(held, pr)
  <2>1. PICK k \in Event, l \in Event :
          k = Kept(held, pr) /\ l = Lost(held, pr) /\ {l, k} = {pr[1], pr[2]}
    BY <1>3, OneIsLost
  <2>2. PICK h \in Holdings :
          /\ h = HeldMerge(held, pr)
          /\ \A e \in {pr[1], pr[2]} : held[e] # None /\ held[e].by # "HUMAN"
          /\ \A e \in Event : /\ held[e] = None => h[e] = None
                              /\ held[e] # None => h[e].by = held[e].by
    BY <1>1, <1>3, HeldMergeIs
  <2>5. /\ scan' \in [Scanner -> Scan] /\ scan'[s].held = h
        /\ \A t \in Scanner : t # s => scan'[t] = scan[t]
    <3> DEFINE one == [scan EXCEPT ![s].held = h]
               two == [one EXCEPT ![s].todo = rest]
    <3>1. /\ one \in [Scanner -> Scan] /\ one[s].held = h /\ one[s].todo = scan[s].todo
          /\ \A t \in Scanner : t # s => one[t] = scan[t]
      BY Typed, HeldWith
    <3>2. scan' = two
      <4>1. scan' = [one EXCEPT ![s].todo = {qr \in one[s].todo : Before(pr, qr)}]
        BY <1>1, <1>4, <2>2, Typed
      <4> HIDE DEF one
      <4> QED  BY <3>1, <4>1
    <3> HIDE DEF one
    <3>3. rest \in SUBSET Pair
      BY <1>3
    <3> HIDE DEF rest
    <3>4. /\ two \in [Scanner -> Scan] /\ two[s].held = one[s].held
          /\ \A t \in Scanner : t # s => two[t] = one[t]
      BY <3>1, <3>3, TodoWith
    <3> HIDE DEF two
    <3> QED  BY <3>1, <3>2, <3>4
  <2>6. /\ row' \in Rows /\ Here(row') = Here(row) /\ NoNewHumans(row, row')
        /\ KnowsHumans(row, held) => Spares(row, row')
    <3> DEFINE new == Decide(row, l, k, "AUTO")
    <3>1. l \in Here(row) /\ held[l] # None /\ held[l].by # "HUMAN"
      BY <1>1, <2>1, <2>2
    <3>2. /\ new \in Rows /\ Here(new) = Here(row) /\ NoNewHumans(row, new)
          /\ KnowsHumans(row, held) => Spares(row, new)
      <4> HIDE DEF held
      <4> QED  BY <1>3, <3>1, AutoDecideIs
    <3>3. row' = new
      BY <1>1, <1>4, <2>1
    <3> HIDE DEF new
    <3> QED  BY <3>2, <3>3
  <2>7. KnowsHumans(row, held) => KnowsHumans(row, h)
    BY <2>2 DEF KnowsHumans, Here
  <2>8. pair' = pair
    BY <1>1, <1>4
  <2> QED  BY <1>2, <2>5, <2>6, <2>7, <2>8, Typed DEF ScanOutcome, ScanKnows, OnlyAsks
<1>5. CASE ~IsMerge(held, pr)
  <2>1. /\ pair' \in [Pair -> PairState]
        /\ \A qr \in Pair : pair'[qr] = pair[qr] \/ (qr = pr /\ pair[qr] = "none" /\ pair'[qr] = "OPEN")
    BY <1>1, <1>5, Typed, AskedIs
  <2>2. OnlyAsks(row, pair, pair')
    BY <1>1, <2>1 DEF OnlyAsks
  <2>3. row' = row
    BY <1>1, <1>5
  <2>4. Spares(row, row) /\ NoNewHumans(row, row)
    BY DEF Spares, NoNewHumans
  <2>7. /\ scan' \in [Scanner -> Scan] /\ scan'[s].held = held
        /\ \A t \in Scanner : t # s => scan'[t] = scan[t]
    <3> DEFINE new == [scan EXCEPT ![s].todo = rest]
    <3>1. scan' = new
      BY <1>1, <1>5
    <3>2. rest \in SUBSET Pair
      BY <1>3
    <3> HIDE DEF rest
    <3>3. /\ new \in [Scanner -> Scan] /\ new[s].held = held
          /\ \A t \in Scanner : t # s => new[t] = scan[t]
      BY <3>2, Typed, TodoWith
    <3> HIDE DEF new
    <3> QED  BY <3>1, <3>3
  <2> QED  BY <1>2, <2>1, <2>2, <2>3, <2>4, <2>7, Typed DEF ScanOutcome, ScanKnows
<1> QED  BY <1>4, <1>5

LEMMA ScanStepIs ==
  ASSUME TInv, NEW s \in Scanner, ScanStep(s) \/ Crash(s)
  PROVE  ScanOutcome(s)
<1>1. CASE StartScan(s)
  BY <1>1, StartScanIs
<1>2. CASE ReleaseOne(s)
  BY <1>2, ReleaseOneIs
<1>3. CASE EndRelease(s)
  <2> DEFINE w == [phase |-> "compare", held |-> scan[s].held, todo |-> scan[s].todo]
  <2>1. w \in Scan
    BY ScanFields, ScanWith
  <2>2. [scan[s] EXCEPT !.phase = "compare"] = w
    <3>1. scan[s] \in Scan
      BY ScanFields
    <3> QED  BY <3>1 DEF Scan
  <2>3. scan' = [scan EXCEPT ![s] = w]
    BY <1>3, <2>2 DEF EndRelease
  <2>4. ScanKnows(s) => KnowsHumans(row, w.held)
    BY <1>3 DEF EndRelease, ScanKnows
  <2>5. UNCHANGED <<row, pair, verdict, writes, answers>>
    BY <1>3 DEF EndRelease
  <2> HIDE DEF w
  <2> QED  BY <2>1, <2>3, <2>4, <2>5, RowsStay
<1>4. CASE CompareOne(s)
  BY <1>4, CompareOneIs
<1>5. CASE EndScan(s)
  BY <1>5, IdleIsScan, RowsStay DEF EndScan
<1>6. CASE Abort(s)
  BY <1>6, IdleIsScan, RowsStay DEF Abort
<1>7. CASE Crash(s)
  BY <1>7, IdleIsScan, RowsStay DEF Crash
<1> QED  BY <1>1, <1>2, <1>3, <1>4, <1>5, <1>6, <1>7 DEF ScanStep

-----------------------------------------------------------------------------
(* Types.                                                                  *)

LEMMA QuestionsStay ==
  ASSUME NEW rows, NEW new, NEW pairs, Here(rows) \subseteq Here(new),
         QuestionsAreHere(rows, pairs)
  PROVE  QuestionsAreHere(new, pairs)
BY DEF QuestionsAreHere

LEMMA AskedAreHere ==
  ASSUME NEW rows, NEW new, Here(rows) \subseteq Here(new), NEW pairs, NEW asked,
         QuestionsAreHere(rows, pairs), OnlyAsks(rows, pairs, asked)
  PROVE  QuestionsAreHere(new, asked)
<1> SUFFICES ASSUME NEW pr \in Pair, asked[pr] # "none" PROVE {pr[1], pr[2]} \subseteq Here(rows)
  BY DEF QuestionsAreHere
<1> QED  BY DEF QuestionsAreHere, OnlyAsks

(* the row that an answer writes                                           *)
LEMMA AnswerIs ==
  ASSUME TInv, NEW pr \in Pair, Answerable(pr), NEW e \in Event, NEW c \in Event \cup {None}
  PROVE  /\ [n |-> answers + 1, pair |-> pr, event |-> e, canonical |-> c] \in Verdict
         /\ answers + 1 \in 0 .. MaxAnswers
<1>1. answers + 1 \in 1 .. MaxAnswers /\ answers + 1 \in 0 .. MaxAnswers
  BY Typed DEF Answerable
<1> QED  BY <1>1 DEF Verdict

LEMMA TInit == Init => TInv
<1> SUFFICES ASSUME Init PROVE TInv
  OBVIOUS
<1>1. [e \in Event |-> None] \in Holdings
  BY DEF Holdings
<1>2. Idle \in Scan
  BY IdleIsScan
<1> QED  BY <1>2, DuplicatesAssumption DEF Init, TInv, TypeOK, QuestionsAreHere, PairState

LEMMA TInvIs ==
  ASSUME row' \in Rows, pair' \in [Pair -> PairState], verdict' \in SUBSET Verdict,
         scan' \in [Scanner -> Scan], writes' \in 0 .. MaxWrites, answers' \in 0 .. MaxAnswers,
         QuestionsAreHere(row', pair')
  PROVE  TInv'
BY DEF TInv, TypeOK, Rows

LEMMA WritesTInv ==
  ASSUME TInv, NEW e \in Event, New(e) \/ Rewrite(e) \/ LoseVenue(e)
  PROVE  TInv'
<1>1. row' \in Rows /\ Keeps(row, row')
  BY NewIs, RewriteIs, LoseVenueIs
<1>2. UNCHANGED <<pair, verdict, scan, answers>>
      /\ (writes' = writes \/ (writes < MaxWrites /\ writes' = writes + 1))
  <2>1. CASE New(e)
    BY <2>1 DEF New
  <2>2. CASE Rewrite(e)
    BY <2>2 DEF Rewrite
  <2>3. CASE LoseVenue(e)
    BY <2>3 DEF LoseVenue
  <2> QED  BY <2>1, <2>2, <2>3
<1>3. writes' \in 0 .. MaxWrites
  BY <1>2, Typed
<1>4. QuestionsAreHere(row', pair)
  BY <1>1, HereGrows, QuestionsStay DEF TInv
<1> QED  BY <1>1, <1>2, <1>3, <1>4, Typed, TInvIs

LEMMA PruneTInv ==
  ASSUME TInv, NEW e \in Event, Prune(e)
  PROVE  TInv'
<1>1. row' \in Rows /\ Here(row') = Here(row) \ {e}
  BY PruneIs
<1>2. /\ pair' = [pr \in Pair |-> IF e \in {pr[1], pr[2]} THEN "none" ELSE pair[pr]]
      /\ verdict' \in SUBSET Verdict /\ UNCHANGED <<scan, writes, answers>>
  BY Typed DEF Prune
<1>3. pair' \in [Pair -> PairState]
  BY <1>2, Typed DEF PairState
<1>4. QuestionsAreHere(row', pair')
  BY <1>1, <1>2 DEF TInv, QuestionsAreHere
<1> QED  BY <1>1, <1>2, <1>3, <1>4, Typed, TInvIs

LEMMA KeepSeparateTInv ==
  ASSUME TInv, NEW pr \in Pair, KeepSeparate(pr)
  PROVE  TInv'
<1>1. row' \in Rows /\ Here(row') = Here(row) /\ {pr[1], pr[2]} \subseteq Here(row)
  BY KeepSeparateIs
<1>2. /\ pair' = [pair EXCEPT ![pr] = "DISTINCT"] /\ answers' = answers + 1
      /\ verdict' = verdict \cup
           {[n |-> answers + 1, pair |-> pr, event |-> e, canonical |-> None] : e \in {pr[1], pr[2]}}
      /\ UNCHANGED <<scan, writes>> /\ Answerable(pr)
  BY DEF KeepSeparate
<1>3. verdict' \in SUBSET Verdict /\ answers' \in 0 .. MaxAnswers
  <2>1. \A e \in {pr[1], pr[2]} :
          [n |-> answers + 1, pair |-> pr, event |-> e, canonical |-> None] \in Verdict
    BY <1>2, PairFields, AnswerIs
  <2>2. answers + 1 \in 0 .. MaxAnswers
    BY <1>2, PairFields, AnswerIs
  <2> QED  BY <1>2, <2>1, <2>2, Typed
<1>4. pair' \in [Pair -> PairState]
  BY <1>2, Typed DEF PairState
<1>5. QuestionsAreHere(row', pair')
  BY <1>1, <1>2, Typed DEF TInv, QuestionsAreHere
<1> QED  BY <1>1, <1>2, <1>3, <1>4, <1>5, Typed, TInvIs

LEMMA SameEventTInv ==
  ASSUME TInv, NEW pr \in Pair, NEW keep \in Event, NEW fold \in Event, SameEvent(pr, keep, fold)
  PROVE  TInv'
<1>1. row' \in Rows /\ Here(row') = Here(row) /\ {pr[1], pr[2]} \subseteq Here(row)
  BY SameEventIs
<1>2. /\ pair' = [pair EXCEPT ![pr] = "MERGED"] /\ answers' = answers + 1
      /\ verdict' = verdict \cup
           {[n |-> answers + 1, pair |-> pr, event |-> fold, canonical |-> keep]}
      /\ UNCHANGED <<scan, writes>> /\ Answerable(pr)
  BY DEF SameEvent
<1>3. verdict' \in SUBSET Verdict /\ answers' \in 0 .. MaxAnswers
  <2>1. /\ [n |-> answers + 1, pair |-> pr, event |-> fold, canonical |-> keep] \in Verdict
        /\ answers + 1 \in 0 .. MaxAnswers
    BY <1>2, AnswerIs
  <2> QED  BY <1>2, <2>1, Typed
<1>4. pair' \in [Pair -> PairState]
  BY <1>2, Typed DEF PairState
<1>5. QuestionsAreHere(row', pair')
  BY <1>1, <1>2, Typed DEF TInv, QuestionsAreHere
<1> QED  BY <1>1, <1>2, <1>3, <1>4, <1>5, Typed, TInvIs

LEMMA RevertTInv ==
  ASSUME TInv, NEW pr \in Pair, Revert(pr)
  PROVE  TInv'
<1> DEFINE vs == {v \in verdict : v.pair = pr}
           new == Undone(row, vs)
           asked == [pair EXCEPT ![pr] = "OPEN"]
<1>1. /\ row' \in Rows /\ pair' \in [Pair -> PairState]
      /\ Spares(new, row') /\ OnlyAsks(new, asked, pair')
      /\ Here(new) = Here(row) /\ {pr[1], pr[2]} \subseteq Here(row)
  BY RevertIs
<1>2. verdict' \in SUBSET Verdict /\ UNCHANGED <<scan, writes, answers>>
  BY Typed DEF Revert
<1>3. QuestionsAreHere(row, asked)
  BY <1>1, Typed DEF TInv, QuestionsAreHere
<1> HIDE DEF new, asked
<1>4. QuestionsAreHere(row', pair')
  <2>1. Here(row) \subseteq Here(new) /\ Here(new) \subseteq Here(row')
    BY <1>1 DEF Spares
  <2>2. QuestionsAreHere(new, asked)
    BY <1>3, <2>1, QuestionsStay
  <2> QED  BY <1>1, <2>1, <2>2, AskedAreHere
<1> QED  BY <1>1, <1>2, <1>4, Typed, TInvIs

LEMMA ScanTInv ==
  ASSUME TInv, NEW s \in Scanner, ScanStep(s) \/ Crash(s)
  PROVE  TInv'
<1>1. ScanOutcome(s)
  BY ScanStepIs
<1>2. QuestionsAreHere(row', pair')
  BY <1>1, AskedAreHere DEF ScanOutcome, TInv
<1> QED  BY <1>1, <1>2, Typed, TInvIs DEF ScanOutcome

LEMMA TNext == TInv /\ [Next]_vars => TInv'
<1> SUFFICES ASSUME TInv, [Next]_vars PROVE TInv'
  OBVIOUS
<1>1. ASSUME NEW e \in Event, New(e) \/ Rewrite(e) \/ LoseVenue(e) \/ Prune(e) PROVE TInv'
  BY <1>1, WritesTInv, PruneTInv
<1>2. ASSUME Answer PROVE TInv'
  <2>1. PICK pr \in Pair : \/ KeepSeparate(pr) \/ Revert(pr)
                           \/ \E keep, fold \in Event : SameEvent(pr, keep, fold)
    BY <1>2 DEF Answer
  <2> QED  BY <2>1, KeepSeparateTInv, SameEventTInv, RevertTInv
<1>3. ASSUME NEW s \in Scanner, ScanStep(s) \/ Crash(s) PROVE TInv'
  BY <1>3, ScanTInv
<1>4. CASE UNCHANGED vars
  BY <1>4 DEF vars, TInv, TypeOK, QuestionsAreHere, Here
<1> QED  BY <1>1, <1>2, <1>3, <1>4 DEF Next

(* Every table and every local variable of a scan keeps its type, for any  *)
(* events, venues and words, any number of scans at a time, and whatever   *)
(* the scan inside a revert makes of the rows.                             *)
THEOREM TypeCorrect == Spec => []TypeOK
<1>1. TInv => TypeOK
  BY DEF TInv
<1> QED  BY TInit, TNext, <1>1, PTL DEF Spec

-----------------------------------------------------------------------------
(* A person's answers.                                                     *)

(* what a standing answer is of: one of two events that were there, and    *)
(* a pair that says so unless one of the two is gone                       *)
AnswerIsOf(rows, pairs, v) ==
  /\ v.event \in {v.pair[1], v.pair[2]} /\ v.event \in Here(rows)
  /\ v.canonical # None => {v.event, v.canonical} = {v.pair[1], v.pair[2]}
  /\ \/ pairs[v.pair] \in {"MERGED", "DISTINCT"}
     \/ \E e \in {v.pair[1], v.pair[2]} : rows[e] = Gone
  /\ pairs[v.pair] = "MERGED" => v.canonical # None

(* AnswersStand, of one pair and answer by answer                          *)
OpenStands(pairs, vds, pr) ==
  pairs[pr] = "OPEN" => \A v \in vds : v.pair # pr

MergeStands(rows, pairs, vds, pr) ==
  pairs[pr] = "MERGED" =>
    \E v \in vds : /\ v.pair = pr /\ \A u \in vds : u.pair = pr => u = v
                   /\ rows[v.event].canonical = v.canonical /\ rows[v.event].by = "HUMAN"

DistinctStands(rows, pairs, vds, pr) ==
  pairs[pr] = "DISTINCT" =>
    /\ \A e \in {pr[1], pr[2]} : \E v \in vds : v.pair = pr /\ v.event = e
    /\ \A v \in vds : v.pair = pr => v.canonical = None /\ rows[v.event].by = "HUMAN"

PairStands(rows, pairs, vds, pr) ==
  /\ OpenStands(pairs, vds, pr)
  /\ MergeStands(rows, pairs, vds, pr)
  /\ DistinctStands(rows, pairs, vds, pr)

Stands(rows, pairs, vds) ==
  /\ \A v \in vds : AnswerIsOf(rows, pairs, v)
  /\ \A pr \in Pair : PairStands(rows, pairs, vds, pr)

(* ... and no scan takes a row that a person decided for one of its own    *)
SInv == TInv /\ Stands(row, pair, verdict) /\ \A s \in Scanner : ScanKnows(s)

GoneStay(rows, new) == \A e \in Event : rows[e] = Gone => new[e] = Gone

LEMMA VerdictFields ==
  ASSUME NEW v \in Verdict
  PROVE  /\ v.pair \in Pair /\ v.event \in Event /\ v.canonical \in Event \cup {None}
         /\ v.pair[1] \in Event /\ v.pair[2] \in Event /\ v.pair[1] # v.pair[2]
<1>1. v.pair \in Pair /\ v.event \in Event /\ v.canonical \in Event \cup {None}
  BY DEF Verdict
<1> QED  BY <1>1, PairFields

(* a pair whose answers are what they were, and whose events were not      *)
(* taken out of a person's hands                                           *)
LEMMA OthersStand ==
  ASSUME NEW rows, NEW new, NEW pairs, NEW asked, NEW vds, NEW left, NEW pr \in Pair,
         PairStands(rows, pairs, vds, pr), asked[pr] = pairs[pr],
         {v \in left : v.pair = pr} = {v \in vds : v.pair = pr},
         \A v \in vds : v.pair = pr /\ rows[v.event].by = "HUMAN" =>
           /\ new[v.event].by = "HUMAN"
           /\ pairs[pr] = "MERGED" /\ rows[v.event].canonical = v.canonical =>
                new[v.event].canonical = v.canonical
  PROVE  PairStands(new, asked, left, pr)
<1>1. OpenStands(asked, left, pr)
  BY DEF PairStands, OpenStands
<1>2. MergeStands(new, asked, left, pr)
  <2> SUFFICES ASSUME pairs[pr] = "MERGED"
               PROVE  \E v \in left :
                        /\ v.pair = pr /\ \A u \in left : u.pair = pr => u = v
                        /\ new[v.event].canonical = v.canonical /\ new[v.event].by = "HUMAN"
    BY DEF MergeStands
  <2>1. PICK v \in vds : /\ v.pair = pr /\ \A u \in vds : u.pair = pr => u = v
                         /\ rows[v.event].canonical = v.canonical /\ rows[v.event].by = "HUMAN"
    BY DEF PairStands, MergeStands
  <2>2. v \in left /\ \A u \in left : u.pair = pr => u \in vds
    BY <2>1
  <2>3. new[v.event].canonical = v.canonical /\ new[v.event].by = "HUMAN"
    BY <2>1
  <2> QED  BY <2>1, <2>2, <2>3
<1>3. DistinctStands(new, asked, left, pr)
  <2> SUFFICES ASSUME pairs[pr] = "DISTINCT"
               PROVE  /\ \A e \in {pr[1], pr[2]} : \E v \in left : v.pair = pr /\ v.event = e
                      /\ \A v \in left : v.pair = pr => v.canonical = None /\ new[v.event].by = "HUMAN"
    BY DEF DistinctStands
  <2>1. /\ \A e \in {pr[1], pr[2]} : \E v \in vds : v.pair = pr /\ v.event = e
        /\ \A v \in vds : v.pair = pr => v.canonical = None /\ rows[v.event].by = "HUMAN"
    BY DEF PairStands, DistinctStands
  <2>2. \A v \in vds : v.pair = pr => v \in left
    OBVIOUS
  <2>3. \A v \in left : v.pair = pr => v \in vds
    OBVIOUS
  <2> QED  BY <2>1, <2>2, <2>3
<1> QED  BY <1>1, <1>2, <1>3 DEF PairStands

(* What no person does leaves the answers alone.                           *)
LEMMA QuietStands ==
  ASSUME NEW rows, NEW new, NEW pairs, NEW asked, NEW vds \in SUBSET Verdict,
         Stands(rows, pairs, vds), Keeps(rows, new), OnlyAsks(rows, pairs, asked),
         GoneStay(rows, new)
  PROVE  Stands(new, asked, vds)
<1>1. \A v \in vds : /\ v.pair \in Pair /\ v.event \in Event /\ AnswerIsOf(rows, pairs, v)
                     /\ v.pair[1] \in Event /\ v.pair[2] \in Event
  BY VerdictFields DEF Stands
<1>2. ASSUME NEW pr \in Pair, asked[pr] # pairs[pr]
      PROVE  pairs[pr] = "none" /\ asked[pr] = "OPEN" /\ \A v \in vds : v.pair # pr
  <2>1. pairs[pr] = "none" /\ asked[pr] = "OPEN" /\ {pr[1], pr[2]} \subseteq Here(rows)
    BY <1>2 DEF OnlyAsks
  <2>2. \A e \in {pr[1], pr[2]} : rows[e] # Gone
    BY <2>1 DEF Here
  <2> QED  BY <1>1, <2>1, <2>2 DEF AnswerIsOf
<1>3. ASSUME NEW v \in vds PROVE AnswerIsOf(new, asked, v)
  <2>1. asked[v.pair] = pairs[v.pair]
    BY <1>1, <1>2
  <2> QED  BY <1>1, <2>1 DEF AnswerIsOf, Keeps, GoneStay
<1>4. ASSUME NEW pr \in Pair PROVE PairStands(new, asked, vds, pr)
  <2>1. CASE asked[pr] # pairs[pr]
    BY <1>2, <2>1 DEF PairStands, OpenStands, MergeStands, DistinctStands
  <2>2. CASE asked[pr] = pairs[pr]
    <3>1. PairStands(rows, pairs, vds, pr)
      BY DEF Stands
    <3>2. ASSUME NEW v \in vds, v.pair = pr, rows[v.event].by = "HUMAN"
          PROVE  new[v.event].by = "HUMAN" /\ new[v.event].canonical = rows[v.event].canonical
      BY <1>1, <3>2 DEF AnswerIsOf, Keeps
    <3> QED  BY <2>2, <3>1, <3>2, OthersStand
  <2> QED  BY <2>1, <2>2
<1> QED  BY <1>3, <1>4 DEF Stands

LEMMA SparesKeeps ==
  ASSUME NEW rows \in Rows, NEW new, Spares(rows, new)
  PROVE  Keeps(rows, new) /\ GoneStay(rows, new)
<1>1. Keeps(rows, new)
  BY DEF Spares, Keeps, Here
<1>2. GoneStay(rows, new)
  BY Apart DEF Spares, GoneStay
<1> QED  BY <1>1, <1>2

LEMMA KnowsStays ==
  ASSUME NEW rows, NEW new, NEW held, KnowsHumans(rows, held), NoNewHumans(rows, new)
  PROVE  KnowsHumans(new, held)
BY DEF KnowsHumans, NoNewHumans

LEMMA WritesGone ==
  ASSUME TInv, NEW e \in Event, New(e) \/ Rewrite(e) \/ LoseVenue(e) \/ Prune(e)
  PROVE  GoneStay(row, row')
<1> SUFFICES ASSUME NEW d \in Event, row[d] = Gone PROVE row'[d] = Gone
  BY DEF GoneStay
<1>1. row \in Rows /\ d \notin Here(row)
  BY Typed DEF Here
<1>2. CASE New(e)
  <2>1. d # e
    BY <1>2, DuplicatesAssumption DEF New
  <2> QED  BY <1>1, <1>2, <2>1 DEF New, Rows
<1>3. CASE Rewrite(e)
  <2>1. d # e
    BY <1>1, <1>3 DEF Rewrite
  <2> QED  BY <1>1, <1>3, <2>1 DEF Rewrite, Rows
<1>4. CASE LoseVenue(e)
  <2>1. d # e
    BY <1>1, <1>4 DEF LoseVenue
  <2>2. row'[d] = row[d]
    BY <1>1, <1>4, <2>1 DEF LoseVenue
  <2> QED  BY <2>2
<1>5. CASE Prune(e)
  <2>1. d # e
    BY <1>1, <1>5 DEF Prune
  <2>2. row'[d] = row[d]
    BY <1>1, <1>5, <2>1 DEF Prune
  <2> QED  BY <2>2
<1> QED  BY <1>2, <1>3, <1>4, <1>5

(* What normalization writes.                                              *)
LEMMA WritesStand ==
  ASSUME SInv, NEW e \in Event, New(e) \/ Rewrite(e) \/ LoseVenue(e)
  PROVE  Stands(row', pair', verdict') /\ \A s \in Scanner : ScanKnows(s)'
<1>1. TInv /\ verdict \in SUBSET Verdict /\ Stands(row, pair, verdict)
  BY Typed DEF SInv
<1>2. Keeps(row, row') /\ NoNewHumans(row, row') /\ GoneStay(row, row')
  BY <1>1, NewIs, RewriteIs, LoseVenueIs, WritesGone
<1>3. UNCHANGED <<pair, verdict, scan>>
  BY DEF New, Rewrite, LoseVenue
<1>4. Stands(row', pair, verdict)
  <2>1. OnlyAsks(row, pair, pair)
    BY DEF OnlyAsks
  <2> QED  BY <1>1, <1>2, <2>1, QuietStands
<1>5. \A s \in Scanner : ScanKnows(s)'
  BY <1>2, <1>3, KnowsStays DEF SInv, ScanKnows
<1> QED  BY <1>3, <1>4, <1>5

LEMMA ScanStands ==
  ASSUME SInv, NEW s \in Scanner, ScanStep(s) \/ Crash(s)
  PROVE  Stands(row', pair', verdict') /\ \A t \in Scanner : ScanKnows(t)'
<1>1. TInv /\ row \in Rows /\ verdict \in SUBSET Verdict /\ Stands(row, pair, verdict)
  BY Typed DEF SInv
<1>2. ScanOutcome(s)
  BY <1>1, ScanStepIs
<1>3. Spares(row, row') /\ (scan'[s].phase # "idle" => KnowsHumans(row, scan'[s].held))
  BY <1>2 DEF SInv, ScanOutcome
<1>4. Keeps(row, row') /\ GoneStay(row, row')
  BY <1>1, <1>3, SparesKeeps
<1>5. Stands(row', pair', verdict)
  BY <1>1, <1>2, <1>4, QuietStands DEF ScanOutcome
<1>6. ASSUME NEW t \in Scanner PROVE ScanKnows(t)'
  <2>1. scan'[t].phase # "idle" => KnowsHumans(row, scan'[t].held)
    BY <1>2, <1>3 DEF SInv, ScanOutcome, ScanKnows
  <2>2. NoNewHumans(row, row')
    BY <1>2 DEF ScanOutcome
  <2> QED  BY <2>1, <2>2, KnowsStays DEF ScanKnows
<1> QED  BY <1>2, <1>5, <1>6 DEF ScanOutcome


(* A prune takes the answers on its event with it; what a person folded    *)
(* under the event would lose its answer, so nobody prunes that.           *)
LEMMA PruneStands ==
  ASSUME SInv, "prune" \notin Beside, NEW e \in Event, Prune(e)
  PROVE  Stands(row', pair', verdict') /\ \A s \in Scanner : ScanKnows(s)'
<1> DEFINE rest == [row EXCEPT ![e] = Gone]
           left == {v \in verdict : v.event # e}
<1>1. TInv /\ row \in Rows /\ verdict \in SUBSET Verdict /\ Stands(row, pair, verdict)
  BY Typed DEF SInv
<1>2. /\ NoNewHumans(row, row') /\ Keeps(rest, row') /\ GoneStay(row, row')
      /\ Here(row') = Here(row) \ {e} /\ row' \in Rows
  BY <1>1, PruneIs, WritesGone
<1>3. /\ pair' = [pr \in Pair |-> IF e \in {pr[1], pr[2]} THEN "none" ELSE pair[pr]]
      /\ verdict' = left /\ UNCHANGED scan /\ row'[e] = Gone
  BY DEF Prune
<1>4. rest[e] = Gone /\ \A d \in Event : d # e => rest[d] = row[d]
  BY <1>1 DEF Rows
<1>5. Here(rest) = Here(row) \ {e}
  BY <1>4 DEF Here
<1> HIDE DEF rest
<1>6. \A v \in verdict : /\ v.pair \in Pair /\ v.event \in Event /\ AnswerIsOf(row, pair, v)
                         /\ v.pair[1] \in Event /\ v.pair[2] \in Event
  BY <1>1, VerdictFields DEF Stands
<1>7. ASSUME NEW v \in left PROVE AnswerIsOf(rest, pair', v)
  BY <1>3, <1>4, <1>5, <1>6 DEF AnswerIsOf
<1>8. ASSUME NEW pr \in Pair PROVE PairStands(rest, pair', left, pr)
  <2>1. CASE e \in {pr[1], pr[2]}
    <3>1. pair'[pr] = "none"
      BY <1>3, <2>1
    <3> QED  BY <3>1 DEF PairStands, OpenStands, MergeStands, DistinctStands
  <2>2. CASE e \notin {pr[1], pr[2]}
    <3>1. pair'[pr] = pair[pr]
      BY <1>3, <2>2
    <3>2. \A v \in verdict : v.pair = pr => v \in left /\ rest[v.event] = row[v.event]
      BY <1>4, <1>6, <2>2 DEF AnswerIsOf
    <3>3. PairStands(row, pair, verdict, pr)
      BY <1>1 DEF Stands
    <3>4. {v \in left : v.pair = pr} = {v \in verdict : v.pair = pr}
      BY <3>2
    <3> HIDE DEF left
    <3> QED  BY <3>1, <3>2, <3>3, <3>4, OthersStand
  <2> QED  BY <2>1, <2>2
<1>9. Stands(row', pair', left)
  <2>1. Stands(rest, pair', left)
    BY <1>7, <1>8 DEF Stands
  <2>2. GoneStay(rest, row')
    BY <1>2, <1>3, <1>4 DEF GoneStay
  <2>3. OnlyAsks(rest, pair', pair')
    BY DEF OnlyAsks
  <2>4. left \in SUBSET Verdict
    BY <1>1
  <2> HIDE DEF left
  <2> QED  BY <1>2, <2>1, <2>2, <2>3, <2>4, QuietStands
<1>10. \A s \in Scanner : ScanKnows(s)'
  BY <1>2, <1>3, KnowsStays DEF SInv, ScanKnows
<1> QED  BY <1>3, <1>9, <1>10

(* Nobody scans while a person answers.                                    *)
LEMMA AnswerKnows ==
  ASSUME NobodyScans, "person" \notin Beside, UNCHANGED scan
  PROVE  \A s \in Scanner : ScanKnows(s)'
BY DEF NobodyScans, ScanKnows

(* An answer to a question leaves the other answers alone: an event that a *)
(* person folded is not answered of again.                                 *)
LEMMA KeepSeparateStands ==
  ASSUME SInv, NEW pr \in Pair, KeepSeparate(pr)
  PROVE  Stands(row', pair', verdict')
<1> DEFINE answer(e) == [n |-> answers + 1, pair |-> pr, event |-> e, canonical |-> None]
<1>1. TInv /\ row \in Rows /\ verdict \in SUBSET Verdict /\ Stands(row, pair, verdict)
  BY Typed DEF SInv
<1>2. /\ Here(row') = Here(row) /\ {pr[1], pr[2]} \subseteq Here(row)
      /\ \A e \in {pr[1], pr[2]} : row'[e].by = "HUMAN" /\ row'[e].canonical = None
      /\ \A e \in Event : e \notin {pr[1], pr[2]} => row'[e] = row[e]
  BY <1>1, KeepSeparateIs
<1>3. /\ pair' = [pair EXCEPT ![pr] = "DISTINCT"] /\ pair[pr] = "OPEN"
      /\ verdict' = verdict \cup {answer(e) : e \in {pr[1], pr[2]}}
      /\ \A e \in {pr[1], pr[2]} : row[e].canonical = None \/ row[e].by # "HUMAN"
  BY DEF KeepSeparate, Answerable
<1>4. /\ pair'[pr] = "DISTINCT" /\ \A qr \in Pair : qr # pr => pair'[qr] = pair[qr]
      /\ pr[1] \in Event /\ pr[2] \in Event
  BY <1>1, <1>3, Typed, PairFields
<1>5. \A v \in verdict : /\ v.pair \in Pair /\ v.event \in Event /\ AnswerIsOf(row, pair, v)
                         /\ v.pair[1] \in Event /\ v.pair[2] \in Event /\ v.pair # pr
  BY <1>1, <1>3, VerdictFields DEF Stands, PairStands, OpenStands
<1>6. \A v \in verdict' :
        \/ v \in verdict
        \/ v.pair = pr /\ v.event \in {pr[1], pr[2]} /\ v.canonical = None
  BY <1>3
<1>7. \A e \in Event : row[e] = Gone => row'[e] = Gone
  BY <1>2 DEF Here
<1>8. ASSUME NEW v \in verdict' PROVE AnswerIsOf(row', pair', v)
  <2>1. CASE v \in verdict
    BY <1>2, <1>4, <1>5, <1>7, <2>1 DEF AnswerIsOf
  <2>2. CASE v.pair = pr /\ v.event \in {pr[1], pr[2]} /\ v.canonical = None
    BY <1>2, <1>4, <2>2 DEF AnswerIsOf
  <2> QED  BY <1>6, <2>1, <2>2
<1>9. ASSUME NEW qr \in Pair PROVE PairStands(row', pair', verdict', qr)
  <2>1. CASE qr = pr
    <3>1. \A e \in {pr[1], pr[2]} : answer(e) \in verdict' /\ answer(e).pair = pr /\ answer(e).event = e
      BY <1>3
    <3> HIDE DEF answer
    <3>2. \A e \in {pr[1], pr[2]} : \E v \in verdict' : v.pair = pr /\ v.event = e
      BY <3>1
    <3>3. \A v \in verdict' : v.pair = pr => v.canonical = None /\ row'[v.event].by = "HUMAN"
      BY <1>2, <1>5, <1>6
    <3> QED  BY <1>4, <2>1, <3>2, <3>3 DEF PairStands, OpenStands, MergeStands, DistinctStands
  <2>2. CASE qr # pr
    <3>1. pair'[qr] = pair[qr] /\ PairStands(row, pair, verdict, qr)
      BY <1>1, <1>4, <2>2 DEF Stands
    <3>2. {v \in verdict' : v.pair = qr} = {v \in verdict : v.pair = qr}
      BY <1>3, <1>6, <2>2
    <3>3. ASSUME NEW v \in verdict, v.pair = qr, row[v.event].by = "HUMAN"
          PROVE  /\ row'[v.event].by = "HUMAN"
                 /\ pair[qr] = "MERGED" /\ row[v.event].canonical = v.canonical =>
                      row'[v.event].canonical = v.canonical
      <4>1. CASE v.event \in {pr[1], pr[2]}
        BY <1>2, <1>3, <1>5, <3>3, <4>1 DEF AnswerIsOf
      <4>2. CASE v.event \notin {pr[1], pr[2]}
        BY <1>2, <1>5, <3>3, <4>2
      <4> QED  BY <4>1, <4>2
    <3> QED  BY <3>1, <3>2, <3>3, OthersStand
  <2> QED  BY <2>1, <2>2
<1> QED  BY <1>8, <1>9 DEF Stands

LEMMA SameEventStands ==
  ASSUME SInv, NEW pr \in Pair, NEW keep \in Event, NEW fold \in Event, SameEvent(pr, keep, fold)
  PROVE  Stands(row', pair', verdict')
<1> DEFINE answer == [n |-> answers + 1, pair |-> pr, event |-> fold, canonical |-> keep]
<1>1. TInv /\ row \in Rows /\ verdict \in SUBSET Verdict /\ Stands(row, pair, verdict)
  BY Typed DEF SInv
<1>2. /\ Here(row') = Here(row) /\ {pr[1], pr[2]} \subseteq Here(row)
      /\ row'[fold].by = "HUMAN" /\ row'[fold].canonical = keep
      /\ \A e \in Event : e # fold => row'[e] = row[e]
  BY <1>1, SameEventIs
<1>3. /\ pair' = [pair EXCEPT ![pr] = "MERGED"] /\ pair[pr] = "OPEN"
      /\ verdict' = verdict \cup {answer} /\ {keep, fold} = {pr[1], pr[2]}
      /\ row[fold].canonical = None
  BY DEF SameEvent, Answerable
<1>4. /\ pair'[pr] = "MERGED" /\ \A qr \in Pair : qr # pr => pair'[qr] = pair[qr]
      /\ pr[1] \in Event /\ pr[2] \in Event
  BY <1>1, <1>3, Typed, PairFields
<1>5. \A v \in verdict : /\ v.pair \in Pair /\ v.event \in Event /\ AnswerIsOf(row, pair, v)
                         /\ v.pair[1] \in Event /\ v.pair[2] \in Event /\ v.pair # pr
  BY <1>1, <1>3, VerdictFields DEF Stands, PairStands, OpenStands
<1>6. answer.pair = pr /\ answer.event = fold /\ answer.canonical = keep /\ keep # None
  BY Apart
<1> HIDE DEF answer
<1>7. \A e \in Event : row[e] = Gone => row'[e] = Gone
  BY <1>2, <1>3 DEF Here
<1>8. ASSUME NEW v \in verdict' PROVE AnswerIsOf(row', pair', v)
  <2>1. CASE v \in verdict
    BY <1>2, <1>4, <1>5, <1>7, <2>1 DEF AnswerIsOf
  <2>2. CASE v = answer
    BY <1>2, <1>3, <1>4, <1>6, <2>2 DEF AnswerIsOf
  <2> QED  BY <1>3, <2>1, <2>2
<1>9. ASSUME NEW qr \in Pair PROVE PairStands(row', pair', verdict', qr)
  <2>1. CASE qr = pr
    <3>1. \A u \in verdict' : u.pair = pr => u = answer
      BY <1>3, <1>5
    <3> QED  BY <1>2, <1>3, <1>4, <1>6, <2>1, <3>1
             DEF PairStands, OpenStands, MergeStands, DistinctStands
  <2>2. CASE qr # pr
    <3>1. pair'[qr] = pair[qr] /\ PairStands(row, pair, verdict, qr)
      BY <1>1, <1>4, <2>2 DEF Stands
    <3>2. {v \in verdict' : v.pair = qr} = {v \in verdict : v.pair = qr}
      BY <1>3, <1>6, <2>2
    <3>3. ASSUME NEW v \in verdict, v.pair = qr, row[v.event].by = "HUMAN"
          PROVE  /\ row'[v.event].by = "HUMAN"
                 /\ pair[qr] = "MERGED" /\ row[v.event].canonical = v.canonical =>
                      row'[v.event].canonical = v.canonical
      <4>1. CASE v.event = fold
        BY <1>2, <1>3, <1>5, <3>3, <4>1 DEF AnswerIsOf
      <4>2. CASE v.event # fold
        BY <1>2, <1>5, <3>3, <4>2
      <4> QED  BY <4>1, <4>2
    <3> QED  BY <3>1, <3>2, <3>3, OthersStand
  <2> QED  BY <2>1, <2>2
<1> QED  BY <1>8, <1>9 DEF Stands

LEMMA OnePairOfTwo ==
  ASSUME NEW pr \in Pair, NEW qr \in Pair, {pr[1], pr[2]} = {qr[1], qr[2]}
  PROVE  pr = qr
<1>1. /\ pr = <<pr[1], pr[2]>> /\ qr = <<qr[1], qr[2]>>
      /\ pr[1] \in Event /\ pr[2] \in Event /\ qr[1] \in Event /\ qr[2] \in Event
  BY PairFields
<1>2. pr[1] < pr[2] /\ qr[1] < qr[2]
  BY DEF Pair
<1>3. pr[1] \in Nat /\ pr[2] \in Nat /\ qr[1] \in Nat /\ qr[2] \in Nat
  BY <1>1, DuplicatesAssumption
<1>4. pr[1] = qr[1] /\ pr[2] = qr[2]
  BY <1>2, <1>3
<1> QED  BY <1>1, <1>4

(* A revert undoes the answer it takes back and no other: of two answers   *)
(* that fold an event one is of the other's pair, and what another answer  *)
(* keeps apart stays decided.                                              *)
LEMMA RevertStands ==
  ASSUME SInv, NEW pr \in Pair, Revert(pr)
  PROVE  Stands(row', pair', verdict')
<1> DEFINE vs == {v \in verdict : v.pair = pr}
           new == Undone(row, vs)
           asked == [pair EXCEPT ![pr] = "OPEN"]
           left == verdict \ vs
<1>1. TInv /\ row \in Rows /\ verdict \in SUBSET Verdict /\ Stands(row, pair, verdict)
  BY Typed DEF SInv
<1>2. /\ Spares(new, row') /\ OnlyAsks(new, asked, pair')
      /\ new \in Rows /\ Here(new) = Here(row)
      /\ \A v \in vs : v.event \in {pr[1], pr[2]} /\ v.event \in Here(row)
  BY <1>1, RevertIs
<1>3. verdict' = left /\ \A v \in vs : row[v.event].canonical = v.canonical
  BY DEF Revert
<1>4. /\ \A e \in Event : (\A v \in vs : v.event # e) => new[e] = row[e]
      /\ \A v \in vs : new[v.event].by = IF Standing(v.event, vs) THEN "HUMAN" ELSE None
  <2> HIDE DEF vs
  <2> QED  BY <1>1, <1>2, UndoneIs
<1>5. asked[pr] = "OPEN" /\ \A qr \in Pair : qr # pr => asked[qr] = pair[qr]
  BY <1>1, Typed
<1>6. \A v \in verdict : /\ v.pair \in Pair /\ v.event \in Event /\ AnswerIsOf(row, pair, v)
                         /\ v.pair[1] \in Event /\ v.pair[2] \in Event
  BY <1>1, VerdictFields DEF Stands
<1> HIDE DEF new, asked
<1>7. GoneStay(row, new)
  <2> SUFFICES ASSUME NEW e \in Event, row[e] = Gone PROVE new[e] = Gone
    BY DEF GoneStay
  <2>1. \A v \in vs : v.event # e
    BY <1>2 DEF Here
  <2> QED  BY <1>4, <2>1
<1>8. ASSUME NEW v \in left PROVE AnswerIsOf(new, asked, v)
  BY <1>2, <1>5, <1>6, <1>7 DEF AnswerIsOf, GoneStay
<1>9. ASSUME NEW qr \in Pair PROVE PairStands(new, asked, left, qr)
  <2>1. CASE qr = pr
    BY <1>5, <2>1 DEF PairStands, OpenStands, MergeStands, DistinctStands
  <2>2. CASE qr # pr
    <3>1. asked[qr] = pair[qr] /\ PairStands(row, pair, verdict, qr)
      BY <1>1, <1>5, <2>2 DEF Stands
    <3>2. {v \in left : v.pair = qr} = {v \in verdict : v.pair = qr}
      BY <2>2
    <3>3. ASSUME NEW v \in verdict, v.pair = qr, row[v.event].by = "HUMAN"
          PROVE  /\ new[v.event].by = "HUMAN"
                 /\ pair[qr] = "MERGED" /\ row[v.event].canonical = v.canonical =>
                      new[v.event].canonical = v.canonical
      <4>1. CASE \A u \in vs : u.event # v.event
        BY <1>4, <1>6, <3>3, <4>1
      <4>2. CASE \E u \in vs : u.event = v.event
        <5>1. PICK u \in vs : u.event = v.event
          BY <4>2
        <5>2. Standing(v.event, vs)
          BY <2>2, <3>3 DEF Standing
        <5>3. ~(pair[qr] = "MERGED" /\ row[v.event].canonical = v.canonical)
          <6> SUFFICES ASSUME pair[qr] = "MERGED", row[v.event].canonical = v.canonical PROVE FALSE
            OBVIOUS
          <6>1. v.canonical # None /\ {v.event, v.canonical} = {qr[1], qr[2]}
            BY <1>6, <3>3 DEF AnswerIsOf
          <6>2. u.canonical = v.canonical /\ {u.event, u.canonical} = {pr[1], pr[2]}
            BY <1>3, <1>6, <5>1, <6>1 DEF AnswerIsOf
          <6>3. {pr[1], pr[2]} = {qr[1], qr[2]}
            BY <5>1, <6>1, <6>2
          <6> QED  BY <2>2, <6>3, OnePairOfTwo
        <5> QED  BY <1>4, <5>1, <5>2, <5>3
      <4> QED  BY <4>1, <4>2
    <3> HIDE DEF left
    <3> QED  BY <3>1, <3>2, <3>3, OthersStand
  <2> QED  BY <2>1, <2>2
<1>10. Stands(new, asked, left)
  BY <1>8, <1>9 DEF Stands
<1>11. Keeps(new, row') /\ GoneStay(new, row')
  BY <1>2, SparesKeeps
<1>12. left \in SUBSET Verdict
  BY <1>1
<1> HIDE DEF left
<1> QED  BY <1>2, <1>3, <1>10, <1>11, <1>12, QuietStands

LEMMA SInit == Init => SInv
<1> SUFFICES ASSUME Init PROVE SInv
  OBVIOUS
<1>1. TInv /\ verdict = {} /\ pair = [pr \in Pair |-> "none"]
  BY TInit DEF Init
<1>2. Stands(row, pair, verdict)
  BY <1>1 DEF Stands, PairStands, OpenStands, MergeStands, DistinctStands
<1>3. \A s \in Scanner : scan[s].phase = "idle"
  BY IdleIsScan DEF Init
<1> QED  BY <1>1, <1>2, <1>3 DEF SInv, ScanKnows

LEMMA SNext ==
  ASSUME Beside \cap {"person", "prune"} = {}
  PROVE  SInv /\ [Next]_vars => SInv'
<1> SUFFICES ASSUME SInv, [Next]_vars
             PROVE  Stands(row', pair', verdict') /\ \A s \in Scanner : ScanKnows(s)'
  BY TNext DEF SInv
<1>1. ASSUME NEW e \in Event, New(e) \/ Rewrite(e) \/ LoseVenue(e) \/ Prune(e)
      PROVE  Stands(row', pair', verdict') /\ \A s \in Scanner : ScanKnows(s)'
  BY <1>1, WritesStand, PruneStands
<1>2. ASSUME Answer
      PROVE  Stands(row', pair', verdict') /\ \A s \in Scanner : ScanKnows(s)'
  <2>1. PICK pr \in Pair : \/ KeepSeparate(pr) \/ Revert(pr)
                           \/ \E keep, fold \in Event : SameEvent(pr, keep, fold)
    BY <1>2 DEF Answer
  <2>2. Stands(row', pair', verdict')
    BY <2>1, KeepSeparateStands, SameEventStands, RevertStands
  <2>3. NobodyScans /\ UNCHANGED scan
    BY <2>1 DEF KeepSeparate, SameEvent, Revert, Answerable
  <2> QED  BY <2>2, <2>3, AnswerKnows
<1>3. ASSUME NEW s \in Scanner, ScanStep(s) \/ Crash(s)
      PROVE  Stands(row', pair', verdict') /\ \A t \in Scanner : ScanKnows(t)'
  BY <1>3, ScanStands
<1>4. CASE UNCHANGED vars
  BY <1>4 DEF vars, SInv, ScanKnows
<1> QED  BY <1>1, <1>2, <1>3, <1>4 DEF Next

LEMMA StandsIsAnswersStand == SInv => AnswersStand
<1> SUFFICES ASSUME SInv, NEW pr \in Pair
             PROVE  LET vs == {v \in verdict : v.pair = pr}
                    IN /\ pair[pr] = "OPEN" => vs = {}
                       /\ pair[pr] = "MERGED" =>
                            \E v \in vs : vs = {v} /\ row[v.event].canonical = v.canonical
                                          /\ row[v.event].by = "HUMAN"
                       /\ pair[pr] = "DISTINCT" =>
                            /\ Members(vs) = {pr[1], pr[2]}
                            /\ \A v \in vs : v.canonical = None /\ row[v.event].by = "HUMAN"
  BY DEF AnswersStand
<1> DEFINE vs == {v \in verdict : v.pair = pr}
<1>1. /\ OpenStands(pair, verdict, pr) /\ MergeStands(row, pair, verdict, pr)
      /\ DistinctStands(row, pair, verdict, pr)
      /\ \A v \in vs : v.event \in {pr[1], pr[2]}
  BY DEF SInv, Stands, PairStands, AnswerIsOf
<1>2. pair[pr] = "OPEN" => vs = {}
  BY <1>1 DEF OpenStands
<1>3. pair[pr] = "MERGED" =>
        \E v \in vs : vs = {v} /\ row[v.event].canonical = v.canonical /\ row[v.event].by = "HUMAN"
  BY <1>1 DEF MergeStands
<1>4. ASSUME pair[pr] = "DISTINCT"
      PROVE  /\ Members(vs) = {pr[1], pr[2]}
             /\ \A v \in vs : v.canonical = None /\ row[v.event].by = "HUMAN"
  <2>1. /\ \A e \in {pr[1], pr[2]} : \E v \in vs : v.event = e
        /\ \A v \in vs : v.canonical = None /\ row[v.event].by = "HUMAN"
    BY <1>1, <1>4 DEF DistinctStands
  <2> HIDE DEF vs
  <2> QED  BY <1>1, <2>1 DEF Members
<1> QED  BY <1>2, <1>3, <1>4

(* "A person's decision is final": whatever normalization and the scans    *)
(* write, one beside the other, and however they crash, an answer that was *)
(* not taken back is what the events say, and taking one back leaves every *)
(* other as it is.  It holds where nobody answers while a scan holds older *)
(* rows and no event is pruned under which a person folded another; the    *)
(* code takes neither care, and AnswersStand fails without either.         *)
THEOREM AnswersAreFinal ==
  ASSUME Beside \cap {"person", "prune"} = {}
  PROVE  Spec => []AnswersStand
<1>1. SInv => AnswersStand
  BY StandsIsAnswersStand
<1>2. SInv /\ [Next]_vars => SInv'
  BY SNext
<1> QED  BY SInit, <1>1, <1>2, PTL DEF Spec

=============================================================================
