---------------------------- MODULE CollectionProofs ----------------------------
(***************************************************************************)
(* What every number of sources, budget, interval and fault allows: the    *)
(* budget of the day holds but for what faults lose and what quota.py      *)
(* counts for no provider, and a refusal is respected.                     *)
(***************************************************************************)
EXTENDS Collection, TLAPS

(* the requests that were made and are not in the provider's row yet       *)
Outstanding(p) ==
  IF pass.at \in {"read", "write"} /\ Provider[pass.source] = p THEN Cost[pass.source] ELSE 0

(* The requests in a key's row of the day; a key without a provider has    *)
(* none.                                                                   *)
Counted(k) == IF k \in Providers THEN used[k] ELSE 0

(* The row and what is on its way to it account for every request with the *)
(* key, but for what the faults lost and what is counted for nobody; and   *)
(* there is room in the day for the source that is being collected, from   *)
(* the look at the budget to its record.                                   *)
BudgetInv ==
  /\ \A k \in Keys :
       spent[k] <= Counted(k) + missed[k] + faults * MaxCost + Outstanding(k)
  /\ \A p \in Providers :
       pass.at \in {"issue", "read", "write"} /\ Provider[pass.source] = p
       => used[p] + Cost[pass.source] <= DAILY_BUDGET
  /\ pass.at \in {"read", "write"} => Provider[pass.source] \in Providers
  /\ pass.at = "write" => pass.seen = used[Provider[pass.source]]

(* The status that says a refusal was the last answer is there as long as  *)
(* it has to be: a result replaces it only once the wait is over.          *)
RefusalInv ==
  /\ \A s \in Source :
       /\ refused[s] => quiet[s] >= age[s] \/ quiet[s] = Recheck
       /\ ~refused[s] => quiet[s] = Recheck
       /\ s \in pass.due \/ s = pass.source => quiet[s] = Recheck
  /\ pass.source \notin pass.due

(* PROVIDER_BY_PLATFORM has every platform CREDENTIAL_ENV has.             *)
EveryKeyIsKnown == \A s \in Source : Provider[s] = Key[s]

NothingMissed == EveryKeyIsKnown => \A k \in Keys : missed[k] = 0

IInv == TypeOK /\ BudgetInv /\ RefusalInv

-----------------------------------------------------------------------------
(* Initially nothing was asked and nobody refused.                         *)
LEMMA InitIInv == Init => IInv
<1> USE CollectionAssumption
<1> SUFFICES ASSUME Init PROVE IInv
    OBVIOUS
<1>1. TypeOK
  <2>1. Idle \in Pass /\ Idle.at = "idle" /\ Idle.source = None
    BY DEF Idle, Pass, Phase
  <2>2. /\ used \in [Providers -> 0 .. DAILY_BUDGET]
        /\ spent \in [Keys -> Nat] /\ missed \in [Keys -> Nat]
    BY DEF Init
  <2>3. hour \in 0 .. Day - 1 /\ faults \in 0 .. MaxFaults
    BY DEF Init
  <2>4. age \in [Source -> 0 .. Longest] /\ quiet \in [Source -> 0 .. Recheck]
    BY DEF Init
  <2> QED
    BY <2>1, <2>2, <2>3, <2>4 DEF Init, TypeOK
<1>2. BudgetInv
  <2>1. ASSUME NEW k \in Keys
        PROVE  /\ spent[k] = 0 /\ missed[k] = 0 /\ Counted(k) = 0 /\ Outstanding(k) = 0
               /\ faults * MaxCost = 0
    BY <2>1 DEF Init, Counted, Outstanding, Idle
  <2>2. pass.at = "idle"
    BY DEF Init, Idle
  <2> QED
    BY <2>1, <2>2 DEF BudgetInv
<1>3. RefusalInv
  BY DEF Init, RefusalInv, Idle, Source
<1> QED
  BY <1>1, <1>2, <1>3 DEF IInv

(* A source that is due and refused has been quiet for long enough.        *)
LEMMA DueIsQuiet ==
  ASSUME IInv, NEW s \in Source, IsDue(s)
  PROVE  quiet[s] = Recheck
<1> USE CollectionAssumption DEF IInv, TypeOK, RefusalInv
<1>1. CASE refused[s]
  <2>1. age[s] >= Recheck
    BY <1>1 DEF IsDue, Wait
  <2> QED
    BY <1>1, <2>1
<1>2. CASE ~refused[s]
  BY <1>2
<1> QED
  BY <1>1, <1>2

LEMMA StartTickStep == ASSUME IInv, StartTick PROVE IInv'
<1> USE CollectionAssumption
<1>1. pass' \in Pass /\ pass'.at = "next" /\ pass'.source = pass.source /\ pass'.due = DueList
  BY DEF StartTick, IInv, TypeOK, Pass, Phase, DueList, Due
<1>2. TypeOK'
  BY <1>1 DEF StartTick, IInv, TypeOK
<1>3. BudgetInv'
  BY <1>1 DEF StartTick, IInv, TypeOK, BudgetInv, Counted, Outstanding
<1>4. \A s \in Source : s \in DueList => quiet[s] = Recheck
  BY DueIsQuiet DEF DueList, Due
<1>5. pass.source = None /\ None \notin Source
  BY DEF StartTick, IInv, TypeOK, Source
<1>6. RefusalInv'
  BY <1>1, <1>4, <1>5 DEF StartTick, IInv, RefusalInv, DueList, Due
<1> QED
  BY <1>2, <1>3, <1>6 DEF IInv

LEMMA EndTickStep == ASSUME IInv, EndTick PROVE IInv'
<1> USE CollectionAssumption
<1>1. None \notin Source
  BY DEF Source
<1>2. TypeOK'
  BY DEF EndTick, IInv, TypeOK, Idle, Pass, Phase
<1>3. BudgetInv'
  BY DEF EndTick, IInv, TypeOK, BudgetInv, Counted, Outstanding, Idle
<1>4. RefusalInv'
  BY <1>1 DEF EndTick, IInv, RefusalInv, Idle
<1> QED
  BY <1>2, <1>3, <1>4 DEF IInv

LEMMA ChooseStep == ASSUME IInv, Choose PROVE IInv'
<1> USE CollectionAssumption
<1>1. None \notin Source
  BY DEF Source
<1>2. PICK s \in pass.due :
        \/ /\ age' = [age EXCEPT ![s] = 0]
           /\ refused' = [refused EXCEPT ![s] = FALSE]
           /\ pass' = [pass EXCEPT !.due = @ \ {s}]
        \/ /\ Affords(s)
           /\ pass' = [pass EXCEPT !.at = "issue", !.source = s, !.due = @ \ {s}]
           /\ UNCHANGED <<age, refused>>
  BY DEF Choose
<1>3. s \in Source /\ pass \in Pass /\ pass.at = "next" /\ pass.source = None
  BY DEF Choose, IInv, TypeOK, Pass
<1>4. UNCHANGED <<enabled, used, hour, ticked, faults, spent, missed, quiet>>
  BY DEF Choose
<1>5. CASE /\ age' = [age EXCEPT ![s] = 0]
           /\ refused' = [refused EXCEPT ![s] = FALSE]
           /\ pass' = [pass EXCEPT !.due = @ \ {s}]
  <2>1. pass' \in Pass /\ pass'.at = "next" /\ pass'.source = None /\ pass'.due = pass.due \ {s}
    BY <1>3, <1>5 DEF Pass, Phase
  <2>2. TypeOK'
    BY <1>3, <1>4, <1>5, <2>1 DEF IInv, TypeOK
  <2>3. BudgetInv'
    BY <1>3, <1>4, <2>1 DEF IInv, TypeOK, BudgetInv, Counted, Outstanding
  <2>4. RefusalInv'
    BY <1>1, <1>2, <1>3, <1>4, <1>5, <2>1 DEF IInv, TypeOK, RefusalInv
  <2> QED
    BY <2>2, <2>3, <2>4 DEF IInv
<1>6. CASE /\ Affords(s)
           /\ pass' = [pass EXCEPT !.at = "issue", !.source = s, !.due = @ \ {s}]
           /\ UNCHANGED <<age, refused>>
  <2>1. pass' \in Pass /\ pass'.at = "issue" /\ pass'.source = s /\ pass'.due = pass.due \ {s}
    BY <1>3, <1>6 DEF Pass, Phase
  <2>2. TypeOK'
    BY <1>1, <1>3, <1>4, <1>6, <2>1 DEF IInv, TypeOK
  <2>3. BudgetInv'
    BY <1>3, <1>4, <1>6, <2>1 DEF IInv, TypeOK, BudgetInv, Counted, Outstanding, Affords
  <2>4. RefusalInv'
    BY <1>1, <1>2, <1>3, <1>4, <1>6, <2>1 DEF IInv, TypeOK, RefusalInv
  <2> QED
    BY <2>2, <2>3, <2>4 DEF IInv
<1> QED
  BY <1>2, <1>5, <1>6

(* A result is recorded for the source in hand: whatever it says, the day  *)
(* of an earlier refusal was over.                                         *)
LEMMA ResultStep ==
  ASSUME IInv, pass.source # None, NEW refuses \in BOOLEAN, Result(pass.source, refuses),
         UNCHANGED <<enabled, used, hour, ticked, faults, spent, missed>>,
         pass.at \in {"issue", "store"}
  PROVE  IInv'
<1> USE CollectionAssumption
<1> DEFINE s == pass.source
<1>0. None \notin Source
  BY DEF Source
<1>1. s \in Source /\ None \notin Source /\ pass \in Pass
  BY <1>0 DEF IInv, TypeOK, Pass
<1>2. /\ age' = [age EXCEPT ![s] = 0] /\ refused' = [refused EXCEPT ![s] = refuses]
      /\ quiet' = IF refuses THEN [quiet EXCEPT ![s] = 0] ELSE quiet
  BY DEF Result
<1>3. pass' \in Pass /\ pass'.at = "next" /\ pass'.source = None /\ pass'.due = pass.due
  BY <1>1 DEF Result, Idle, Pass, Phase
<1>4. TypeOK'
  BY <1>1, <1>2, <1>3 DEF IInv, TypeOK
<1>5. BudgetInv'
  BY <1>3 DEF IInv, TypeOK, BudgetInv, Counted, Outstanding
<1>6. quiet[s] = Recheck /\ s \notin pass.due
  BY <1>1 DEF IInv, RefusalInv
<1>7. RefusalInv'
  <2>1. ASSUME NEW t \in Source, t # s
        PROVE  refused'[t] = refused[t] /\ quiet'[t] = quiet[t] /\ age'[t] = age[t]
    BY <1>1, <1>2, <2>1 DEF IInv, TypeOK
  <2>2. /\ refused'[s] = refuses /\ age'[s] = 0
        /\ quiet'[s] = IF refuses THEN 0 ELSE Recheck
    BY <1>1, <1>2, <1>6 DEF IInv, TypeOK
  <2>3. pass.due \subseteq Source
    BY <1>1 DEF Pass
  <2> HIDE DEF s
  <2> QED
    BY <1>1, <1>3, <1>6, <2>1, <2>2, <2>3 DEF IInv, RefusalInv
<1> QED
  BY <1>4, <1>5, <1>7 DEF IInv

LEMMA CollectStep == ASSUME IInv, Collect PROVE IInv'
<1> USE CollectionAssumption
<1> DEFINE s == pass.source
<1>0. None \notin Source
  BY DEF Source
<1>1. /\ s \in Source /\ s # None /\ pass \in Pass /\ pass.at = "issue"
      /\ Cost[s] \in Nat
  <2>1. pass \in Pass /\ pass.at = "issue" /\ s # None
    BY DEF Collect, IInv, TypeOK
  <2>2. s \in Source
    BY <2>1 DEF Pass
  <2> QED
    BY <2>1, <2>2
<1>2. CASE Result(s, FALSE) /\ UNCHANGED <<spent, missed>>
  BY <1>1, <1>2, ResultStep DEF Collect
<1>3. ASSUME NEW refuses \in BOOLEAN,
             pass' = [pass EXCEPT !.at = IF Provider[s] = None THEN "store" ELSE "read",
                                  !.refuses = refuses],
             spent' = Charged(spent, s, Key[s]),
             missed' = IF Provider[s] = None THEN Charged(missed, s, Key[s]) ELSE missed,
             UNCHANGED <<age, refused, quiet>>
      PROVE  IInv'
  <2>1. /\ pass' \in Pass /\ pass'.source = s /\ pass'.due = pass.due /\ pass'.seen = pass.seen
        /\ pass'.at = IF Provider[s] = None THEN "store" ELSE "read"
    BY <1>1, <1>3 DEF Pass, Phase
  <2>2. UNCHANGED <<enabled, used, hour, ticked, faults, age, refused, quiet>>
    BY <1>3 DEF Collect
  <2>3. TypeOK'
    BY <1>1, <1>3, <2>1, <2>2 DEF IInv, TypeOK, Charged
  <2>4. Provider[s] # None => Provider[s] \in Providers
    BY <1>1 DEF Providers
  <2>5. \A k \in Keys : k # None
    BY DEF Keys
  <2>6. ASSUME NEW k \in Keys
        PROVE  (spent[k] <= Counted(k) + missed[k] + faults * MaxCost + Outstanding(k))'
    <3>1. Outstanding(k) = 0
      BY <1>1 DEF Outstanding
    <3>2. Outstanding(k)' = IF Provider[s] = k THEN Cost[s] ELSE 0
      BY <2>1, <2>5 DEF Outstanding
    <3>3. /\ spent'[k] = IF k = Key[s] THEN spent[k] + Cost[s] ELSE spent[k]
          /\ missed'[k] = IF k = Key[s] /\ Provider[s] = None THEN missed[k] + Cost[s]
                         ELSE missed[k]
      BY <1>3 DEF Charged
    <3>4. /\ faults * MaxCost \in Nat /\ Counted(k) \in Nat
          /\ spent[k] \in Nat /\ missed[k] \in Nat
      BY DEF IInv, TypeOK, Counted
    <3>5. spent[k] <= Counted(k) + missed[k] + faults * MaxCost
      BY <3>1, <3>4 DEF IInv, BudgetInv
    <3>6. Counted(k)' = Counted(k) /\ faults' * MaxCost = faults * MaxCost
      BY <2>2 DEF Counted
    <3>7. Provider[s] = Key[s] \/ Provider[s] = None
      BY <1>1
    <3> HIDE DEF s
    <3> QED
      BY <1>1, <2>5, <3>2, <3>3, <3>4, <3>5, <3>6, <3>7
  <2>7. BudgetInv'
    BY <1>1, <2>1, <2>2, <2>4, <2>6 DEF IInv, BudgetInv
  <2>8. RefusalInv'
    BY <2>1, <2>2 DEF IInv, RefusalInv
  <2> QED
    BY <2>3, <2>7, <2>8 DEF IInv
<1> QED
  BY <1>2, <1>3 DEF Collect

LEMMA ReadUsedStep == ASSUME IInv, ReadUsed PROVE IInv'
<1> USE CollectionAssumption
<1>1. Provider[pass.source] \in Providers
  BY DEF ReadUsed, IInv, BudgetInv
<1>2. /\ pass' \in Pass /\ pass.at = "read" /\ pass'.at = "write"
      /\ pass'.source = pass.source /\ pass'.due = pass.due
      /\ pass'.seen = used[Provider[pass.source]]
  <2>1. pass \in Pass /\ used[Provider[pass.source]] \in Nat
    BY <1>1 DEF IInv, TypeOK
  <2> QED
    BY <2>1 DEF ReadUsed, Pass, Phase
<1>3. UNCHANGED <<enabled, age, refused, used, hour, ticked, faults, spent, missed, quiet>>
  BY DEF ReadUsed
<1>4. TypeOK'
  BY <1>2, <1>3 DEF IInv, TypeOK
<1>5. BudgetInv'
  BY <1>1, <1>2, <1>3 DEF IInv, BudgetInv, Counted, Outstanding
<1>6. RefusalInv'
  BY <1>2, <1>3 DEF IInv, RefusalInv
<1> QED
  BY <1>4, <1>5, <1>6 DEF IInv

LEMMA WriteUsedStep == ASSUME IInv, WriteUsed PROVE IInv'
<1> USE CollectionAssumption
<1> DEFINE s == pass.source
<1> DEFINE q == Provider[s]
<1>1. q \in Providers /\ pass.seen = used[q] /\ s \in Source /\ Cost[s] \in Nat
  BY DEF WriteUsed, IInv, TypeOK, BudgetInv, Pass
<1>2. /\ pass' \in Pass /\ pass.at = "write" /\ pass'.at = "store" /\ pass'.source = s
      /\ pass'.due = pass.due
  BY DEF WriteUsed, IInv, TypeOK, Pass, Phase
<1>3. /\ used' = [used EXCEPT ![q] = used[q] + Cost[s]]
      /\ UNCHANGED <<enabled, age, refused, hour, ticked, faults, spent, missed, quiet>>
  BY <1>1 DEF WriteUsed
<1>4. used[q] + Cost[s] \in 0 .. DAILY_BUDGET
  BY <1>1, <1>2 DEF IInv, TypeOK, BudgetInv
<1>5. TypeOK'
  BY <1>1, <1>2, <1>3, <1>4 DEF IInv, TypeOK
<1>6. ASSUME NEW k \in Keys
      PROVE  (spent[k] <= Counted(k) + missed[k] + faults * MaxCost + Outstanding(k))'
  <2>1. Outstanding(k) = (IF k = q THEN Cost[s] ELSE 0) /\ Outstanding(k)' = 0
    BY <1>2 DEF Outstanding
  <2>2. Counted(k)' = IF k = q THEN Counted(k) + Cost[s] ELSE Counted(k)
    BY <1>1, <1>3 DEF IInv, TypeOK, Counted
  <2>3. spent[k] <= Counted(k) + missed[k] + faults * MaxCost + Outstanding(k)
    BY DEF IInv, BudgetInv
  <2>4. /\ faults * MaxCost \in Nat /\ Counted(k) \in Nat
        /\ spent[k] \in Nat /\ missed[k] \in Nat
    BY DEF IInv, TypeOK, Counted
  <2>5. spent'[k] = spent[k] /\ missed'[k] = missed[k] /\ faults' * MaxCost = faults * MaxCost
    BY <1>3
  <2> HIDE DEF s, q
  <2> QED
    BY <1>1, <2>1, <2>2, <2>3, <2>4, <2>5
<1>7. BudgetInv'
  BY <1>2, <1>6 DEF BudgetInv
<1>8. RefusalInv'
  BY <1>2, <1>3 DEF IInv, RefusalInv
<1> QED
  BY <1>5, <1>7, <1>8 DEF IInv

LEMMA StoreStep == ASSUME IInv, Store PROVE IInv'
<1>1. pass.source # None /\ pass.refuses \in BOOLEAN
  BY DEF Store, IInv, TypeOK, Pass
<1> QED
  BY <1>1, ResultStep DEF Store

(* A fault loses what is outstanding, one source's requests at most.       *)
LEMMA FaultStep == ASSUME IInv, Fault PROVE IInv'
<1> USE CollectionAssumption
<1>1. None \notin Source
  BY DEF Source
<1>2. TypeOK'
  BY DEF Fault, IInv, TypeOK, Idle, Pass, Phase
<1>3. ASSUME NEW k \in Keys
      PROVE  (spent[k] <= Counted(k) + missed[k] + faults * MaxCost + Outstanding(k))'
  <2>1. Outstanding(k) \in 0 .. MaxCost
    BY DEF Outstanding, IInv, TypeOK, Pass
  <2>2. Outstanding(k)' = 0
    BY DEF Fault, Outstanding, Idle
  <2>3. faults' * MaxCost = faults * MaxCost + MaxCost /\ faults * MaxCost \in Nat
    BY DEF Fault, IInv, TypeOK
  <2>4. spent[k] <= Counted(k) + missed[k] + faults * MaxCost + Outstanding(k)
    BY DEF IInv, BudgetInv
  <2>5. /\ Counted(k) \in Nat /\ spent[k] \in Nat /\ missed[k] \in Nat
        /\ Counted(k)' = Counted(k) /\ spent'[k] = spent[k] /\ missed'[k] = missed[k]
    BY DEF Fault, IInv, TypeOK, Counted
  <2> QED
    BY <2>1, <2>2, <2>3, <2>4, <2>5
<1>4. BudgetInv'
  BY <1>3 DEF Fault, Idle, BudgetInv
<1>5. RefusalInv'
  BY <1>1 DEF Fault, Idle, IInv, RefusalInv
<1> QED
  BY <1>2, <1>4, <1>5 DEF IInv

LEMMA SetEnabledStep == ASSUME IInv, NEW s \in Source, SetEnabled(s) PROVE IInv'
<1>1. TypeOK'
  BY DEF SetEnabled, IInv, TypeOK
<1>2. BudgetInv'
  BY DEF SetEnabled, IInv, BudgetInv, Counted, Outstanding
<1>3. RefusalInv'
  BY DEF SetEnabled, IInv, RefusalInv
<1> QED
  BY <1>1, <1>2, <1>3 DEF IInv

LEMMA ElapseStep == ASSUME IInv, Elapse PROVE IInv'
<1> USE CollectionAssumption
<1>1. pass.at = "idle" /\ pass' = pass /\ faults' = faults /\ refused' = refused
  BY DEF Elapse
<1>2. ASSUME NEW k \in Keys
      PROVE  \/ Counted(k)' = Counted(k) /\ spent'[k] = spent[k] /\ missed'[k] = missed[k]
             \/ Counted(k)' = 0 /\ spent'[k] = 0 /\ missed'[k] = 0
  BY DEF Elapse, IInv, TypeOK, Counted
<1>3. TypeOK'
  <2>1. age' \in [Source -> 0 .. Longest] /\ quiet' \in [Source -> 0 .. Recheck]
    BY SMTT(30) DEF Elapse, Older, IInv, TypeOK
  <2>2. /\ used' \in [Providers -> 0 .. DAILY_BUDGET]
        /\ spent' \in [Keys -> Nat] /\ missed' \in [Keys -> Nat]
    BY DEF Elapse, IInv, TypeOK
  <2>3. hour' \in 0 .. Day - 1
    BY DEF Elapse, IInv, TypeOK
  <2> QED
    BY <2>1, <2>2, <2>3 DEF Elapse, IInv, TypeOK
<1>4. ASSUME NEW k \in Keys
      PROVE  (spent[k] <= Counted(k) + missed[k] + faults * MaxCost + Outstanding(k))'
  <2>1. Outstanding(k) = 0 /\ Outstanding(k)' = 0
    BY <1>1 DEF Outstanding
  <2>2. spent[k] <= Counted(k) + missed[k] + faults * MaxCost + Outstanding(k)
    BY DEF IInv, BudgetInv
  <2>3. faults * MaxCost \in Nat /\ faults' * MaxCost = faults * MaxCost
    BY <1>1 DEF IInv, TypeOK
  <2> QED
    BY <1>2, <2>1, <2>2, <2>3
<1>5. BudgetInv'
  BY <1>1, <1>4 DEF BudgetInv
<1>6. ASSUME NEW s \in Source
      PROVE  /\ age'[s] = (IF age[s] = Longest THEN age[s] ELSE age[s] + 1)
             /\ quiet'[s] = (IF quiet[s] = Recheck THEN quiet[s] ELSE quiet[s] + 1)
             /\ age[s] \in Nat /\ quiet[s] \in 0 .. Recheck
  BY DEF Elapse, Older, IInv, TypeOK
<1>7. RefusalInv'
  BY <1>1, <1>6 DEF IInv, RefusalInv
<1> QED
  BY <1>3, <1>5, <1>7 DEF IInv

LEMMA NextIInv == IInv /\ [Next]_vars => IInv'
<1> SUFFICES ASSUME IInv, [Next]_vars PROVE IInv'
    OBVIOUS
<1>1. CASE CollectorStep
  BY <1>1, StartTickStep, EndTickStep, ChooseStep, CollectStep, ReadUsedStep, WriteUsedStep,
     StoreStep DEF CollectorStep
<1>2. CASE Fault
  BY <1>2, FaultStep
<1>3. ASSUME NEW s \in Source, SetEnabled(s) PROVE IInv'
  BY <1>3, SetEnabledStep
<1>4. CASE Elapse
  BY <1>4, ElapseStep
<1>5. CASE UNCHANGED vars
  BY <1>5 DEF vars, IInv, TypeOK, BudgetInv, RefusalInv, Counted, Outstanding
<1> QED
  BY <1>1, <1>2, <1>3, <1>4, <1>5 DEF Next

-----------------------------------------------------------------------------
(* The state stays what the job's tables and its locals can hold; no row   *)
(* of a day exceeds the budget.                                            *)
THEOREM TypeCorrect == Spec => []TypeOK
<1>1. IInv => TypeOK
  BY DEF IInv
<1> QED
  BY InitIInv, NextIInv, <1>1, PTL DEF Spec

(* quota.py: what is asked with a key in a day is within the budget,       *)
(* whatever the sources, their intervals and their order, but for the      *)
(* requests of the sources it counts for no provider, as those of          *)
(* NAVER_WEB, and for one source's requests a fault.                       *)
THEOREM BudgetIsKept == Spec => []BudgetHolds
<1>1. ASSUME IInv PROVE BudgetHolds
  <2> USE CollectionAssumption
  <2> SUFFICES ASSUME NEW k \in Keys
               PROVE  spent[k] <= DAILY_BUDGET + missed[k] + faults * MaxCost
      BY DEF BudgetHolds
  <2>1. spent[k] <= Counted(k) + missed[k] + faults * MaxCost + Outstanding(k)
    BY <1>1 DEF IInv, BudgetInv
  <2>2. Counted(k) + Outstanding(k) <= DAILY_BUDGET /\ Outstanding(k) \in Nat
    BY <1>1 DEF IInv, TypeOK, BudgetInv, Counted, Outstanding, Pass
  <2>3. /\ faults * MaxCost \in Nat /\ Counted(k) \in Nat
        /\ spent[k] \in Nat /\ missed[k] \in Nat
    BY <1>1 DEF IInv, TypeOK, Counted
  <2> QED
    BY <2>1, <2>2, <2>3
<1> QED
  BY InitIInv, NextIInv, <1>1, PTL DEF Spec

(* Only a source that quota.py counts for no provider is missed.           *)
LEMMA NextMissed ==
  ASSUME IInv, NothingMissed, [Next]_vars
  PROVE  NothingMissed'
<1> USE CollectionAssumption
<1> SUFFICES ASSUME EveryKeyIsKnown, NEW k \in Keys PROVE missed'[k] = 0
    BY DEF NothingMissed, EveryKeyIsKnown
<1>1. missed[k] = 0
  BY DEF NothingMissed
<1>2. CASE Collect
  <2>1. missed' \in {missed, IF Provider[pass.source] = None
                             THEN Charged(missed, pass.source, Key[pass.source]) ELSE missed}
    BY <1>2 DEF Collect
  <2>2. pass.source \in Source
    BY <1>2 DEF Collect, IInv, TypeOK, Pass
  <2>3. Provider[pass.source] = None => Key[pass.source] # k
    BY <2>2 DEF EveryKeyIsKnown, Keys
  <2>4. Charged(missed, pass.source, Key[pass.source])[k] =
          IF k = Key[pass.source] THEN missed[k] + Cost[pass.source] ELSE missed[k]
    BY DEF Charged
  <2> QED
    BY <1>1, <2>1, <2>3, <2>4
<1>3. CASE Elapse
  BY <1>1, <1>3 DEF Elapse
<1>4. CASE CollectorStep /\ ~Collect
  BY <1>1, <1>4 DEF CollectorStep, StartTick, EndTick, Choose, ReadUsed, WriteUsed, Store
<1>5. CASE Fault \/ \E s \in Source : SetEnabled(s)
  BY <1>1, <1>5 DEF Fault, SetEnabled
<1>6. CASE UNCHANGED vars
  BY <1>1, <1>6 DEF vars
<1> QED
  BY <1>2, <1>3, <1>4, <1>5, <1>6 DEF Next

(* What the docstring of quota.py says holds once PROVIDER_BY_PLATFORM has *)
(* every platform of CREDENTIAL_ENV: the sources that share a key are      *)
(* within the budget together, but for one source's requests a fault.      *)
THEOREM OneMapWouldKeepTheKey ==
  ASSUME EveryKeyIsKnown
  PROVE  Spec => []KeyIsNotOverspent
<1>1. Init => NothingMissed
  BY DEF Init, NothingMissed
<1>2. IInv /\ NothingMissed /\ [Next]_vars => NothingMissed'
  BY NextMissed
<1>3. BudgetHolds /\ IInv /\ NothingMissed => KeyIsNotOverspent
  <2> SUFFICES ASSUME BudgetHolds, IInv, NothingMissed, NEW k \in Keys
               PROVE  spent[k] <= DAILY_BUDGET + faults * MaxCost
      BY DEF KeyIsNotOverspent
  <2>1. missed[k] = 0 /\ spent[k] <= DAILY_BUDGET + missed[k] + faults * MaxCost
    BY DEF NothingMissed, BudgetHolds
  <2> QED
    BY <2>1, CollectionAssumption
<1> QED
  BY InitIInv, NextIInv, BudgetIsKept, <1>1, <1>2, <1>3, PTL DEF Spec

(* sources.is_due(): a source whose last answer was a refusal is not asked *)
(* before the wait is over, although every later result, a skipped one     *)
(* included, replaces the status that says so.                             *)
THEOREM RefusalsAreRespected == Spec => RefusalIsRespected
<1>1. ASSUME IInv, [Next]_vars
      PROVE  [\A s \in Source :
                pass.at = "issue" /\ pass.source = s /\ pass'.at \in {"read", "store"}
                => quiet[s] = Recheck]_vars
  BY <1>1 DEF IInv, RefusalInv
<1> QED
  BY InitIInv, NextIInv, <1>1, PTL DEF Spec, RefusalIsRespected

=============================================================================
