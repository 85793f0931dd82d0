------------------------------- MODULE Collection -------------------------------
(***************************************************************************)
(* The intake job.  Every tick takes the first few of the sources that are *)
(* due, in the order of their keys, and collects them one after the other: *)
(* a look at the provider's budget of the day, the requests, their record, *)
(* the items, the result.  An operator enables and disables sources, the   *)
(* process dies, the store fails, days end.                                *)
(***************************************************************************)
EXTENDS Naturals, FiniteSets

CONSTANTS
  N,               \* number of sources, which are numbered by their keys
  Interval,        \* collection_interval_minutes, in ticks
  Key,             \* CREDENTIAL_ENV: with whose key a source is collected, or
                   \* None for a board that is read directly
  Provider,        \* PROVIDER_BY_PLATFORM: whom quota.py counts its requests
                   \* for, or None
  Cost, MaxCost,   \* expected_request_count(), and what it is at most
  DAILY_BUDGET,    \* requests a day, of every provider
  PerTick,         \* MAX_SOURCES_PER_TICK
  Recheck, Day,    \* REFUSED_RECHECK_MINUTES, a day, in ticks
  Longest,         \* bound on ages: nobody waits longer
  MaxFaults,       \* bound on crashes and failures of the store
  None             \* no key, no provider, no source in hand

Source == 1 .. N
Providers == {Provider[s] : s \in Source} \ {None}
Keys == {Key[s] : s \in Source} \ {None}

ASSUME CollectionAssumption ==
  /\ N \in Nat \ {0} /\ PerTick \in Nat \ {0}
  /\ Recheck \in Nat /\ Day \in Nat \ {0} /\ DAILY_BUDGET \in Nat /\ MaxFaults \in Nat
  /\ MaxCost \in Nat /\ Cost \in [Source -> 1 .. MaxCost]
  /\ Longest \in Nat /\ Recheck <= Longest /\ Interval \in [Source -> 1 .. Longest]
  /\ DOMAIN Provider = Source /\ DOMAIN Key = Source
  /\ \A s \in Source : Provider[s] \in {Key[s], None}
  /\ None \notin Nat

VARIABLES
  enabled,    \* sources.enabled
  age,        \* ticks since last_collected_at; Longest when it is NULL or so
              \* long ago that nobody has to wait for it
  refused,    \* last_status is ACCESS_DENIED or AUTH_FAILED
  used,       \* the providers' rows of today in runtime_state
  hour,       \* ticks of today that are over
  ticked,     \* the job has run since the last tick was over
  pass,       \* the local variables of run() and collect_source()
  faults,
  spent,      \* history: what was asked today with every key
  missed,     \* history: what of it was asked for sources quota.py counts for
              \* no provider
  quiet       \* history: ticks since a refusal was recorded, to Recheck

vars == <<enabled, age, refused, used, hour, ticked, pass, faults, spent,
          missed, quiet>>

Phase == {"idle", "next", "issue", "read", "write", "store"}
Idle == [at |-> "idle", due |-> {}, source |-> None, seen |-> 0, refuses |-> FALSE]
Pass == [at : Phase, due : SUBSET Source, source : Source \cup {None}, seen : Nat,
         refuses : BOOLEAN]

TypeOK ==
  /\ enabled \in [Source -> BOOLEAN]
  /\ age \in [Source -> 0 .. Longest] /\ refused \in [Source -> BOOLEAN]
  /\ used \in [Providers -> 0 .. DAILY_BUDGET]
  /\ hour \in 0 .. Day - 1 /\ ticked \in BOOLEAN
  /\ pass \in Pass
  /\ pass.at \in {"idle", "next"} <=> pass.source = None
  /\ faults \in 0 .. MaxFaults
  /\ spent \in [Keys -> Nat] /\ missed \in [Keys -> Nat]
  /\ quiet \in [Source -> 0 .. Recheck]

Init ==
  /\ enabled \in [Source -> BOOLEAN]
  /\ age = [s \in Source |-> Longest] /\ refused = [s \in Source |-> FALSE]
  /\ used = [p \in Providers |-> 0] /\ hour = 0 /\ ticked = FALSE
  /\ pass = Idle /\ faults = 0
  /\ spent = [k \in Keys |-> 0] /\ missed = spent
  /\ quiet = [s \in Source |-> Recheck]

-----------------------------------------------------------------------------
Older(a, most) == IF a = most THEN a ELSE a + 1

MutWait(s) == Interval[s]         \* a source that refuses is asked as any other

(* the interval of is_due()                                                *)
Wait(s) == IF refused[s] /\ Recheck > Interval[s] THEN Recheck ELSE Interval[s]

IsDue(s) == enabled[s] /\ age[s] >= Wait(s)

(* due_sources(); the first few of them, by source_key: the slice of run() *)
Due == {s \in Source : IsDue(s)}
DueList == {s \in Due : Cardinality({t \in Due : t < s}) < PerTick}

IsFirst(s, due) == s \in due /\ \A t \in due : s <= t

(* quota.check(): the budget of the day, for a source with a provider; one *)
(* that quota.py knows no provider of has no budget, whatever key it uses  *)
Affords(s) == \A p \in Providers : p = Provider[s] => used[p] + Cost[s] <= DAILY_BUDGET

StartTick ==
  /\ pass.at = "idle" /\ ~ticked /\ ticked' = TRUE
  /\ pass' = [pass EXCEPT !.at = "next", !.due = DueList]
  /\ UNCHANGED <<enabled, age, refused, used, hour, faults, spent, missed, quiet>>

(* the job's line, after the last source                                   *)
EndTick ==
  /\ pass.at = "next" /\ pass.due = {}
  /\ pass' = Idle
  /\ UNCHANGED <<enabled, age, refused, used, hour, ticked, faults, spent, missed, quiet>>

(* record_collection_result(); the next source                             *)
Result(s, refuses) ==
  /\ age' = [age EXCEPT ![s] = 0]
  /\ refused' = [refused EXCEPT ![s] = refuses]
  /\ quiet' = IF refuses THEN [quiet EXCEPT ![s] = 0] ELSE quiet
  /\ pass' = [Idle EXCEPT !.at = "next", !.due = pass.due]

MutChoose ==                      \* nobody looks at the budget
  /\ pass.at = "next"
  /\ \E s \in pass.due :
       /\ IsFirst(s, pass.due)
       /\ pass' = [pass EXCEPT !.at = "issue", !.source = s, !.due = @ \ {s}]
  /\ UNCHANGED <<age, refused, enabled, used, hour, ticked, faults, spent, missed, quiet>>

MutChooseAgain ==                 \* to be skipped is no result
  /\ pass.at = "next"
  /\ \E s \in pass.due :
       /\ IsFirst(s, pass.due)
       /\ \/ pass' = [pass EXCEPT !.due = @ \ {s}]
          \/ /\ Affords(s)
             /\ pass' = [pass EXCEPT !.at = "issue", !.source = s, !.due = @ \ {s}]
  /\ UNCHANGED <<age, refused, enabled, used, hour, ticked, faults, spent, missed, quiet>>

(* collect_source(): no mode to collect it in or no budget for it, which   *)
(* is a result too; or it is collected                                     *)
Choose ==
  /\ pass.at = "next"
  /\ \E s \in pass.due :
       /\ IsFirst(s, pass.due)
       /\ \/ /\ age' = [age EXCEPT ![s] = 0]
             /\ refused' = [refused EXCEPT ![s] = FALSE]
             /\ pass' = [pass EXCEPT !.due = @ \ {s}]
          \/ /\ Affords(s)
             /\ pass' = [pass EXCEPT !.at = "issue", !.source = s, !.due = @ \ {s}]
             /\ UNCHANGED <<age, refused>>
  /\ UNCHANGED <<enabled, used, hour, ticked, faults, spent, missed, quiet>>

Charged(account, s, key) ==
  [k \in Keys |-> IF k = key THEN account[k] + Cost[s] ELSE account[k]]

(* collectors.collect(): the collector is not there; or the source's API   *)
(* or its board is asked, and answers, fails or refuses.  quota.record()   *)
(* counts it for a provider it knows, and for nobody else.                 *)
Collect ==
  /\ pass.at = "issue"
  /\ LET s == pass.source
     IN \/ Result(s, FALSE) /\ UNCHANGED <<spent, missed>>
        \/ \E refuses \in BOOLEAN :
             /\ pass' = [pass EXCEPT !.at = IF Provider[s] = None THEN "store" ELSE "read",
                                     !.refuses = refuses]
             /\ spent' = Charged(spent, s, Key[s])
             /\ missed' = IF Provider[s] = None THEN Charged(missed, s, Key[s]) ELSE missed
             /\ UNCHANGED <<age, refused, quiet>>
  /\ UNCHANGED <<enabled, used, hour, ticked, faults>>

(* quota.record()                                                          *)
ReadUsed ==
  /\ pass.at = "read"
  /\ pass' = [pass EXCEPT !.at = "write", !.seen = used[Provider[pass.source]]]
  /\ UNCHANGED <<enabled, age, refused, used, hour, ticked, faults, spent, missed, quiet>>

MutWriteUsed ==                   \* one request, whatever a source costs
  /\ pass.at = "write"
  /\ used' = [used EXCEPT ![Provider[pass.source]] = pass.seen + 1]
  /\ pass' = [pass EXCEPT !.at = "store", !.seen = 0]
  /\ UNCHANGED <<enabled, age, refused, hour, ticked, faults, spent, missed, quiet>>

WriteUsed ==
  /\ pass.at = "write"
  /\ LET s == pass.source
     IN used' = [used EXCEPT ![Provider[s]] = pass.seen + Cost[s]]
  /\ pass' = [pass EXCEPT !.at = "store", !.seen = 0]
  /\ UNCHANGED <<enabled, age, refused, hour, ticked, faults, spent, missed, quiet>>

(* store_items(), finish_run() and the result                              *)
Store ==
  /\ pass.at = "store"
  /\ Result(pass.source, pass.refuses)
  /\ UNCHANGED <<enabled, used, hour, ticked, faults, spent, missed>>

(* What store_items() or a statement after the requests raises ends the    *)
(* tick, as the death of the process does: there is no result.             *)
Fault ==
  /\ pass.at # "idle"
  /\ faults < MaxFaults /\ faults' = faults + 1
  /\ pass' = Idle
  /\ UNCHANGED <<enabled, age, refused, used, hour, ticked, spent, missed, quiet>>

(* sources.set_enabled()                                                   *)
SetEnabled(s) ==
  /\ enabled' = [enabled EXCEPT ![s] = ~enabled[s]]
  /\ UNCHANGED <<age, refused, used, hour, ticked, pass, faults, spent, missed, quiet>>

(* run_forever() waits for the next tick; a tick is over before            *)
Elapse ==
  /\ ticked /\ ticked' = FALSE
  /\ pass.at = "idle"
  /\ age' = [s \in Source |-> Older(age[s], Longest)]
  /\ quiet' = [s \in Source |-> Older(quiet[s], Recheck)]
  /\ hour' = (hour + 1) % Day
  /\ IF hour' = 0
     THEN /\ used' = [p \in Providers |-> 0]
          /\ spent' = [k \in Keys |-> 0] /\ missed' = spent'
     ELSE UNCHANGED <<used, spent, missed>>
  /\ UNCHANGED <<enabled, refused, pass, faults>>

CollectorStep ==
  \/ StartTick \/ EndTick
  \/ Choose \/ Collect \/ ReadUsed \/ WriteUsed \/ Store

Next ==
  \/ CollectorStep \/ Fault
  \/ \E s \in Source : SetEnabled(s)
  \/ Elapse

Spec == Init /\ [][Next]_vars

Fairness == WF_vars(Elapse) /\ WF_vars(CollectorStep)
FairSpec == Spec /\ Fairness

-----------------------------------------------------------------------------
(* Properties                                                              *)

(* "Refuses once the budget is gone": what was asked today with a key is   *)
(* within the budget, but for what was asked for sources quota.py has no   *)
(* provider of, and for what a crash kept from being recorded, one         *)
(* source's requests a crash.                                              *)
BudgetHolds ==
  \A k \in Keys : spent[k] <= DAILY_BUDGET + missed[k] + faults * MaxCost

(* "How many calls it has already spent across every source sharing one    *)
(* key": not so where a source with the key is of a platform that          *)
(* PROVIDER_BY_PLATFORM leaves out, as NAVER_WEB.                          *)
KeyIsNotOverspent ==
  \A k \in Keys : spent[k] <= DAILY_BUDGET + faults * MaxCost

(* "A source whose last answer was a refusal waits a day", whatever its    *)
(* own interval and whatever became of it in between, being disabled and   *)
(* enabled again included; a refusal that a fault kept from being recorded *)
(* is none.                                                                *)
RefusalIsRespected ==
  [][\A s \in Source :
       pass.at = "issue" /\ pass.source = s /\ pass'.at \in {"read", "store"}
       => quiet[s] = Recheck]_vars

(* "A re-enable still goes straight through": a source that refused is due *)
(* when it is enabled again.  Not so: set_enabled() leaves the refusal and *)
(* its time where they are.                                                *)
ReenabledIsAsked ==
  [][\A s \in Source :
       SetEnabled(s) /\ enabled'[s] /\ refused[s] => IsDue(s)']_vars

(* "Oldest collection first": a source a tick leaves for later was not     *)
(* collected before one the tick takes.                                    *)
OldestFirst ==
  [][StartTick =>
       \A s \in DueList, t \in Due \ DueList : age[s] >= age[t]]_vars

(* A source that stays enabled is tried again and again, while the sources *)
(* are no more than the ticks of an interval can take.                     *)
EveryEnabledSourceIsTried ==
  \A s \in Source : <>[](enabled[s]) => []<>(age[s] = 0)

=============================================================================
