-------------------------- MODULE AcquisitionQueue --------------------------
(***************************************************************************)
(* The queue of the content-acquisition job: which collected items are     *)
(* fetched, in which order, what a fetch reports and whether it is tried   *)
(* again.  A tick takes a list of due items and fetches them one by one;   *)
(* the console's reacquire() fetches any item at once, in its own process. *)
(* Time is left out: next_attempt_at is set or NULL, and the items whose   *)
(* time has passed stand in line in its order.                             *)
(***************************************************************************)
EXTENDS Naturals, FiniteSets, Sequences, SequencesExt

CONSTANTS
  Item,            \* items with a URL that may serve HTML
  TwoForms,        \* items with two public representations (Daum's cafe)
  None,            \* an item not collected yet
  Limit,           \* MAX_FETCHES_PER_TICK
  MaxTransient,    \* MAX_ATTEMPTS of NETWORK and SERVER_ERROR
  MaxNotFound,     \* MAX_ATTEMPTS of NOT_FOUND
  Console          \* when the console may call reacquire()

(* What a request came to: a status and an error code of acquisition.py.   *)
(*   full, thin      FETCHED_FULL, FETCHED_PARTIAL                         *)
(*   empty, busy     FETCH_BLOCKED, of retry class BLOCKED                 *)
(*   gone, robots    FETCH_BLOCKED, NOT_FOUND and ROBOTS_DISALLOWED        *)
(*   login, other    LOGIN_REQUIRED, UNSUPPORTED                           *)
(*   error, network  FETCH_FAILED, SERVER_ERROR and NETWORK                *)
Reply == {"full", "thin", "empty", "busy", "gone", "robots", "login", "other",
          "error", "network"}
SETTLED == {"full", "thin", "login", "other"}
PERMANENT_ERRORS == {"robots", "other"}

(* attempts is capped: only its comparisons with the two limits count.     *)
MaxCount == IF MaxTransient > MaxNotFound THEN MaxTransient ELSE MaxNotFound
Row == [reply : Reply \cup {"METADATA_ONLY", "FETCH_PENDING"},
        attempts : 0 .. MaxCount, scheduled : BOOLEAN]

ASSUME QueueAssumption ==
  /\ None \notin Row /\ IsFiniteSet(Item)
  /\ Limit \in Nat \ {0} /\ MaxTransient \in Nat \ {0} /\ MaxNotFound \in Nat \ {0}
  /\ TwoForms \subseteq Item /\ Console \in {"never", "between ticks", "any time"}

VARIABLES
  row,       \* source_item_content, None for an item not collected
  line,      \* the items whose next_attempt_at has passed, oldest first
  due        \* the rest of the list the running tick took from the line

vars == <<row, line, due>>

InLine(i) == Contains(line, i)

TypeOK ==
  /\ row \in [Item -> Row \cup {None}]
  /\ line \in Seq(Item) /\ IsInjective(line)
  /\ due \in Seq(Item) /\ IsInjective(due)

Init == row = [i \in Item |-> None] /\ line = <<>> /\ due = <<>>

-----------------------------------------------------------------------------
(* queue_state()                                                           *)
Terminal(r) ==
  \/ r.reply \in SETTLED \cup {"METADATA_ONLY"} \cup PERMANENT_ERRORS
  \/ ~r.scheduled /\ r.attempts # 0

(* fetch(): the representations in turn.  An article ends it, and so does  *)
(* robots.txt; otherwise the last reply is what is reported, except that a *)
(* page without an article never hides a thin body.                        *)
Reported(sofar, reply) ==
  IF sofar \in {"full", "robots"} \/ (sofar = "thin" /\ reply = "empty")
  THEN sofar ELSE reply

Replies(i) == [1 .. (IF i \in TwoForms THEN 2 ELSE 1) -> Reply]
Fetched(i, replies) ==
  IF i \in TwoForms THEN Reported(replies[1], replies[2]) ELSE replies[1]

(* next_attempt_at() names a time                                          *)
Reschedules(reply, attempts) ==
  /\ reply \notin SETTLED \cup PERMANENT_ERRORS
  /\ reply = "gone" => attempts < MaxNotFound
  /\ reply \in {"error", "network"} => attempts < MaxTransient

(* record_outcome()                                                        *)
Recorded(r, reply) ==
  LET attempts == IF r.attempts < MaxCount THEN r.attempts + 1 ELSE MaxCount
  IN [reply |-> reply, attempts |-> attempts,
      scheduled |-> Reschedules(reply, attempts)]

Without(q, i) ==
  IF Contains(q, i) THEN RemoveAt(q, CHOOSE k \in DOMAIN q : q[k] = i) ELSE q

-----------------------------------------------------------------------------
Collect(i) ==
  /\ row[i] = None
  /\ row' = [row EXCEPT ![i] =
       [reply |-> "METADATA_ONLY", attempts |-> 0, scheduled |-> FALSE]]
  /\ UNCHANGED <<line, due>>

MutNew == {i \in Item : row[i] # None}    \* queues a settled item again

New == {i \in Item : row[i] # None /\ row[i].reply = "METADATA_ONLY"}

(* The orders the queue may have them in: they share one next_attempt_at.  *)
Orders(S) == {q \in [1 .. Cardinality(S) -> S] : IsInjective(q)}

MutDueList(q) ==    \* as before v0.96.1: no next_attempt_at comes first, asked or not
  LET unscheduled == {i \in Item : row[i] # None /\ ~row[i].scheduled
                                   /\ row[i].reply \notin SETTLED \cup {"METADATA_ONLY"}}
      all == SetToSeq(unscheduled) \o q
  IN SubSeq(all, 1, IF Len(all) < Limit THEN Len(all) ELSE Limit)

(* due_for_acquisition(): the oldest Limit rows of the line                *)
DueList(q) == SubSeq(q, 1, IF Len(q) < Limit THEN Len(q) ELSE Limit)

(* The tick queues what was collected and takes the list of due items.     *)
StartTick ==
  /\ due = <<>>
  /\ \E new \in Orders(New) :
       /\ line' = line \o new
       /\ row' = [i \in Item |->
            IF i \in New
            THEN [reply |-> "FETCH_PENDING", attempts |-> 0, scheduled |-> TRUE]
            ELSE row[i]]
       /\ due' = DueList(line')

FetchNext ==
  /\ due # <<>>
  /\ LET i == Head(due)
     IN /\ \E replies \in Replies(i) :
             row' = [row EXCEPT ![i] = Recorded(@, Fetched(i, replies))]
        /\ line' = Without(line, i)
  /\ due' = Tail(due)

(* its next_attempt_at has come: later than that of every row in line      *)
ComesDue(i) ==
  /\ row[i] # None /\ row[i].scheduled /\ ~InLine(i)
  /\ line' = Append(line, i)
  /\ UNCHANGED <<row, due>>

(* the console fetches an item, settled or not                             *)
Reacquire(i) ==
  /\ Console = "any time" \/ (Console = "between ticks" /\ due = <<>>)
  /\ row[i] # None
  /\ \E replies \in Replies(i) : row' = [row EXCEPT ![i] = Recorded(@, Fetched(i, replies))]
  /\ line' = Without(line, i)
  /\ UNCHANGED due

(* the scheduler dies and comes back                                       *)
Crash == due # <<>> /\ due' = <<>> /\ UNCHANGED <<row, line>>

Next ==
  \/ \E i \in Item : Collect(i) \/ ComesDue(i) \/ Reacquire(i)
  \/ StartTick \/ FetchNext \/ Crash

Spec == Init /\ [][Next]_vars

(* run_forever() starts a tick again and again; one that is restarted time *)
(* and again still gets to a fetch some time.                              *)
FairSpec == Spec /\ WF_vars(StartTick) /\ SF_vars(FetchNext)

-----------------------------------------------------------------------------
(* "Never touches a URL whose status has settled", and no row that is      *)
(* permanently refused or exhausted: the tick changes no terminal row.     *)
TerminalIsLeftAlone ==
  [][due' # due => \A i \in Item :
       row[i] # None /\ Terminal(row[i]) /\ row[i].reply # "METADATA_ONLY"
       => row'[i] = row[i]]_vars

(* Every item collected and every item whose time has come is fetched:     *)
(* no row keeps the head of the line for itself.                           *)
Waits(i) == InLine(i) \/ i \in New
EveryDueItemIsFetched == \A i \in Item : Waits(i) ~> ~Waits(i)

(* "A transient network blip is worth another go", and an item that blocks *)
(* is one to "keep trying": a single network error in between does not end *)
(* it.                                                                     *)
BlipIsRetried ==
  [][\A i \in Item :
       row[i] # None /\ row[i].reply \in {"empty", "busy"} /\ row'[i].reply = "network"
       => row'[i].scheduled]_vars

=============================================================================
