------------------------- MODULE ArticleRefreshProofs --------------------------
(***************************************************************************)
(* Proofs about ArticleRefresh: its type invariant, its politeness; that   *)
(* it implements ArticleStore when no publisher takes an edit back; and    *)
(* that what a re-check confirms was the page's text when it was asked.    *)
(***************************************************************************)
EXTENDS ArticleRefresh, TLAPS

(* nothing that is stored or on its way is newer than the page             *)
NothingIsAhead ==
  \A a \in Article : /\ row[a].text <= page[a]
                     /\ asked[a] # None => asked[a] <= page[a]

(* a copy was taken of a row that held a text, of the page or before it    *)
CopyIsHeld(c) == c.row.text # 0 /\ c.row.text <= page[c.article]

(* what the server answered is no older than the copy                      *)
ReplyIsLater ==
  run.cur # None =>
    /\ run.reply # None
    /\ run.reply.kind = "page" => /\ run.cur.row.text <= run.reply.edit
                                  /\ run.reply.edit <= page[run.cur.article]

(* a run's own account of a host with one name is no lower than the log's, *)
(* and what it asks is a representation of the host it looked at           *)
AccountCoversLog ==
  /\ \A h \in Host : Single(h) =>
       /\ log[h] <= Budget
       /\ run # Idle => (h \in limited => h \in run.paused) /\ log[h] <= run.used[h]
  /\ run.cur # None => /\ run.used[run.cur.row.host] < Budget
                       /\ run.reply.host \in Reps[run.cur.row.host]

RInv ==
  /\ TypeOK /\ NothingIsAhead
  /\ \A c \in run.todo : CopyIsHeld(c)
  /\ run.cur # None => CopyIsHeld(run.cur)
  /\ ReplyIsLater /\ AccountCoversLog

LEMMA IdleRun == Idle \in Run /\ Idle.cur = None /\ Idle.todo = {}
BY RefreshAssumption DEF Idle, Run

LEMMA EditsAreNumbers ==
  /\ Edits \subseteq Nat \ {0} /\ Stored \subseteq Nat /\ 0 \in Stored
  /\ \A a \in Article : 1 \in Edits /\ \A n \in 1 .. MaxEdit[a] : n \in Edits
BY RefreshAssumption DEF Edits, Stored

LEMMA RInit == Init => RInv
<1> SUFFICES ASSUME Init PROVE RInv
  OBVIOUS
<1>1. \A a \in Article : NewRow(a) \in Row
  <2> SUFFICES ASSUME NEW a \in Article PROVE NewRow(a) \in Row
    OBVIOUS
  <2>1. Served[a] # {} /\ Served[a] \subseteq Host
    BY RefreshAssumption
  <2>2. (CHOOSE h \in Served[a] : TRUE) \in Host
    BY <2>1
  <2> QED
    BY <2>2, RefreshAssumption, EditsAreNumbers DEF NewRow, Row, Outcome
<1>2. TypeOK
  BY <1>1, IdleRun, EditsAreNumbers, RefreshAssumption DEF Init, TypeOK
<1>3. AccountCoversLog
  <2>1. 0 <= Budget
    BY RefreshAssumption
  <2> QED
    BY <2>1, IdleRun DEF Init, AccountCoversLog
<1> QED
  BY <1>2, <1>3, IdleRun DEF Init, RInv, NothingIsAhead, ReplyIsLater, NewRow

(* The steps that leave the run alone.                                     *)
LEMMA OutsideStep ==
  ASSUME RInv,
         \/ \E a \in Article : Publish(a) \/ ComesDue(a) \/ Ask(a) \/ Record(a) \/ ConsoleDies(a)
         \/ \E h \in Host : Expire(h) \/ Unpause(h)
  PROVE  RInv'
<1> USE RefreshAssumption, EditsAreNumbers DEF hosts
<1>0. run' = run
  BY DEF Publish, ComesDue, Ask, Record, ConsoleDies, Expire, Unpause
<1>1. \A a \in Article : /\ page[a] \in Edits /\ row[a] \in Row /\ page[a] \in Nat
                         /\ row[a].text \in Nat
  BY DEF RInv, TypeOK, Row
<1>2. page' \in [Article -> Edits] /\ \A a \in Article : page[a] <= page'[a]
  <2>1. ASSUME NEW a \in Article, Publish(a)
        PROVE  page' \in [Article -> Edits] /\ \A b \in Article : page[b] <= page'[b]
    <3>1. page[a] + 1 \in Edits
      BY <1>1, <2>1 DEF Publish
    <3> QED
      BY <1>1, <2>1, <3>1 DEF Publish, RInv, TypeOK
  <2>2. CASE page' = page
    BY <1>1, <2>2 DEF RInv, TypeOK
  <2> QED
    BY <2>1, <2>2 DEF ComesDue, Ask, Record, ConsoleDies, Expire, Unpause
<1>3. asked' \in [Article -> Stored \cup {None}]
      /\ \A a \in Article : asked'[a] # None => asked'[a] <= page[a]
  <2>1. ASSUME NEW a \in Article, Ask(a)
        PROVE  asked' \in [Article -> Stored \cup {None}]
               /\ \A b \in Article : asked'[b] # None => asked'[b] <= page[b]
    <3>1. page[a] \in Stored
      BY <1>1 DEF Stored
    <3> QED
      BY <1>1, <2>1, <3>1 DEF Ask, RInv, TypeOK, NothingIsAhead
  <2>2. ASSUME NEW a \in Article, Record(a) \/ ConsoleDies(a)
        PROVE  asked' \in [Article -> Stored \cup {None}]
               /\ \A b \in Article : asked'[b] # None => asked'[b] <= page[b]
    BY <1>1, <2>2 DEF Record, ConsoleDies, RInv, TypeOK, NothingIsAhead
  <2>3. CASE asked' = asked
    BY <2>3 DEF RInv, TypeOK, NothingIsAhead
  <2> QED
    BY <2>1, <2>2, <2>3 DEF Publish, ComesDue, Expire, Unpause
<1>4. row' \in [Article -> Row] /\ \A a \in Article : row'[a].text <= page[a]
  <2>1. ASSUME NEW a \in Article, ComesDue(a)
        PROVE  row' \in [Article -> Row] /\ \A b \in Article : row'[b].text <= page[b]
    <3>1. [row[a] EXCEPT !.waits = FALSE] \in Row
          /\ [row[a] EXCEPT !.waits = FALSE].text = row[a].text
      BY <1>1 DEF Row
    <3> QED
      BY <2>1, <3>1 DEF ComesDue, RInv, TypeOK, NothingIsAhead
  <2>2. ASSUME NEW a \in Article, Record(a)
        PROVE  row' \in [Article -> Row] /\ \A b \in Article : row'[b].text <= page[b]
    <3>1. asked[a] \in Stored /\ asked[a] <= page[a]
      BY <2>2 DEF Record, RInv, TypeOK, NothingIsAhead
    <3>2. PICK waits \in {TRUE, row[a].waits} :
            \E host \in Served[a] :
              row' = [row EXCEPT ![a].text = asked[a], ![a].host = host, ![a].waits = waits]
      BY <2>2 DEF Record
    <3>3. PICK host \in Served[a] :
            row' = [row EXCEPT ![a].text = asked[a], ![a].host = host, ![a].waits = waits]
      BY <3>2
    <3>4. host \in Host
      BY <3>3
    <3>5. row' = [row EXCEPT ![a] =
            [row[a] EXCEPT !.text = asked[a], !.host = host, !.waits = waits]]
      BY <3>3, <1>1 DEF RInv, TypeOK, Row
    <3>6. [row[a] EXCEPT !.text = asked[a], !.host = host, !.waits = waits] \in Row
          /\ [row[a] EXCEPT !.text = asked[a], !.host = host, !.waits = waits].text = asked[a]
      BY <1>1, <3>1, <3>4 DEF Row
    <3> QED
      BY <3>1, <3>5, <3>6 DEF RInv, TypeOK, NothingIsAhead
  <2>3. CASE row' = row
    BY <2>3 DEF RInv, TypeOK, NothingIsAhead
  <2> QED
    BY <2>1, <2>2, <2>3 DEF Publish, Ask, ConsoleDies, Expire, Unpause
<1>5. /\ log' \in [Host -> Nat] /\ limited' \subseteq limited
      /\ \A h \in Host : log'[h] <= log[h]
  <2>1. log \in [Host -> Nat] /\ limited \in SUBSET Host
    BY DEF RInv, TypeOK
  <2>2. ASSUME NEW h \in Host, Expire(h)
        PROVE  log' \in [Host -> Nat] /\ \A g \in Host : log'[g] <= log[g]
    <3>1. log[h] - 1 \in Nat /\ log[h] - 1 <= log[h]
      BY <2>1, <2>2 DEF Expire
    <3> QED
      BY <2>1, <2>2, <3>1 DEF Expire
  <2>3. ASSUME log' = log
        PROVE  log' \in [Host -> Nat] /\ \A h \in Host : log'[h] <= log[h]
    BY <2>1, <2>3
  <2>4. limited' \subseteq limited
    BY DEF Publish, ComesDue, Ask, Record, ConsoleDies, Expire, Unpause
  <2>5. log' = log \/ \E h \in Host : Expire(h)
    BY DEF Publish, ComesDue, Ask, Record, ConsoleDies, Unpause
  <2> QED
    BY <2>2, <2>3, <2>4, <2>5
<1>51. \A h \in Host : log[h] \in Nat /\ log'[h] \in Nat /\ log'[h] <= log[h]
  BY <1>5 DEF RInv, TypeOK
<1>52. \A h \in Host : Single(h) => log'[h] <= Budget
  BY <1>51 DEF RInv, AccountCoversLog
<1>6. TypeOK'
  BY <1>0, <1>2, <1>3, <1>4, <1>5, <1>52 DEF RInv, TypeOK, Single
<1>7. \A a \in Article : page'[a] \in Nat /\ row'[a].text \in Nat
                         /\ (asked'[a] # None => asked'[a] \in Nat)
  BY <1>6 DEF TypeOK, Row
<1>8. NothingIsAhead'
  BY <1>1, <1>2, <1>3, <1>4, <1>7 DEF NothingIsAhead
<1>9. \A c \in Copy : CopyIsHeld(c) => CopyIsHeld(c)'
  <2>1. \A c \in Copy : c.article \in Article /\ c.row.text \in Nat
    BY DEF Copy, Row
  <2> QED
    BY <1>1, <1>2, <1>7, <2>1 DEF CopyIsHeld
<1>10. run \in Run
  BY DEF RInv, TypeOK
<1>11. run.cur # None => CopyIsHeld(run.cur)'
  <2>1. run.cur # None => run.cur \in Copy /\ CopyIsHeld(run.cur)
    BY <1>10 DEF RInv, Run
  <2>2. run.cur # None => page'[run.cur.article] \in Nat /\ page[run.cur.article] \in Nat
                          /\ page[run.cur.article] <= page'[run.cur.article]
                          /\ run.cur.row.text \in Nat
    BY <1>1, <1>2, <1>7, <2>1 DEF Copy, Row
  <2> QED
    BY <1>0, <2>1, <2>2 DEF CopyIsHeld
<1>12. ReplyIsLater'
  <2> SUFFICES ASSUME run.cur # None
               PROVE  (/\ run.reply # None
                       /\ run.reply.kind = "page" =>
                            /\ run.cur.row.text <= run.reply.edit
                            /\ run.reply.edit <= page[run.cur.article])'
    BY <1>0 DEF ReplyIsLater
  <2>1. run.reply # None /\ run.reply \in Reply /\ run.cur.article \in Article
    BY <1>10 DEF RInv, ReplyIsLater, Run, Copy
  <2>2. run.reply.edit \in Nat
    BY <2>1 DEF Reply
  <2> QED
    BY <1>0, <1>1, <1>2, <1>7, <2>1, <2>2 DEF RInv, ReplyIsLater
<1>13. AccountCoversLog'
  <2>1. \A h \in Host : run.used[h] \in Nat
    BY <1>10 DEF Run
  <2>2. ASSUME NEW h \in Host, Single(h)
        PROVE  /\ log'[h] <= Budget
               /\ run # Idle => (h \in limited' => h \in run.paused) /\ log'[h] <= run.used[h]
    BY <1>5, <1>51, <1>52, <2>1, <2>2 DEF RInv, AccountCoversLog
  <2>3. run.cur # None => /\ run.used[run.cur.row.host] < Budget
                          /\ run.reply.host \in Reps[run.cur.row.host]
    BY DEF RInv, AccountCoversLog
  <2> QED
    BY <1>0, <2>2, <2>3 DEF AccountCoversLog, Single
<1> QED
  BY <1>0, <1>6, <1>8, <1>9, <1>10, <1>11, <1>12, <1>13 DEF RInv, Run

LEMMA StartRunStep ==
  ASSUME RInv, StartRun
  PROVE  RInv'
<1> USE DEF hosts
<1>1. PICK due \in SUBSET {a \in Article : Due(row[a])} :
        run' = [Idle EXCEPT
          !.todo = {[article |-> a, row |-> row[a]] : a \in due},
          !.left = MaxRefreshes, !.used = log, !.paused = limited]
  BY DEF StartRun
<1>2. UNCHANGED <<page, row, asked, log, limited>>
  BY DEF StartRun
<1>3. /\ run'.todo = {[article |-> a, row |-> row[a]] : a \in due}
      /\ run'.cur = None /\ run'.used = log /\ run'.paused = limited
      /\ run'.left = MaxRefreshes /\ run'.reply = None
  BY <1>1 DEF Idle
<1>4. \A c \in run'.todo : c \in Copy /\ CopyIsHeld(c)
  BY <1>3 DEF Copy, RInv, TypeOK, Due, CopyIsHeld, NothingIsAhead
<1>5. run' \in Run
  <2>1. MaxRefreshes \in 0 .. MaxRefreshes
    BY RefreshAssumption
  <2>2. log \in [Host -> Nat] /\ limited \in SUBSET Host
    BY DEF RInv, TypeOK
  <2> QED
    BY <1>1, <1>3, <1>4, <2>1, <2>2 DEF Run, Idle
<1>6. TypeOK' /\ NothingIsAhead'
  BY <1>2, <1>5 DEF RInv, TypeOK, NothingIsAhead, Single
<1>7. (\A c \in run.todo : CopyIsHeld(c))'
  BY <1>2, <1>4 DEF CopyIsHeld
<1>8. AccountCoversLog' /\ ReplyIsLater'
  <2>1. \A h \in Host : log[h] <= log[h]
    BY DEF RInv, TypeOK
  <2>2. \A h \in Host : Single(h) => log[h] <= Budget
    BY DEF RInv, AccountCoversLog
  <2> QED
    BY <1>2, <1>3, <2>1, <2>2 DEF AccountCoversLog, ReplyIsLater, Single
<1> QED
  BY <1>3, <1>6, <1>7, <1>8 DEF RInv

LEMMA FetchStep ==
  ASSUME RInv, Fetch
  PROVE  RInv'
<1> USE DEF hosts
<1>1. PICK c \in run.todo : MayAsk(c.row.host) /\
        \E reply \in Replies(c) :
          run' = [run EXCEPT !.todo = @ \ {c}, !.left = @ - 1, !.cur = c, !.reply = reply]
  BY DEF Fetch
<1>2. PICK reply \in Replies(c) :
        run' = [run EXCEPT !.todo = @ \ {c}, !.left = @ - 1, !.cur = c, !.reply = reply]
  BY <1>1
<1>3. UNCHANGED <<page, row, asked, log, limited>> /\ run.left > 0 /\ run.cur = None
  BY DEF Fetch
<1>4. /\ run \in Run /\ c \in Copy /\ c.article \in Article /\ CopyIsHeld(c)
      /\ page[c.article] \in Edits /\ c.row.text \in Stored
  BY DEF RInv, TypeOK, Run, Copy, Row
<1>5. /\ reply \in Reply /\ reply.host \in Reps[c.row.host]
      /\ reply.kind = "page" => reply.edit = page[c.article]
  <2>1. page[c.article] \in Stored /\ 0 \in Stored /\ Reps[c.row.host] \subseteq Host
    BY <1>4, EditsAreNumbers, RefreshAssumption DEF Stored, Copy, Row
  <2> QED
    BY <2>1 DEF Replies, Reply, FAILURES
<1>6. /\ run'.todo = run.todo \ {c} /\ run'.cur = c /\ run'.reply = reply
      /\ run'.used = run.used /\ run'.paused = run.paused /\ run'.left = run.left - 1
  BY <1>2, <1>4 DEF Run
<1>7. run' \in Run
  <2>1. run.left - 1 \in 0 .. MaxRefreshes
    BY <1>3, <1>4, RefreshAssumption DEF Run
  <2> QED
    BY <1>2, <1>4, <1>5, <2>1 DEF Run
<1>8. TypeOK' /\ NothingIsAhead'
  BY <1>3, <1>7 DEF RInv, TypeOK, NothingIsAhead, Single
<1>9. (\A d \in run.todo : CopyIsHeld(d))' /\ CopyIsHeld(run.cur)'
  BY <1>3, <1>4, <1>6 DEF RInv, CopyIsHeld
<1>10. ReplyIsLater'
  <2>1. reply # None
    BY <1>5, RefreshAssumption
  <2>2. page[c.article] <= page[c.article]
    <3>1. page[c.article] \in Nat
      BY <1>4, EditsAreNumbers
    <3> QED
      BY <3>1
  <2> QED
    BY <1>3, <1>4, <1>5, <1>6, <2>1, <2>2 DEF ReplyIsLater, CopyIsHeld
<1>11. AccountCoversLog'
  <2>1. run # Idle
    BY IdleRun
  <2>2. run.used[c.row.host] < Budget
    BY <1>1 DEF MayAsk
  <2> QED
    BY <1>3, <1>5, <1>6, <2>1, <2>2 DEF RInv, AccountCoversLog, Single
<1> QED
  BY <1>8, <1>9, <1>10, <1>11 DEF RInv

(* What a transaction leaves in the row: the text it had, or the page's.   *)
LEMMA RefreshedRow ==
  ASSUME NEW r \in Row, NEW c \in Copy, NEW reply \in Reply
  PROVE  /\ Refreshed(r, c, reply) \in Row
         /\ \/ Refreshed(r, c, reply).text = r.text
            \/ /\ reply.kind = "page" /\ SameRow(r, c)
               /\ Body[reply.edit] # Body[c.row.text]
               /\ Refreshed(r, c, reply).text = reply.edit
<1> DEFINE result == Result(c, reply)
<1>1. result \in SUCCESSES \cup FAILURES
  BY DEF Result, Reply, SUCCESSES, FAILURES
<1>2. /\ reply.edit \in Stored /\ reply.etag \in Stored /\ c.row.failures \in 0 .. NotFoundLimit
      /\ 0 \in 0 .. NotFoundLimit
  BY RefreshAssumption DEF Reply, Copy, Row
<1>3. Failed(r, c, result) \in Row /\ Failed(r, c, result).text = r.text
  <2>1. (IF c.row.failures < NotFoundLimit THEN c.row.failures + 1 ELSE NotFoundLimit)
          \in 0 .. NotFoundLimit
    BY <1>2, RefreshAssumption
  <2>2. result \in Outcome
    BY <1>1 DEF Outcome
  <2> HIDE DEF result
  <2> QED
    BY <2>1, <2>2 DEF Failed, Row
<1>4. Superseded(r) \in Row /\ Superseded(r).text = r.text
  BY DEF Superseded, Row, Outcome
<1>5. Revised(r, reply) \in Row /\ Revised(r, reply).text = reply.edit
  BY <1>2 DEF Revised, Row, Outcome, SUCCESSES
<1>6. Confirmed(r, reply, result) \in Row /\ Confirmed(r, reply, result).text = r.text
  <2>1. result \in Outcome
    BY <1>1 DEF Outcome
  <2> HIDE DEF result
  <2> QED
    BY <1>2, <2>1 DEF Confirmed, Row
<1>7. result = "REVISED" => reply.kind = "page" /\ Body[reply.edit] # Body[c.row.text]
  BY DEF Result, Reply, FAILURES
<1>8. CASE result \in FAILURES
  <2>1. Refreshed(r, c, reply) = Failed(r, c, result)
    BY <1>8 DEF Refreshed, FAILURES
  <2> QED
    BY <1>3, <2>1
<1>9. CASE result \notin FAILURES /\ ~SameRow(r, c)
  <2>1. Refreshed(r, c, reply) = Superseded(r)
    BY <1>9 DEF Refreshed
  <2> QED
    BY <1>4, <2>1
<1>10. CASE result \notin FAILURES /\ SameRow(r, c) /\ result = "REVISED"
  <2>1. Refreshed(r, c, reply) = Revised(r, reply)
    BY <1>10 DEF Refreshed
  <2> QED
    BY <1>5, <1>7, <1>10, <2>1
<1>11. CASE result \notin FAILURES /\ SameRow(r, c) /\ result # "REVISED"
  <2>1. Refreshed(r, c, reply) = Confirmed(r, reply, result)
    BY <1>11 DEF Refreshed
  <2> QED
    BY <1>6, <2>1
<1> QED
  BY <1>8, <1>9, <1>10, <1>11

LEMMA FinishStep ==
  ASSUME RInv, Finish
  PROVE  RInv'
<1> DEFINE c == run.cur
           h == run.reply.host
           g == c.row.host
<1> USE DEF hosts
<1>1. c # None /\ run # Idle
  BY IdleRun DEF Finish
<1>2. /\ row' = [row EXCEPT ![c.article] = Refreshed(@, c, run.reply)]
      /\ log' = [log EXCEPT ![h] = @ + 1] /\ run' = Counted(g)
      /\ limited' = IF run.reply.kind = "RATE_LIMITED" THEN limited \cup {h} ELSE limited
      /\ UNCHANGED <<page, asked>>
  BY DEF Finish
<1>3. /\ run \in Run /\ c \in Copy /\ c.article \in Article /\ CopyIsHeld(c)
      /\ run.reply \in Reply /\ row[c.article] \in Row /\ h \in Host /\ g \in Host
  BY <1>1, RefreshAssumption DEF RInv, TypeOK, Run, Copy, Row, Reply, ReplyIsLater
<1>4. /\ run.reply.edit \in Nat /\ page[c.article] \in Nat
      /\ run.reply.kind = "page" => run.reply.edit <= page[c.article]
  BY <1>1, <1>3, EditsAreNumbers DEF RInv, TypeOK, ReplyIsLater, Reply
<1>5. row' \in [Article -> Row] /\ \A a \in Article : row'[a].text <= page[a]
  <2>1. Refreshed(row[c.article], c, run.reply) \in Row
        /\ Refreshed(row[c.article], c, run.reply).text <= page[c.article]
    BY <1>3, <1>4, RefreshedRow DEF RInv, NothingIsAhead
  <2> QED
    BY <1>2, <1>3, <2>1 DEF RInv, TypeOK, NothingIsAhead
<1>6. /\ run'.todo = run.todo /\ run'.left = run.left /\ run'.cur = None
      /\ run'.reply = None
      /\ run'.used = [run.used EXCEPT ![g] = @ + 1]
      /\ run'.paused = IF run.reply.kind = "RATE_LIMITED"
                       THEN run.paused \cup {g} ELSE run.paused
  BY <1>2, <1>3 DEF Counted, Run
<1>7. /\ \A f \in Host : log[f] \in Nat /\ run.used[f] \in Nat
      /\ run.used[g] < Budget /\ h \in Reps[g]
  BY <1>1, <1>3 DEF RInv, TypeOK, Run, AccountCoversLog
<1>8. ASSUME NEW f \in Host, Single(f)
      PROVE  /\ log'[f] <= Budget /\ log'[f] <= run'.used[f]
             /\ f \in limited' => f \in run'.paused
  <2>1. h = f <=> g = f
    BY <1>3, <1>7, <1>8 DEF Single
  <2>2. /\ log[f] <= run.used[f] /\ log[f] <= Budget
        /\ f \in limited => f \in run.paused
    BY <1>1, <1>8 DEF RInv, AccountCoversLog
  <2>3. /\ log'[f] = (IF h = f THEN log[f] + 1 ELSE log[f])
        /\ run'.used[f] = (IF g = f THEN run.used[f] + 1 ELSE run.used[f])
    BY <1>2, <1>3, <1>6, <1>7 DEF RInv, TypeOK, Run
  <2>4. log'[f] <= Budget /\ log'[f] <= run'.used[f]
    <3>1. log[f] \in Nat /\ run.used[f] \in Nat /\ Budget \in Nat /\ (g = f => run.used[f] < Budget)
      BY <1>7, RefreshAssumption
    <3> QED
      BY <2>1, <2>2, <2>3, <3>1
  <2>5. f \in limited' => f \in run'.paused
    BY <1>2, <1>6, <2>1, <2>2
  <2> QED
    BY <2>4, <2>5
<1>9. log' \in [Host -> Nat] /\ limited' \in SUBSET Host /\ run' \in Run
  <2>1. run'.used \in [Host -> Nat] /\ run'.paused \in SUBSET Host
    BY <1>3, <1>6, <1>7 DEF Run
  <2>2. run' \in Run
    BY <1>2, <1>3, <1>6, <2>1 DEF Run, Counted
  <2> QED
    BY <1>2, <1>3, <1>7, <2>2 DEF RInv, TypeOK
<1>10. TypeOK' /\ NothingIsAhead'
  BY <1>2, <1>5, <1>8, <1>9 DEF RInv, TypeOK, NothingIsAhead, Single
<1>11. (\A d \in run.todo : CopyIsHeld(d))' /\ ReplyIsLater'
  BY <1>2, <1>6 DEF RInv, CopyIsHeld, ReplyIsLater
<1>12. AccountCoversLog'
  BY <1>6, <1>8 DEF AccountCoversLog, Single
<1> QED
  BY <1>6, <1>10, <1>11, <1>12 DEF RInv

LEMMA EndRunStep ==
  ASSUME RInv, EndRun \/ Crash
  PROVE  RInv'
<1>1. run' = Idle /\ UNCHANGED <<page, row, asked, log, limited>>
  BY DEF EndRun, Crash, hosts
<1> QED
  BY <1>1, IdleRun DEF RInv, TypeOK, NothingIsAhead, ReplyIsLater, AccountCoversLog, CopyIsHeld,
     Single

LEMMA RNext == RInv /\ [Next]_vars => RInv'
<1> SUFFICES ASSUME RInv, [Next]_vars PROVE RInv'
  OBVIOUS
<1>1. CASE UNCHANGED vars
  BY <1>1 DEF vars, RInv, TypeOK, NothingIsAhead, ReplyIsLater, AccountCoversLog, CopyIsHeld,
     Single
<1> QED
  BY <1>1, OutsideStep, StartRunStep, FetchStep, FinishStep, EndRunStep DEF Next

THEOREM Invariance == Spec => []RInv
BY RInit, RNext, PTL DEF Spec

(* Every value of the model's variables has its type; of a host that is    *)
(* only asked under its own name the log never counts more re-checks than  *)
(* its budget.                                                             *)
THEOREM RefreshTypeCorrect == Spec => []TypeOK
<1>1. RInv => TypeOK
  BY DEF RInv
<1> QED
  BY <1>1, Invariance, PTL

(* run() asks no host that is over its budget or paused by the log, though *)
(* it reads that log only once: of the hosts it knows under one name.      *)
THEOREM HostsAreLeftInPeace == Spec => PoliteToHosts
<1>1. RInv /\ [Next]_vars =>
        [\A c \in run.todo :
           run.cur = None /\ run'.cur = c
           => \A h \in Reps[c.row.host] : Single(h) => log[h] < Budget /\ h \notin limited]_vars
  <2> SUFFICES ASSUME RInv, Next, NEW c \in run.todo, run.cur = None, run'.cur = c,
                      NEW h \in Reps[c.row.host], Single(h)
               PROVE  log[h] < Budget /\ h \notin limited
    BY DEF vars
  <2>1. run \in Run /\ c \in Copy /\ c # None /\ c.row.host \in Host
    BY RefreshAssumption DEF RInv, TypeOK, Run, Copy, Row
  <2>2. run # Idle
    BY IdleRun
  <2>3. Fetch
    <3>1. run' # run /\ run' # Idle /\ run'.cur # None
      BY <2>1, IdleRun
    <3>2. CASE StartRun
      BY <3>1, <3>2 DEF StartRun, Idle
    <3> QED
      BY <2>1, <3>1, <3>2 DEF Next, Publish, ComesDue, Ask, Record, ConsoleDies, Expire,
         Unpause, Finish, EndRun, Crash
  <2>4. MayAsk(c.row.host)
    <3>1. PICK d \in run.todo : MayAsk(d.row.host) /\ run'.cur = d
      BY <2>1, <2>3 DEF Fetch, Run
    <3> QED
      BY <3>1
  <2>5. h = c.row.host
    BY <2>1 DEF Single
  <2>6. log[h] \in Nat /\ run.used[h] \in Nat
    BY <2>1, <2>5 DEF RInv, TypeOK, Run
  <2>7. log[h] <= run.used[h] /\ (h \in limited => h \in run.paused)
    BY <2>1, <2>2, <2>5 DEF RInv, AccountCoversLog
  <2> QED
    BY <2>4, <2>5, <2>6, <2>7, RefreshAssumption DEF MayAsk
<1> QED
  BY <1>1, Invariance, PTL DEF PoliteToHosts, Spec

(* A re-check never puts an earlier text over a later one and never loses  *)
(* one, whatever the console fetches meanwhile, if no publisher takes an   *)
(* edit back.                                                              *)
THEOREM RefreshImplementsStore ==
  ASSUME \A v, w \in Stored : Body[v] = Body[w] => v = w
  PROVE  Spec => StoreIsImplemented
<1> DEFINE texts == [a \in Article |-> row[a].text]
<1> USE DEF hosts
<1>1. Init => Articles!StoreInit
  BY DEF Init, NewRow, Articles!StoreInit
<1>2. RInv /\ [Next]_vars => [Articles!StoreNext]_(Articles!storeVars)
  <2> SUFFICES ASSUME RInv, [Next]_vars
               PROVE  Articles!StoreNext \/ UNCHANGED Articles!storeVars
    OBVIOUS
  <2>0. row \in [Article -> Row] /\ \A a \in Article : row[a] \in Row
    BY DEF RInv, TypeOK
  <2>1. ASSUME NEW a \in Article, Publish(a)
        PROVE  Articles!Edit(a)
    BY <2>1 DEF Publish, Articles!Edit
  <2>2. ASSUME NEW a \in Article, Ask(a)
        PROVE  Articles!Answer(a)
    BY <2>2 DEF Ask, Articles!Answer
  <2>3. ASSUME NEW a \in Article, Record(a)
        PROVE  Articles!Store(a)
    <3>1. \A b \in Article : row'[b].text = IF b = a THEN asked[a] ELSE row[b].text
      <4>1. PICK waits \in {TRUE, row[a].waits} : \E host \in Served[a] :
              row' = [row EXCEPT ![a].text = asked[a], ![a].host = host, ![a].waits = waits]
        BY <2>3 DEF Record
      <4> QED
        BY <2>0, <4>1 DEF Row
    <3> QED
      BY <2>3, <3>1 DEF Record, Articles!Store
  <2>4. ASSUME NEW a \in Article, ConsoleDies(a)
        PROVE  Articles!Lose(a)
    BY <2>4 DEF ConsoleDies, Articles!Lose
  <2>5. ASSUME UNCHANGED <<page, asked>>, \A a \in Article : row'[a].text = row[a].text
        PROVE  UNCHANGED Articles!storeVars
    BY <2>5 DEF Articles!storeVars
  <2>6. ASSUME NEW a \in Article, ComesDue(a)
        PROVE  UNCHANGED Articles!storeVars
    BY <2>0, <2>5, <2>6 DEF ComesDue, Row
  <2>7. CASE Finish
    <3> DEFINE c == run.cur
               a == c.article
    <3>1. /\ c # None /\ UNCHANGED <<page, asked>>
          /\ row' = [row EXCEPT ![a] = Refreshed(@, c, run.reply)]
      BY <2>7 DEF Finish
    <3>2. /\ c \in Copy /\ a \in Article /\ CopyIsHeld(c) /\ run.reply \in Reply
          /\ c.row.text \in Stored /\ row[a].text \in Stored /\ run.reply.edit \in Stored
      BY <2>0, <3>1 DEF RInv, TypeOK, Run, Copy, Row, ReplyIsLater, Reply
    <3>3. \A b \in Article : b # a => row'[b].text = row[b].text
      BY <3>1, <3>2, <2>0
    <3>4. row'[a].text = Refreshed(row[a], c, run.reply).text
      BY <3>1, <3>2, <2>0
    <3>5. CASE row'[a].text = row[a].text
      BY <2>5, <3>1, <3>3, <3>5
    <3>6. CASE /\ run.reply.kind = "page" /\ SameRow(row[a], c)
               /\ Body[run.reply.edit] # Body[c.row.text]
               /\ row'[a].text = run.reply.edit
      <4>1. row[a].text = c.row.text /\ row[a].text # 0 /\ run.reply.edit # c.row.text
        BY <3>2, <3>6 DEF SameRow
      <4>2. c.row.text <= run.reply.edit /\ run.reply.edit <= page[a]
        BY <3>1, <3>6 DEF RInv, ReplyIsLater
      <4>3. run.reply.edit \in row[a].text + 1 .. page[a]
        <5>1. row[a].text \in Nat /\ run.reply.edit \in Nat /\ page[a] \in Nat
          BY <3>2, EditsAreNumbers DEF RInv, TypeOK
        <5> QED
          BY <4>1, <4>2, <5>1
      <4>4. [b \in Article |-> row'[b].text] = [texts EXCEPT ![a] = run.reply.edit]
        BY <3>2, <3>3, <3>6
      <4>5. ASSUME NEW b \in Article, b = a
            PROVE  Articles!StoreNext
        <5>1. /\ run.reply.edit \in row[b].text + 1 .. page[b] /\ row[b].text # 0
              /\ [d \in Article |-> row'[d].text] = [texts EXCEPT ![b] = run.reply.edit]
              /\ UNCHANGED <<page, asked>>
          BY <3>1, <4>1, <4>3, <4>4, <4>5
        <5>2. Articles!Advance(b)
          BY <4>5, <5>1 DEF Articles!Advance
        <5> QED
          BY <4>5, <5>2 DEF Articles!StoreNext
      <4>6. PICK b \in Article : b = a
        BY <3>2
      <4> QED
        BY <4>5, <4>6
    <3> QED
      BY <2>0, <3>2, <3>4, <3>5, <3>6, RefreshedRow
  <2>8. CASE UNCHANGED <<page, row, asked>>
    BY <2>5, <2>8
  <2> QED
    BY <2>1, <2>2, <2>3, <2>4, <2>6, <2>7, <2>8
       DEF Next, vars, Expire, Unpause, StartRun, Fetch, EndRun, Crash, Articles!StoreNext
<1> QED
  BY <1>1, <1>2, Invariance, PTL DEF Spec, StoreIsImplemented, Articles!StoreSpec

(* ---- what a check confirms -------------------------------------------- *)

(* A 304 speaks of the validator, a confirmation of the text.  Of an       *)
(* article that is only acquired between runs the validator is never of a  *)
(* later edit than the text.                                               *)
ValidatorIsOld(a) ==
  /\ row[a].etag <= page[a]
  /\ row[a].text # 0 => row[a].etag <= row[a].text
  /\ asked[a] # None => run = Idle /\ (asked[a] # 0 => row[a].etag <= asked[a])

CopyValidatorIsOld(c) == c.article \in Conditional => c.row.etag <= c.row.text

NotModifiedIsTheText ==
  run.cur # None => /\ CopyValidatorIsOld(run.cur)
                    /\ run.reply.kind = "304" => run.reply.edit = run.cur.row.text
                    /\ run.reply.etag \in {0, run.reply.edit}

ValidatorInv ==
  /\ RInv
  /\ \A a \in Conditional : ValidatorIsOld(a)
  /\ \A c \in run.todo : CopyValidatorIsOld(c)
  /\ NotModifiedIsTheText

LEMMA RowNumbers ==
  ASSUME RInv, NEW a \in Article
  PROVE  /\ page[a] \in Nat /\ page[a] \in Edits /\ row[a] \in Row
         /\ row[a].text \in Nat /\ row[a].etag \in Nat
         /\ asked[a] # None => asked[a] \in Nat
BY EditsAreNumbers DEF RInv, TypeOK, Row

LEMMA CopyNumbers ==
  ASSUME NEW c \in Copy
  PROVE  /\ c.article \in Article /\ c.row \in Row
         /\ c.row.text \in Stored /\ c.row.etag \in Stored
         /\ c.row.text \in Nat /\ c.row.etag \in Nat
BY EditsAreNumbers DEF Copy, Row

(* The steps that leave the run alone.                                     *)
LEMMA ValidatorOutside ==
  ASSUME Conditional \cap Console = {}, ValidatorInv, RInv',
         \/ \E a \in Article : Publish(a) \/ ComesDue(a) \/ Ask(a) \/ Record(a) \/ ConsoleDies(a)
         \/ \E h \in Host : Expire(h) \/ Unpause(h)
  PROVE  ValidatorInv'
<1> USE DEF hosts
<1>1. run' = run
  BY DEF Publish, ComesDue, Ask, Record, ConsoleDies, Expire, Unpause
<1>2. (\A c \in run.todo : CopyValidatorIsOld(c))' /\ NotModifiedIsTheText'
  BY <1>1 DEF ValidatorInv, CopyValidatorIsOld, NotModifiedIsTheText
<1>3. ASSUME NEW b \in Conditional
      PROVE  ValidatorIsOld(b)'
  <2>1. b \in Article /\ b \notin Console /\ RInv /\ ValidatorIsOld(b)
    BY RefreshAssumption DEF ValidatorInv
  <2>2. CASE UNCHANGED <<page, row, asked>>
    BY <1>1, <2>1, <2>2 DEF ValidatorIsOld
  <2>3. ASSUME NEW a \in Article, Publish(a)
        PROVE  ValidatorIsOld(b)'
    <3>1. page'[b] = page[b] \/ page'[b] = page[b] + 1
      BY <2>1, <2>3 DEF Publish, RInv, TypeOK
    <3>2. page[b] \in Nat /\ row[b].etag \in Nat
      BY <2>1, RowNumbers
    <3>3. row[b].etag <= page'[b]
      BY <2>1, <3>1, <3>2 DEF ValidatorIsOld
    <3> QED
      BY <1>1, <2>1, <2>3, <3>3 DEF Publish, ValidatorIsOld
  <2>4. ASSUME NEW a \in Article, ComesDue(a)
        PROVE  ValidatorIsOld(b)'
    <3>1. row'[b].text = row[b].text /\ row'[b].etag = row[b].etag
      BY <2>1, <2>4, RowNumbers DEF ComesDue, RInv, TypeOK, Row
    <3> QED
      BY <1>1, <2>1, <2>4, <3>1 DEF ComesDue, ValidatorIsOld
  <2>5. ASSUME NEW a \in Article, Ask(a)
        PROVE  ValidatorIsOld(b)'
    <3>1. asked'[b] = asked[b] \/ (run = Idle /\ asked'[b] \in {0, page[b]})
      BY <2>1, <2>5 DEF Ask, RInv, TypeOK
    <3> QED
      BY <1>1, <2>1, <2>5, <3>1 DEF Ask, ValidatorIsOld
  <2>6. ASSUME NEW a \in Article, Record(a)
        PROVE  ValidatorIsOld(b)'
    <3>1. CASE b # a
      BY <1>1, <2>1, <2>6, <3>1 DEF Record, ValidatorIsOld, RInv, TypeOK
    <3>2. CASE b = a
      <4>1. row'[b].text = asked[b] /\ row'[b].etag = row[b].etag /\ asked'[b] = None
        <5>1. PICK waits \in {TRUE, row[a].waits} : \E host \in Served[a] :
                row' = [row EXCEPT ![a].text = asked[a], ![a].host = host, ![a].waits = waits]
          BY <2>6 DEF Record
        <5>2. asked'[b] = None
          BY <2>6, <3>2 DEF Record, RInv, TypeOK
        <5> QED
          BY <2>1, <3>2, <5>1, <5>2, RowNumbers DEF RInv, TypeOK, Row
      <4> QED
        BY <1>1, <2>1, <2>6, <3>2, <4>1 DEF Record, ValidatorIsOld
    <3> QED
      BY <3>1, <3>2
  <2>7. ASSUME NEW a \in Article, ConsoleDies(a)
        PROVE  ValidatorIsOld(b)'
    <3>1. asked'[b] = asked[b] \/ asked'[b] = None
      BY <2>1, <2>7 DEF ConsoleDies, RInv, TypeOK
    <3> QED
      BY <1>1, <2>1, <2>7, <3>1 DEF ConsoleDies, ValidatorIsOld
  <2> QED
    BY <2>2, <2>3, <2>4, <2>5, <2>6, <2>7 DEF Expire, Unpause
<1> QED
  BY <1>2, <1>3 DEF ValidatorInv

LEMMA ValidatorStart ==
  ASSUME Conditional \cap Console = {}, ValidatorInv, RInv', StartRun
  PROVE  ValidatorInv'
<1> USE DEF hosts
<1>1. PICK due \in SUBSET {a \in Article : Due(row[a])} :
        run' = [Idle EXCEPT
          !.todo = {[article |-> a, row |-> row[a]] : a \in due},
          !.left = MaxRefreshes, !.used = log, !.paused = limited]
  BY DEF StartRun
<1>2. run'.todo = {[article |-> a, row |-> row[a]] : a \in due} /\ run'.cur = None
  BY <1>1 DEF Idle
<1>3. UNCHANGED <<page, row, asked>>
  BY DEF StartRun
<1>4. ASSUME NEW a \in Conditional
      PROVE  ValidatorIsOld(a)'
  <2>1. asked[a] = None
    BY RefreshAssumption DEF StartRun
  <2> QED
    BY <1>3, <2>1 DEF ValidatorInv, ValidatorIsOld
<1>5. ASSUME NEW c \in run'.todo
      PROVE  CopyValidatorIsOld(c)'
  <2>1. c.article \in due /\ c.row = row[c.article] /\ row[c.article].text # 0
    BY <1>2, <1>5 DEF Due
  <2> QED
    BY <2>1 DEF ValidatorInv, ValidatorIsOld, CopyValidatorIsOld
<1> QED
  BY <1>2, <1>4, <1>5 DEF ValidatorInv, NotModifiedIsTheText

(* A page that is still the validator's edit is the copy's text: nothing   *)
(* lies between the two.                                                   *)
LEMMA ValidatorFetch ==
  ASSUME \A v, w \in Stored : Body[v] = Body[w] => v = w, ValidatorInv, RInv', Fetch
  PROVE  ValidatorInv'
<1> USE DEF hosts
<1>1. PICK c \in run.todo : \E reply \in Replies(c) :
          run' = [run EXCEPT !.todo = @ \ {c}, !.left = @ - 1, !.cur = c, !.reply = reply]
  BY DEF Fetch
<1>2. PICK reply \in Replies(c) :
        run' = [run EXCEPT !.todo = @ \ {c}, !.left = @ - 1, !.cur = c, !.reply = reply]
  BY <1>1
<1>3. UNCHANGED <<page, row, asked>> /\ run.left > 0
  BY DEF Fetch
<1>4. /\ run \in Run /\ c \in Copy /\ CopyIsHeld(c) /\ CopyValidatorIsOld(c)
      /\ page[c.article] \in Stored /\ page[c.article] \in Nat
  BY CopyNumbers, RowNumbers DEF ValidatorInv, RInv, TypeOK, Run, Stored
<1>5. run'.todo = run.todo \ {c} /\ run'.cur = c /\ run'.reply = reply
  BY <1>2, <1>4 DEF Run
<1>60. reply.etag \in {0, reply.edit}
  BY DEF Replies
<1>6. reply.kind = "304" => reply.edit = c.row.text
  <2> SUFFICES ASSUME reply.kind = "304" PROVE reply.edit = c.row.text
    OBVIOUS
  <2>1. /\ c.article \in Conditional /\ reply.edit = page[c.article]
        /\ Body[c.row.etag] = Body[page[c.article]]
    BY DEF Replies, FAILURES
  <2>2. c.row.etag = page[c.article]
    BY <1>4, <2>1, CopyNumbers
  <2>3. c.row.etag <= c.row.text /\ c.row.text <= page[c.article]
    BY <1>4, <2>1 DEF CopyValidatorIsOld, CopyIsHeld
  <2> QED
    BY <1>4, <2>1, <2>2, <2>3, CopyNumbers
<1>7. run' # Idle
  BY <1>4, <1>5, IdleRun, RefreshAssumption
<1>8. ASSUME NEW a \in Conditional
      PROVE  ValidatorIsOld(a)'
  <2>1. asked[a] = None
    BY IdleRun DEF ValidatorInv, ValidatorIsOld
  <2> QED
    BY <1>3, <2>1 DEF ValidatorInv, ValidatorIsOld
<1> QED
  BY <1>4, <1>5, <1>6, <1>60, <1>8 DEF ValidatorInv, NotModifiedIsTheText, CopyValidatorIsOld

(* What a check that found no other text leaves in the row is what the     *)
(* server had.                                                             *)
LEMMA ConfirmedRow ==
  ASSUME NEW r \in Row, NEW c \in Copy, NEW reply \in Reply,
         reply.kind = "304" => reply.edit = c.row.text, reply.etag \in {0, reply.edit}
  PROVE  LET q == Refreshed(r, c, reply) IN
         /\ q.outcome \in {"UNCHANGED", "NOT_MODIFIED"} => Body[q.text] = Body[reply.edit]
         /\ \/ q.text = r.text /\ q.etag = r.etag
            \/ q.etag = 0
            \/ Body[q.text] = Body[reply.edit] /\ q.etag = reply.edit
<1> DEFINE result == Result(c, reply)
<1>1. result \in SUCCESSES \cup FAILURES
  BY DEF Result, Reply, SUCCESSES, FAILURES
<1>2. CASE result \in FAILURES
  <2>1. Refreshed(r, c, reply) = Failed(r, c, result)
    BY <1>2 DEF Refreshed, FAILURES
  <2> HIDE DEF result
  <2>2. Failed(r, c, result).outcome = result /\ Failed(r, c, result).text = r.text
        /\ Failed(r, c, result).etag = r.etag
    BY DEF Failed, Row
  <2> QED
    BY <1>2, <2>1, <2>2 DEF FAILURES
<1>3. CASE result \notin FAILURES /\ ~SameRow(r, c)
  <2>1. Refreshed(r, c, reply) = Superseded(r)
    BY <1>3 DEF Refreshed
  <2>2. Superseded(r).outcome = "SUPERSEDED" /\ Superseded(r).text = r.text
        /\ Superseded(r).etag = r.etag
    BY DEF Superseded, Row
  <2> QED
    BY <2>1, <2>2
<1>4. CASE result \notin FAILURES /\ SameRow(r, c) /\ result = "REVISED"
  <2>1. Refreshed(r, c, reply) = Revised(r, reply)
    BY <1>4 DEF Refreshed
  <2>2. Revised(r, reply).text = reply.edit /\ Revised(r, reply).etag = reply.etag
        /\ Revised(r, reply).outcome = "REVISED"
    BY DEF Revised, Row
  <2> QED
    BY <2>1, <2>2
<1>5. CASE result \notin FAILURES /\ SameRow(r, c) /\ result # "REVISED"
  <2>1. Refreshed(r, c, reply) = Confirmed(r, reply, result)
    BY <1>5 DEF Refreshed
  <2>2. Body[c.row.text] = Body[reply.edit]
    BY <1>5 DEF Result, Reply, FAILURES
  <2> HIDE DEF result
  <2>3. /\ Confirmed(r, reply, result).text = r.text
        /\ Confirmed(r, reply, result).etag = IF reply.etag # 0 THEN reply.etag ELSE r.etag
    BY DEF Confirmed, Row
  <2> QED
    BY <1>5, <2>1, <2>2, <2>3 DEF SameRow
<1> QED
  BY <1>1, <1>2, <1>3, <1>4, <1>5

(* The transaction's row and its reply, by name.                           *)
LEMMA FinishFacts ==
  ASSUME ValidatorInv, Finish
  PROVE  LET c == run.cur IN
         /\ c # None /\ c \in Copy /\ c.article \in Article /\ run.reply \in Reply
         /\ row[c.article] \in Row /\ (run.reply.kind = "304" => run.reply.edit = c.row.text)
         /\ run.reply.etag \in {0, run.reply.edit}
         /\ row'[c.article] = Refreshed(row[c.article], c, run.reply)
         /\ \A a \in Article : a # c.article => row'[a] = row[a]
         /\ UNCHANGED <<page, asked>> /\ run'.cur = None /\ run'.todo = run.todo
<1>1. run.cur # None /\ RInv /\ NotModifiedIsTheText
  BY DEF Finish, ValidatorInv
<1>2. run \in Run /\ run.cur \in Copy /\ run.reply \in Reply /\ row \in [Article -> Row]
  BY <1>1 DEF RInv, TypeOK, Run, ReplyIsLater
<1>3. run.cur.article \in Article
  BY <1>2, CopyNumbers
<1>4. run'.cur = None /\ run'.todo = run.todo
  BY <1>2 DEF Finish, Counted, Run
<1> QED
  BY <1>1, <1>2, <1>3, <1>4 DEF Finish, NotModifiedIsTheText

LEMMA ValidatorFinish ==
  ASSUME \A v, w \in Stored : Body[v] = Body[w] => v = w, ValidatorInv, RInv', Finish
  PROVE  ValidatorInv'
<1> DEFINE c == run.cur
           q == Refreshed(row[c.article], c, run.reply)
<1>1. /\ c # None /\ c \in Copy /\ c.article \in Article /\ run.reply \in Reply
      /\ row[c.article] \in Row /\ (run.reply.kind = "304" => run.reply.edit = c.row.text)
      /\ run.reply.etag \in {0, run.reply.edit}
      /\ row'[c.article] = q
      /\ \A a \in Article : a # c.article => row'[a] = row[a]
      /\ UNCHANGED <<page, asked>> /\ run'.cur = None /\ run'.todo = run.todo
  BY FinishFacts
<1>2. ASSUME NEW a \in Conditional
      PROVE  ValidatorIsOld(a)'
  <2>1. a \in Article /\ asked[a] = None /\ ValidatorIsOld(a)
    BY <1>1, RefreshAssumption, IdleRun DEF ValidatorInv, ValidatorIsOld
  <2>2. CASE row'[a].text = row[a].text /\ row'[a].etag = row[a].etag
    BY <1>1, <2>1, <2>2 DEF ValidatorIsOld
  <2>3. CASE row'[a].text = row'[a].etag
    <3>1. RInv' /\ row'[a].text \in Nat /\ row'[a].text <= page'[a]
      BY <2>1 DEF RInv, TypeOK, Row, NothingIsAhead, Stored, Edits
    <3> QED
      BY <1>1, <2>1, <2>3, <3>1 DEF ValidatorIsOld
  <2>30. CASE row'[a].etag = 0
    BY <1>1, <2>1, <2>30, RowNumbers DEF ValidatorIsOld, RInv, TypeOK, Row, Stored, Edits
  <2>4. CASE a = c.article
    <3>1. \/ q.text = row[a].text /\ q.etag = row[a].etag
          \/ q.etag = 0
          \/ Body[q.text] = Body[run.reply.edit] /\ q.etag = run.reply.edit
      BY <1>1, <2>4, ConfirmedRow
    <3>2. q.text \in Stored /\ run.reply.edit \in Stored
      <4>1. q \in Row
        BY <1>1, RefreshedRow
      <4> QED
        BY <1>1, <4>1 DEF Row, Reply
    <3> HIDE DEF q
    <3> QED
      BY <1>1, <2>2, <2>3, <2>30, <2>4, <3>1, <3>2
  <2> QED
    BY <1>1, <2>1, <2>2, <2>4
<1> QED
  BY <1>1, <1>2 DEF ValidatorInv, NotModifiedIsTheText, CopyValidatorIsOld

LEMMA ValidatorNext ==
  ASSUME \A v, w \in Stored : Body[v] = Body[w] => v = w,
         Conditional \cap Console = {}, ValidatorInv, [Next]_vars
  PROVE  ValidatorInv'
<1>1. RInv'
  BY RNext DEF ValidatorInv
<1>2. CASE UNCHANGED vars
  BY <1>1, <1>2 DEF vars, ValidatorInv, ValidatorIsOld, CopyValidatorIsOld, NotModifiedIsTheText
<1>3. CASE EndRun \/ Crash
  <2>1. run' = Idle /\ UNCHANGED <<page, row, asked>>
    BY <1>3 DEF EndRun, Crash
  <2> QED
    BY <1>1, <2>1, IdleRun DEF ValidatorInv, ValidatorIsOld, CopyValidatorIsOld,
       NotModifiedIsTheText
<1> QED
  BY <1>1, <1>2, <1>3, ValidatorOutside, ValidatorStart, ValidatorFetch, ValidatorFinish DEF Next

LEMMA ValidatorInit == Init => ValidatorInv
<1> SUFFICES ASSUME Init PROVE ValidatorInv
  OBVIOUS
<1>1. RInv
  BY RInit
<1>2. \A a \in Conditional : ValidatorIsOld(a)
  BY RefreshAssumption DEF Init, NewRow, ValidatorIsOld
<1> QED
  BY <1>1, <1>2, IdleRun DEF Init, ValidatorInv, NotModifiedIsTheText

ConfirmedStep ==
  \A a \in Article :
    /\ run.cur # None /\ run' # run /\ row'[a] # row[a]
    /\ row'[a].outcome \in {"UNCHANGED", "NOT_MODIFIED"}
    => Body[row'[a].text] = Body[run.reply.edit]

(* A check that confirms an article confirms the text the server had, also *)
(* when a fetch replaced that text meanwhile.  A server that answers a     *)
(* validator is believed about the text: right as long as no text is       *)
(* stored beside a run without its validator, and no edit is taken back    *)
(* behind a text that another fetch stored.                                *)
THEOREM WhatIsConfirmedWasServed ==
  ASSUME \A v, w \in Stored : Body[v] = Body[w] => v = w, Conditional \cap Console = {}
  PROVE  Spec => ConfirmedWasServed
<1>1. ValidatorInv /\ [Next]_vars => ValidatorInv'
  BY ValidatorNext
<1>2. ValidatorInv /\ [Next]_vars => [ConfirmedStep]_vars
  <2> SUFFICES ASSUME ValidatorInv, Next, NEW a \in Article,
                      run.cur # None, run' # run, row'[a] # row[a],
                      row'[a].outcome \in {"UNCHANGED", "NOT_MODIFIED"}
               PROVE  Body[row'[a].text] = Body[run.reply.edit]
    BY DEF ConfirmedStep, vars
  <2>1. Finish
    BY DEF Next, Publish, ComesDue, Ask, Record, ConsoleDies, Expire, Unpause, StartRun, Fetch,
       EndRun, Crash, hosts
  <2>2. /\ a = run.cur.article /\ run.cur \in Copy /\ run.reply \in Reply /\ row[a] \in Row
        /\ run.reply.kind = "304" => run.reply.edit = run.cur.row.text
        /\ run.reply.etag \in {0, run.reply.edit}
        /\ row'[a] = Refreshed(row[a], run.cur, run.reply)
    BY <2>1, FinishFacts
  <2> QED
    BY <2>2, ConfirmedRow
<1>3. [ConfirmedStep]_vars =>
        [\A a \in Article :
           /\ run.cur # None /\ run' # run /\ row'[a] # row[a]
           /\ row'[a].outcome \in {"UNCHANGED", "NOT_MODIFIED"}
           => Body[row'[a].text] = Body[run.reply.edit]]_vars
  BY DEF ConfirmedStep
<1> QED
  BY <1>1, <1>2, <1>3, ValidatorInit, PTL DEF Spec, ConfirmedWasServed

=============================================================================
