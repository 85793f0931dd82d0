-------------------------- MODULE MCArticleRefresh ---------------------------
(***************************************************************************)
(* Small instances of ArticleRefresh for TLC: two articles of one host,    *)
(* the second of which an acquisition may also find on a cafe, whose pages *)
(* have a mobile representation on a host of their own.                    *)
(***************************************************************************)
EXTENDS ArticleRefresh

CONSTANTS
  a1, a2, h1, cafe, mobile,
  MaxLog     \* bound on the lines of the log, of all hosts

CafeAndMobile == [h \in Host |-> IF h = cafe THEN {mobile, cafe} ELSE {h}]

SecondMoves == [a \in Article |-> IF a = a1 THEN {h1} ELSE {h1, cafe}]

(* three on the article the console fetches: one that a re-check copied,   *)
(* one it is answered, one the console stores meanwhile                    *)
ThreeEdits == [a \in Article |-> IF a \in Console THEN 3 ELSE 1]

(* every edit of the page has a text of its own                            *)
NoEditIsTakenBack == [v \in Stored |-> v]

(***************************************************************************)
(* What the two articles do is interleaved on h1.  While the cafe is about *)
(* the first page is still in its first edit, and the log outlasts a run:  *)
(* that it may shrink under one only makes the run ask less than it could. *)
(***************************************************************************)
CafeIsIdle ==
  /\ row[a2].host = h1 /\ limited \subseteq {h1}
  /\ log[cafe] = 0 /\ log[mobile] = 0

SmallNext ==
  \/ CafeIsIdle /\ Publish(a1)
  \/ \E a \in Article : ComesDue(a) \/ Ask(a) \/ ConsoleDies(a)
  \/ \E a \in Article : Record(a) /\ (page[a1] = 1 \/ row'[a2].host = h1)
  \/ \E h \in Host : run = Idle /\ (Expire(h) \/ Unpause(h))
  \/ log[h1] + log[cafe] + log[mobile] < MaxLog /\ Finish
  \/ StartRun \/ Fetch \/ EndRun \/ Crash

SmallSpec == Init /\ [][SmallNext]_vars

=============================================================================
