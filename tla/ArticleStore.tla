----------------------------- MODULE ArticleStore ------------------------------
(***************************************************************************)
(* What the runtime promises of a stored article: a re-check only ever     *)
(* replaces it by a text the site served later, and never takes it away.   *)
(* Going back, or losing the text, is left to a plain acquisition, which   *)
(* stores whatever the server answered it.                                 *)
(***************************************************************************)
EXTENDS Naturals

CONSTANTS
  Article,
  None

VARIABLES
  page,       \* the edit of the article its site serves: 1, 2, ...
  article,    \* the edit that is stored; 0 when no text is
  asked       \* what the server answered an acquisition not stored yet

storeVars == <<page, article, asked>>

StoreInit ==
  /\ page = [a \in Article |-> 1]
  /\ article = [a \in Article |-> 0]
  /\ asked = [a \in Article |-> None]

Edit(a) ==
  /\ page' = [page EXCEPT ![a] = @ + 1]
  /\ UNCHANGED <<article, asked>>

(* an acquisition is answered, with the page or with a refusal             *)
Answer(a) ==
  /\ asked[a] = None
  /\ \E edit \in {0, page[a]} : asked' = [asked EXCEPT ![a] = edit]
  /\ UNCHANGED <<page, article>>

Store(a) ==
  /\ asked[a] # None
  /\ article' = [article EXCEPT ![a] = asked[a]]
  /\ asked' = [asked EXCEPT ![a] = None]
  /\ UNCHANGED page

Lose(a) ==
  /\ asked' = [asked EXCEPT ![a] = None]
  /\ UNCHANGED <<page, article>>

(* a re-check stores a later edit                                          *)
Advance(a) ==
  /\ article[a] # 0
  /\ \E edit \in article[a] + 1 .. page[a] : article' = [article EXCEPT ![a] = edit]
  /\ UNCHANGED <<page, asked>>

StoreNext ==
  \E a \in Article : Edit(a) \/ Answer(a) \/ Store(a) \/ Lose(a) \/ Advance(a)

StoreSpec == StoreInit /\ [][StoreNext]_storeVars

=============================================================================
