----------------------------- MODULE MCDuplicates -----------------------------
(***************************************************************************)
(* Small instances of Duplicates for TLC.                                  *)
(***************************************************************************)
EXTENDS Duplicates

CONSTANTS v1, w1, w2, scheduler

At(venue, words, clock) ==
  [day |-> 1, festival |-> FALSE, venue |-> venue, words |-> words, clock |-> clock,
   series |-> None, rejected |-> FALSE]

(* Two posts of a night at a known venue and one that may name another     *)
(* city; a clock may be read otherwise, a venue may be resolved or lost.   *)
Nights ==
  [e \in Event |-> IF e = 1 THEN {At(v1, w1, 20), At(v1, w1, 21)}
                   ELSE IF e = 2 THEN {At(v1, w1, 20), At(None, w1, 20)}
                   ELSE {At(v1, w2, 20)}]

Cities == {<<w1, w2>>, <<w2, w1>>}
NoCities == {}

=============================================================================
