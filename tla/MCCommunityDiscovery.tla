-------------------------- MODULE MCCommunityDiscovery --------------------------
(***************************************************************************)
(* Small instances of CommunityDiscovery for TLC.                          *)
(***************************************************************************)
EXTENDS CommunityDiscovery

CONSTANTS cafe, site

H(name, kind, date, word, ends, external) ==
  [name |-> name, kind |-> kind, date |-> date, word |-> word, ends |-> ends,
   external |-> external]

(* a lively cafe; word of its end, and a site of the same name             *)
Findings ==
  { [k \in {} |-> None],
    [k \in {cafe} |-> H(1, "community", "recent", TRUE, FALSE, FALSE)],
    [k \in {cafe, site} |-> IF k = cafe THEN H(None, "unknown", None, FALSE, TRUE, FALSE)
                            ELSE H(1, "community", "past", FALSE, FALSE, FALSE)] }

(* the site is a community's already; others may be entered               *)
Entries == { [key |-> site, name |-> 2], [key |-> cafe, name |-> 1], [key |-> None, name |-> 3] }
Early == [c \in Community |-> IF c = 1 THEN [key |-> site, name |-> 2] ELSE None]

=============================================================================
