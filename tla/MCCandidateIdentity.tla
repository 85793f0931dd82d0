-------------------------- MODULE MCCandidateIdentity --------------------------
(***************************************************************************)
(* Small instances of CandidateIdentity for TLC.                           *)
(***************************************************************************)
EXTENDS CandidateIdentity

CONSTANTS milonga, lesson, social, class, hall, scheduler

P(date, stem, type, start, rest) ==
  [date |-> date, stem |-> stem, type |-> type, start |-> start, rest |-> rest]

Readings ==
  { << >>,
    \* a night of two programmes, and another day
    << P(1, milonga, social, 20, hall), P(1, lesson, class, 19, hall) >>,
    << P(1, milonga, social, 20, hall), P(2, milonga, social, 20, hall) >>,
    \* its clock corrected; its title revised, and the lesson's clock
    << P(1, milonga, social, 21, hall), P(1, lesson, class, 19, hall) >>,
    << P(1, lesson, social, 20, hall), P(1, lesson, class, 18, hall) >>,
    \* two that only their end tells apart
    << P(1, milonga, social, 20, hall), P(1, milonga, social, 20, None) >>,
    \* one programme, on that day or on another
    << P(1, milonga, social, 20, None) >>,
    << P(2, milonga, social, 20, hall) >> }

Programmes == UNION {{r[i] : i \in DOMAIN r} : r \in Readings}

=============================================================================
