----------------------------- MODULE MCExchange -----------------------------
(***************************************************************************)
(* Exchange with a few clients and workers for TLC.                        *)
(***************************************************************************)
EXTENDS Exchange

CONSTANTS c1, c2, w1, w2, nobody

Callers == {c1, c2}
OneImpatient == {c1}
TwoWorkers == {w1, w2}

\* What the library sends, what the schema refuses, what it lets pass though
\* it cannot be decoded, what is too large, and what a container may fail of.
Library ==
  [missing |-> {}, mistyped |-> {}, outsized |-> {}, fits |-> TRUE,
   safe |-> TRUE]
RequestsOfAllKinds ==
  {Library, [Library EXCEPT !.missing = {"argv"}],
   [Library EXCEPT !.missing = {"env"}],
   [Library EXCEPT !.outsized = {"max_threads"}],
   [Library EXCEPT !.fits = FALSE], [Library EXCEPT !.safe = FALSE]}
=============================================================================
