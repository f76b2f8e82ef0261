------------------------- MODULE MCSharedIdGetter -------------------------
(***************************************************************************)
(* SharedIdGetter with a few workers and ids for TLC.                      *)
(***************************************************************************)
EXTENDS SharedIdGetter, TLC

CONSTANTS w1, w2, nobody

TwoWorkers == {w1, w2}
WorkerSymmetry == Permutations(TwoWorkers)
=============================================================================
