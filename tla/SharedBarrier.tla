--------------------------- MODULE SharedBarrier ---------------------------
(***************************************************************************)
(* The process-shared barrier of src/src/shared_barrier.cpp: a wrapper of  *)
(* pthread_barrier_t in shared memory.  A barrier is a value; the modules  *)
(* that use barriers keep it in a variable.                                *)
(*                                                                         *)
(*   need     the count the barrier was initialised with                   *)
(*   waiting  the processes that arrived in the round still to complete    *)
(*   leaving  the processes of a completed round that have not yet         *)
(*            returned from wait()                                         *)
(*                                                                         *)
(* wait() is two steps, Arrive and Leave: the processes of a completed     *)
(* round return in any order, at any later time, and an arrival outlives   *)
(* the process that made it, because the barrier is in shared memory.      *)
(***************************************************************************)
EXTENDS Naturals, FiniteSets

\* The set of all barriers over the processes P.
BarrierOver(P) ==
  [need : Nat \ {0}, waiting : SUBSET P, leaving : SUBSET P]

\* SharedBarrier(count), and reset(count), which destroys the barrier and
\* initialises it again in the same memory.
NewBarrier(count) ==
  [need |-> count, waiting |-> {}, leaving |-> {}]

\* p is the last process the current round of b is waiting for.
CompletesRound(b, p) ==
  Cardinality(b.waiting \cup {p}) = b.need

\* Process p calls wait(): the last arrival releases the whole round.
Arrive(b, p) ==
  IF CompletesRound(b, p)
  THEN [b EXCEPT !.waiting = {}, !.leaving = @ \cup b.waiting \cup {p}]
  ELSE [b EXCEPT !.waiting = @ \cup {p}]

\* wait() may return to p.
Released(b, p) == p \in b.leaving

\* wait() returns to p.
Leave(b, p) == [b EXCEPT !.leaving = @ \ {p}]
=============================================================================
