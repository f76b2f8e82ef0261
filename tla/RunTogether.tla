---------------------------- MODULE RunTogether ----------------------------
(***************************************************************************)
(* What libsboxd promises to the caller of run_together(): the tasks of a  *)
(* request run together, each at most once, and the answer gives how each  *)
(* of them ended, in the order of the request - or the worker is dead and  *)
(* there is no answer.  No containers, barriers or signals: Sandbox, which *)
(* has them, implements this specification.                                *)
(***************************************************************************)
EXTENDS Naturals, Sequences

CONSTANT MaxTasks   \* bound on the tasks of a request

VARIABLES
  phase,   \* what the worker is doing
  stage,   \* how far each task of the request at hand has come
  reply    \* the answer that is being given

vars == <<phase, stage, reply>>

Phase == {"idle", "busy", "answered", "stopped", "dead"}

\* A task is asked for, placed in a box, running, ended; then its outcome is
\* recorded, unless it is lost with its box.
Outcome == {"exited", "limit", "failed"}
Stage == {"asked", "placed", "running", "ended", "lost"} \cup Outcome

\* What an answer may say of a task.
Good == {"exited", "limit"}

TypeOK ==
  /\ phase \in Phase
  /\ stage \in Seq(Stage) /\ Len(stage) <= MaxTasks
  /\ reply \in Seq(Good)

Init == phase = "idle" /\ stage = <<>> /\ reply = <<>>

\* A request for n tasks is taken.
Ask(n) ==
  /\ phase = "idle"
  /\ phase' = "busy"
  /\ stage' = [k \in 1..n |-> "asked"]
  /\ UNCHANGED reply

\* A request is refused: the answer is about no task.
Refuse ==
  /\ phase = "idle"
  /\ phase' = "answered"
  /\ UNCHANGED <<stage, reply>>

\* Task k goes on from one of the stages before to the stage after.
Advance(k, before, after) ==
  /\ stage[k] \in before
  /\ stage' = [stage EXCEPT ![k] = after]
  /\ UNCHANGED <<phase, reply>>

\* A box that was to take a task may do so after the worker has died.
Place(k) == phase \in {"busy", "dead"} /\ Advance(k, {"asked"}, "placed")

\* No task runs before all are placed.
Run(k) ==
  /\ \A j \in DOMAIN stage : stage[j] # "asked"
  /\ Advance(k, {"placed"}, "running")

\* A task that has not begun to run yet may be at a limit already.
End(k) == Advance(k, {"placed", "running"}, "ended")

Record(k, outcome) == Advance(k, {"ended"}, outcome)

Lose(k) == Advance(k, {"placed", "running", "ended"}, "lost")

\* The answer is complete and in order.
Answer ==
  /\ phase = "busy"
  /\ \A k \in DOMAIN stage : stage[k] \in Good
  /\ phase' = "answered" /\ reply' = stage /\ stage' = <<>>

Return ==
  /\ phase = "answered"
  /\ phase' = "idle" /\ reply' = <<>>
  /\ UNCHANGED stage

Stop ==
  /\ phase = "idle"
  /\ phase' = "stopped"
  /\ UNCHANGED <<stage, reply>>

Die ==
  /\ phase \in {"idle", "busy", "answered"}
  /\ phase' = "dead" /\ reply' = <<>>
  /\ UNCHANGED stage

Next ==
  \/ \E n \in 0..MaxTasks : Ask(n)
  \/ Refuse \/ Answer \/ Return \/ Stop \/ Die
  \/ \E k \in DOMAIN stage :
       \/ Place(k) \/ Run(k) \/ End(k) \/ Lose(k)
       \/ \E outcome \in Outcome : Record(k, outcome)

Spec == Init /\ [][Next]_vars
=============================================================================
