------------------------- MODULE MCDaemonLifecycle -------------------------
(***************************************************************************)
(* DaemonLifecycle with a few workers for TLC.                             *)
(***************************************************************************)
EXTENDS DaemonLifecycle

CONSTANTS w1, w2

OneWorker == {w1}
TwoWorkers == {w1, w2}

NoFaults == {}
WorkerFaults ==
  {"forked", "context", "armed", "ready", "accept", "accepted", "serve"}
AllFaults ==
  WorkerFaults \cup {"spawn", "wait", "unlink", "tell", "reap", "kill"}
=============================================================================
