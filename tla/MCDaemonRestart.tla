--------------------------- MODULE MCDaemonRestart ---------------------------
(***************************************************************************)
(* DaemonRestart with a few daemons and shells for TLC.                    *)
(***************************************************************************)
EXTENDS DaemonRestart

CONSTANTS d1, d2, d3, s1, s2

ThreeDaemons == {d1, d2, d3}
TwoShells == {s1, s2}

AllCommands == {"stop", "kill", "killall"}
ServeFaults == {"serve", "unlink", "reap"}
=============================================================================
