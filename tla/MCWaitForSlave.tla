--------------------------- MODULE MCWaitForSlave ---------------------------
(***************************************************************************)
(* WaitForSlave with two more processes and small limits for TLC.          *)
(***************************************************************************)
EXTENDS WaitForSlave

CONSTANTS p1, p2

TwoOthers == {p1, p2}

\* A task with a limit on its time, one with a limit on the wall time, and
\* one without a limit.
SmallLimits == {[time |-> 1, wall |-> NoLimit],
                [time |-> NoLimit, wall |-> 1],
                [time |-> NoLimit, wall |-> NoLimit]}
=============================================================================
