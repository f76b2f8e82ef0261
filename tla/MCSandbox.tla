----------------------------- MODULE MCSandbox -----------------------------
(***************************************************************************)
(* Sandbox on small requests for TLC.                                      *)
(***************************************************************************)
EXTENDS Sandbox

Plain == [ipc |-> FALSE, std |-> TRUE, limited |-> FALSE, pipe |-> FALSE]
Limited == [Plain EXCEPT !.limited = TRUE]
Piped == [Plain EXCEPT !.pipe = TRUE]
LimitedPiped == [Piped EXCEPT !.limited = TRUE]
WithIpc == [LimitedPiped EXCEPT !.ipc = TRUE]
Bare == [Limited EXCEPT !.std = FALSE]

\* Two programs joined by a pipe, one in a temporary and one in a permanent
\* container; two permanent containers; and the empty request.
MixedRequests == {<<WithIpc, LimitedPiped>>, <<Limited, Limited>>, <<>>}

\* Requests that permanent containers serve.
PermanentRequests == {<<LimitedPiped, LimitedPiped>>, <<Plain, Limited>>}

TwoTemporaries == {<<WithIpc, WithIpc>>}
OneLimited == {<<Limited>>}
OneBare == {<<Bare>>}

\* Where the worker, a container or a slave has system calls that may fail.
WorkerFaults == {"accept", "prepare", "write", "close", "respond"}
ContainerFaults == {"cloned", "armed", "launch", "watch", "finish", "cleanup"}
AllFaults == WorkerFaults \cup ContainerFaults \cup {"born", "setup"}
NoFaults == {}
=============================================================================
