-------------------------- MODULE DaemonLifecycle --------------------------
(***************************************************************************)
(* The life of libsboxd: the daemon (src/src/daemon.cpp) spawns workers,   *)
(* sleeps in wait() until SIGTERM comes or a worker ends, tells the        *)
(* workers to stop and waits for all of them; a worker (the frame of       *)
(* src/src/worker.cpp, serve()) sleeps in accept() and serves one client   *)
(* after the other.                                                        *)
(*                                                                         *)
(* A signal takes effect at once: its handler runs, and the system call    *)
(* in which the process sleeps fails unless SA_RESTART is set for it.      *)
(* Between two steps of a process a signal may come.                       *)
(***************************************************************************)
EXTENDS Integers, FiniteSets

CONSTANTS
  Workers,     \* the worker processes to spawn
  MaxClients,  \* bound on the connections
  MaxSignals,  \* bound on the SIGTERMs the daemon gets
  Faults       \* the program points where a process may die of an error,
               \* and "kill" if the daemon may get SIGKILL

\* Without a worker wait() would fail at once.
ASSUME WorkersAssumption == Workers # {}
ASSUME BoundsAssumption == MaxClients \in Nat /\ MaxSignals \in Nat

\* Process numbers that getppid() may return.
NoPid == 0
InitPid == 1
DaemonPid == 2

VARIABLES
  dpc,         \* the daemon's program counter
  terminated,  \* terminated_ of the daemon
  told,        \* the workers the daemon has sent SIGTERM
  reaped,      \* the workers wait() has returned
  linked,      \* the socket's path exists
  signals,     \* how many SIGTERMs the daemon got
  clients,     \* how many clients have connected
  backlog,     \* connections nobody has accepted yet
  wpc,         \* the program counter of each worker
  stop,        \* terminated_ of each worker
  armed,       \* the workers that have set their parent death signal
  restart,     \* the workers that have SA_RESTART set for SIGTERM
  missed       \* history: the workers whose SIGTERM came before they had set
               \* their context, or between the test of the flag and accept()

daemonVars == <<dpc, terminated, told, reaped, linked>>
workerVars == <<wpc, stop, armed, restart, missed>>
worldVars == <<signals, clients, backlog>>
vars == <<daemonVars, workerVars, worldVars>>

DaemonPc == {"spawn", "wait", "unlink", "tell", "reap", "stopped", "dead"}

WorkerPc ==
  {"none", "forked", "context", "armed", "test", "ready", "accept",
   "interrupted", "accepted", "serve", "stopped", "dead"}

Ended == {"stopped", "dead"}

TypeOK ==
  /\ dpc \in DaemonPc
  /\ terminated \in BOOLEAN /\ linked \in BOOLEAN
  /\ told \subseteq Workers /\ reaped \subseteq Workers
  /\ signals \in 0..MaxSignals
  /\ clients \in 0..MaxClients /\ backlog \in 0..clients
  /\ wpc \in [Workers -> WorkerPc]
  /\ stop \in [Workers -> BOOLEAN]
  /\ armed \subseteq Workers /\ restart \subseteq Workers
  /\ missed \subseteq Workers

\* The daemon has prepared itself: its handlers are set, its socket listens.
Init ==
  /\ dpc = "spawn" /\ terminated = FALSE
  /\ told = {} /\ reaped = {}
  /\ linked = TRUE
  /\ signals = 0 /\ clients = 0 /\ backlog = 0
  /\ wpc = [w \in Workers |-> "none"]
  /\ stop = [w \in Workers |-> FALSE]
  /\ armed = {} /\ restart = {} /\ missed = {}
-----------------------------------------------------------------------------
(* The daemon.                                                             *)

\* The daemon's process ends.  The kernel kills the workers that have set
\* their parent death signal.
DaemonEnds(pc) ==
  /\ dpc' = pc
  /\ wpc' = [w \in Workers |->
               IF w \in armed /\ wpc[w] \notin Ended THEN "dead" ELSE wpc[w]]
  /\ UNCHANGED <<stop, armed, restart, missed>>

\* _die(): the socket is removed, then the daemon exits with 1.
DaemonDies == DaemonEnds("dead") /\ linked' = FALSE

Spawn(w) ==
  /\ dpc = "spawn"
  /\ wpc[w] = "none"
  /\ wpc' = [wpc EXCEPT ![w] = "forked"]
  /\ UNCHANGED <<daemonVars, stop, armed, restart, missed, worldVars>>

\* All workers are spawned, and the daemon goes to sleep in wait().
EnterWait ==
  /\ dpc = "spawn"
  /\ \A w \in Workers : wpc[w] # "none"
  /\ dpc' = "wait"
  /\ UNCHANGED <<terminated, told, reaped, linked, workerVars, worldVars>>

\* Mutant: the end of a worker is not taken for an error.
WorkerLostIgnored(w) ==
  /\ dpc = "wait"
  /\ wpc[w] \in Ended /\ w \notin reaped
  /\ reaped' = reaped \cup {w}
  /\ UNCHANGED <<dpc, terminated, told, linked, workerVars, worldVars>>

\* wait() returns a worker, which should not have ended.
WorkerLost(w) ==
  /\ dpc = "wait"
  /\ wpc[w] \in Ended
  /\ DaemonDies
  /\ reaped' = reaped \cup {w}
  /\ UNCHANGED <<terminated, told, worldVars>>

\* SIGTERM: the handler sets the flag.  wait() fails: the daemon then stops,
\* or, when it is waiting for the workers' ends already, dies.
Sigterm ==
  /\ dpc \notin Ended
  /\ signals < MaxSignals
  /\ signals' = signals + 1
  /\ terminated' = TRUE
  /\ \/ /\ dpc = "reap"
        /\ DaemonDies
     \/ /\ dpc # "reap"
        /\ dpc' = IF dpc = "wait" THEN "unlink" ELSE dpc
        /\ UNCHANGED <<linked, workerVars>>
  /\ UNCHANGED <<told, reaped, clients, backlog>>

\* The socket is removed and closed: nobody can connect any more.
Unlink ==
  /\ dpc = "unlink"
  /\ linked' = FALSE
  /\ dpc' = "tell"
  /\ UNCHANGED <<terminated, told, reaped, workerVars, worldVars>>

\* Where a system call that SIGTERM interrupts takes a worker: accept()
\* fails; a call that serves a request fails too, and the worker dies.
AfterInterrupt(pc) ==
  IF pc = "accept" THEN "interrupted"
  ELSE IF pc = "serve" THEN "dead" ELSE pc

\* What SIGTERM does to worker w.  Before it has set its context the handler
\* sets the worker's copy of the daemon's flag, which nobody reads.
Hear(w) ==
  /\ stop' = [stop EXCEPT ![w] = @ \/ wpc[w] \notin {"forked"} \cup Ended]
  /\ missed' = IF wpc[w] \in {"forked", "ready"}
               THEN missed \cup {w} ELSE missed
  /\ wpc' = IF w \in restart
            THEN wpc ELSE [wpc EXCEPT ![w] = AfterInterrupt(@)]

\* The daemon sends SIGTERM to one worker after the other.
Tell(w) ==
  /\ dpc = "tell"
  /\ w \notin told
  /\ told' = told \cup {w}
  /\ dpc' = IF told' = Workers THEN "reap" ELSE "tell"
  /\ Hear(w)
  /\ UNCHANGED <<terminated, reaped, linked, armed, restart, worldVars>>

\* Mutant: the exit status of a worker that was told to stop is ignored.
ReapAnyStatus(w) ==
  /\ dpc = "reap"
  /\ wpc[w] \in Ended /\ w \notin reaped
  /\ reaped' = reaped \cup {w}
  /\ UNCHANGED <<dpc, terminated, told, linked, workerVars, worldVars>>

\* wait() returns a worker that was told to stop; it must have exited with 0.
Reap(w) ==
  /\ dpc = "reap"
  /\ wpc[w] \in Ended /\ w \notin reaped
  /\ reaped' = reaped \cup {w}
  /\ \/ /\ wpc[w] = "stopped"
        /\ UNCHANGED <<dpc, linked, workerVars>>
     \/ /\ wpc[w] # "stopped"
        /\ DaemonDies
  /\ UNCHANGED <<terminated, told, worldVars>>

\* As many workers were waited for as there are: the daemon exits with 0.
Stopped ==
  /\ dpc = "reap"
  /\ reaped = Workers
  /\ DaemonEnds("stopped")
  /\ UNCHANGED <<terminated, told, reaped, linked, worldVars>>

\* A system call of the daemon fails: die().
DaemonFails ==
  /\ dpc \in Faults \ Ended
  /\ DaemonDies
  /\ UNCHANGED <<terminated, told, reaped, worldVars>>

\* SIGKILL, for which libsboxd has a command: nothing is cleaned up.
DaemonKilled ==
  /\ "kill" \in Faults
  /\ dpc \notin Ended
  /\ DaemonEnds("dead")
  /\ UNCHANGED <<terminated, told, reaped, linked, worldVars>>

DaemonStep ==
  \/ EnterWait \/ Unlink \/ Stopped
  \/ \E w \in Workers : Spawn(w) \/ WorkerLost(w) \/ Tell(w) \/ Reap(w)
-----------------------------------------------------------------------------
(* The workers.                                                            *)

Goto(w, from, to) == wpc[w] = from /\ wpc' = [wpc EXCEPT ![w] = to]

\* serve(): from here on the SIGTERM handler calls the worker's terminate().
SetContext(w) ==
  /\ Goto(w, "forked", "context")
  /\ UNCHANGED <<daemonVars, stop, armed, restart, missed, worldVars>>

\* serve(): prctl(PR_SET_PDEATHSIG).
Arm(w) ==
  /\ Goto(w, "context", "armed")
  /\ armed' = armed \cup {w}
  /\ UNCHANGED <<daemonVars, stop, restart, missed, worldVars>>

\* What getppid() returns to a worker: that of init, when it is an orphan.
ParentPid == IF dpc \in Ended THEN InitPid ELSE DaemonPid

\* serve(): the worker kills itself if it finds itself without a parent.
CheckParent(w) ==
  /\ Goto(w, "armed", IF ParentPid = NoPid THEN "dead" ELSE "test")
  /\ UNCHANGED <<daemonVars, stop, armed, restart, missed, worldVars>>

\* serve(): the head of the loop.
TestFlag(w) ==
  /\ Goto(w, "test", IF stop[w] THEN "stopped" ELSE "ready")
  /\ UNCHANGED <<daemonVars, stop, armed, restart, missed, worldVars>>

\* Mutant: SA_RESTART stays set after the first request.
EnterAcceptRestarting(w) ==
  /\ Goto(w, "ready", "accept")
  /\ UNCHANGED <<daemonVars, stop, armed, restart, missed, worldVars>>

\* serve(): SIGTERM shall interrupt accept(), which is called.
EnterAccept(w) ==
  /\ Goto(w, "ready", "accept")
  /\ restart' = restart \ {w}
  /\ UNCHANGED <<daemonVars, stop, armed, missed, worldVars>>

\* Mutant: the result of accept() is not checked.
AcceptAnyway(w) ==
  /\ Goto(w, "accept", "accepted")
  /\ backlog' = backlog - 1
  /\ UNCHANGED <<daemonVars, stop, armed, restart, missed, signals, clients>>

\* serve(): a connection is accepted.
Accept(w) ==
  /\ Goto(w, "accept", "accepted")
  /\ backlog > 0
  /\ backlog' = backlog - 1
  /\ UNCHANGED <<daemonVars, stop, armed, restart, missed, signals, clients>>

\* serve(): accept() failed, because of SIGTERM or of an error.
Interrupted(w) ==
  /\ Goto(w, "interrupted", IF stop[w] THEN "stopped" ELSE "dead")
  /\ UNCHANGED <<daemonVars, stop, armed, restart, missed, worldVars>>

\* Mutant: the calls that serve a request can be interrupted.
BeginRequestInterruptible(w) ==
  /\ Goto(w, "accepted", "serve")
  /\ UNCHANGED <<daemonVars, stop, armed, restart, missed, worldVars>>

\* serve(): the calls that serve a request shall not be interrupted.
BeginRequest(w) ==
  /\ Goto(w, "accepted", "serve")
  /\ restart' = restart \cup {w}
  /\ UNCHANGED <<daemonVars, stop, armed, missed, worldVars>>

\* serve(): the response is sent, the connection closed: see Sandbox.
EndRequest(w) ==
  /\ Goto(w, "serve", "test")
  /\ UNCHANGED <<daemonVars, stop, armed, restart, missed, worldVars>>

\* An error of the worker, or of one of its containers: die().
WorkerFails(w) ==
  /\ wpc[w] \in Faults \ (Ended \cup {"none"})
  /\ wpc' = [wpc EXCEPT ![w] = "dead"]
  /\ UNCHANGED <<daemonVars, stop, armed, restart, missed, worldVars>>

WorkerStep(w) ==
  \/ SetContext(w) \/ Arm(w) \/ CheckParent(w) \/ TestFlag(w)
  \/ EnterAccept(w) \/ Accept(w) \/ Interrupted(w) \/ BeginRequest(w)
-----------------------------------------------------------------------------
\* A client connects to the socket while some process listens on it.
Connect ==
  /\ linked
  /\ dpc \notin Ended \/ \E w \in Workers : wpc[w] \notin Ended \cup {"none"}
  /\ clients < MaxClients
  /\ clients' = clients + 1
  /\ backlog' = backlog + 1
  /\ UNCHANGED <<daemonVars, workerVars, signals>>

Next ==
  \/ DaemonStep \/ Sigterm \/ DaemonFails \/ DaemonKilled
  \/ Connect
  \/ \E w \in Workers : WorkerStep(w) \/ EndRequest(w) \/ WorkerFails(w)

Spec == Init /\ [][Next]_vars

(* The kernel schedules the daemon and the workers.  Nobody has to connect *)
(* or to send a signal, and no request has to end: its client may send     *)
(* nothing, its program may have no limit, or the worker may wait for      *)
(* containers whose ends it does not notice (see Sandbox).                 *)
Fairness ==
  /\ WF_vars(DaemonStep)
  /\ \A w \in Workers : WF_vars(WorkerStep(w))

FairSpec == Spec /\ Fairness
-----------------------------------------------------------------------------
(* Properties.                                                             *)

\* The daemon exits with 0 only after every worker has: a stop that lost a
\* worker, before or after it was told, is not reported as a success.
StoppedMeansAllStopped ==
  dpc = "stopped" => \A w \in Workers : wpc[w] = "stopped"

\* A stop ends no worker that serves a request: it finishes first ("we want
\* to complete current request", src/src/worker.cpp:91).  Only an error of
\* its own or the death of the daemon does.
RequestsSurviveStop ==
  [][\A w \in Workers :
       wpc[w] \in {"accepted", "serve"} /\ wpc'[w] \in Ended =>
         dpc' = "dead" \/ WorkerFails(w)]_vars

\* The end of a worker that dies is noticed, and ends the service, wherever
\* the daemon is.
DeadWorkerEndsService ==
  (\E w \in Workers : wpc[w] = "dead") ~> (dpc = "dead")

\* No worker serves one request for ever.
RequestsEnd == \A w \in Workers : []<>(wpc[w] # "serve")

\* If no request is served for ever, then a daemon that has told its workers
\* to stop ends, unless SIGTERM was missed by a worker that now sleeps in
\* accept(): a signal that comes while a worker serves a request or sleeps in
\* accept() is not lost (src/src/worker.cpp:79-94).
StopEndsUnlessMissed ==
  RequestsEnd =>
    ((dpc = "tell") ~> \/ dpc \in Ended
                       \/ \E w \in missed : wpc[w] = "accept")

\* SIGTERM stops the workers, if no request is served for ever ("If worker is
\* terminated we want accept() to be interrupted", src/src/worker.cpp:79).
WorkersHearSigterm ==
  RequestsEnd => ((dpc = "tell") ~> (dpc \in Ended))
=============================================================================
