----------------------- MODULE DaemonLifecycle_proofs -----------------------
(***************************************************************************)
(* The daemon and its workers, for any number of workers, signals and      *)
(* failures: StoppedMeansAllStopped and RequestsSurviveStop.                *)
(***************************************************************************)
EXTENDS DaemonLifecycle, TLAPS

\* The daemon reaps nobody before it has told the workers to stop, only those
\* that did stop afterwards, and does not exit with 0 before it has them all.
ReapInv ==
  /\ dpc \in {"spawn", "wait", "unlink", "tell"} => reaped = {}
  /\ dpc \in {"reap", "stopped"} => \A w \in reaped : wpc[w] = "stopped"
  /\ dpc = "stopped" => reaped = Workers

\* No call that serves a request can be interrupted.
RestartInv == \A w \in Workers : wpc[w] = "serve" => w \in restart

Inv == TypeOK /\ ReapInv /\ RestartInv

LEMMA InitInv == Init => Inv
<1> SUFFICES ASSUME Init PROVE Inv
  OBVIOUS
<1>1. TypeOK
  <2>1. stop \in [Workers -> BOOLEAN]
    BY Zenon DEF Init
  <2>2. wpc \in [Workers -> WorkerPc]
    BY DEF Init, WorkerPc
  <2>3. /\ dpc \in DaemonPc /\ signals \in 0..MaxSignals
        /\ clients \in 0..MaxClients /\ backlog \in 0..clients
    BY BoundsAssumption DEF Init, DaemonPc
  <2>4. /\ terminated \in BOOLEAN /\ linked \in BOOLEAN
        /\ told \subseteq Workers /\ reaped \subseteq Workers
        /\ armed \subseteq Workers /\ restart \subseteq Workers
        /\ missed \subseteq Workers
    BY DEF Init
  <2> QED
    BY <2>1, <2>2, <2>3, <2>4 DEF TypeOK
<1>2. ReapInv /\ RestartInv
  BY DEF Init, ReapInv, RestartInv
<1> QED
  BY <1>1, <1>2 DEF Inv
-----------------------------------------------------------------------------
(* One lemma for each process.                                             *)

\* The end of the daemon's process, which wait() may have caused.
LEMMA DaemonEndInv ==
  ASSUME Inv, DaemonEnds("dead"), reaped' \subseteq Workers,
         terminated' \in BOOLEAN, linked' \in BOOLEAN, UNCHANGED told,
         signals' \in 0..MaxSignals, UNCHANGED <<clients, backlog>>
  PROVE  Inv'
<1> USE DEF DaemonEnds, Inv
<1>1. TypeOK'
  BY DEF TypeOK, DaemonPc, WorkerPc, Ended
<1>2. ReapInv' /\ RestartInv'
  BY DEF TypeOK, ReapInv, RestartInv
<1> QED
  BY <1>1, <1>2

LEMMA DaemonStepInv ==
  ASSUME Inv, DaemonStep
  PROVE  Inv'
<1> USE DEF Inv, TypeOK, DaemonPc, WorkerPc, daemonVars, workerVars, worldVars
<1>1. ASSUME NEW w \in Workers, Spawn(w) PROVE Inv'
  BY <1>1 DEF Spawn, ReapInv, RestartInv
<1>2. CASE EnterWait
  BY <1>2 DEF EnterWait, ReapInv, RestartInv
<1>3. ASSUME NEW w \in Workers, WorkerLost(w) PROVE Inv'
  BY <1>3, DaemonEndInv DEF WorkerLost, DaemonDies
<1>4. CASE Unlink
  BY <1>4 DEF Unlink, ReapInv, RestartInv
<1>5. ASSUME NEW w \in Workers, Tell(w) PROVE Inv'
  <2>1. TypeOK'
    BY <1>5 DEF Tell, Hear, AfterInterrupt
  <2>2. ReapInv'
    BY <1>5 DEF Tell, Hear, AfterInterrupt, ReapInv
  <2>3. RestartInv'
    BY <1>5 DEF Tell, Hear, AfterInterrupt, RestartInv
  <2> QED
    BY <2>1, <2>2, <2>3
<1>6. ASSUME NEW w \in Workers, Reap(w) PROVE Inv'
  <2>1. CASE wpc[w] = "stopped"
    BY <1>6, <2>1 DEF Reap, ReapInv, RestartInv
  <2>2. CASE wpc[w] # "stopped"
    BY <1>6, <2>2, DaemonEndInv DEF Reap, DaemonDies
  <2> QED
    BY <2>1, <2>2
<1>7. CASE Stopped
  <2>1. \A w \in Workers : wpc[w] = "stopped"
    BY <1>7 DEF Stopped, ReapInv
  <2>2. wpc' = wpc
    BY <1>7, <2>1 DEF Stopped, DaemonEnds, Ended
  <2> QED
    BY <1>7, <2>2 DEF Stopped, DaemonEnds, ReapInv, RestartInv
<1> QED
  BY <1>1, <1>2, <1>3, <1>4, <1>5, <1>6, <1>7 DEF DaemonStep

LEMMA SigtermInv ==
  ASSUME Inv, Sigterm
  PROVE  Inv'
<1> USE BoundsAssumption DEF Inv, TypeOK, DaemonPc, WorkerPc, workerVars
<1>1. signals' \in 0..MaxSignals
  BY DEF Sigterm
<1>2. CASE dpc = "reap"
  BY <1>1, <1>2, DaemonEndInv DEF Sigterm, DaemonDies
<1>3. CASE dpc # "reap"
  BY <1>1, <1>3 DEF Sigterm, ReapInv, RestartInv, Ended
<1> QED
  BY <1>2, <1>3

LEMMA FailureInv ==
  ASSUME Inv, DaemonFails \/ DaemonKilled
  PROVE  Inv'
BY DaemonEndInv
   DEF Inv, TypeOK, DaemonFails, DaemonKilled, DaemonDies, worldVars

LEMMA ConnectInv ==
  ASSUME Inv, Connect
  PROVE  Inv'
BY BoundsAssumption
   DEF Connect, Inv, TypeOK, ReapInv, RestartInv, daemonVars, workerVars

LEMMA WorkerInv ==
  ASSUME Inv, NEW w \in Workers,
         WorkerStep(w) \/ EndRequest(w) \/ WorkerFails(w)
  PROVE  Inv'
<1> USE DEF Inv, TypeOK, WorkerPc, daemonVars, worldVars, Goto
<1>1. CASE SetContext(w)
  BY <1>1 DEF SetContext, ReapInv, RestartInv
<1>2. CASE Arm(w)
  BY <1>2 DEF Arm, ReapInv, RestartInv
<1>3. CASE CheckParent(w)
  BY <1>3 DEF CheckParent, ReapInv, RestartInv
<1>4. CASE TestFlag(w)
  BY <1>4 DEF TestFlag, ReapInv, RestartInv
<1>5. CASE EnterAccept(w)
  BY <1>5 DEF EnterAccept, ReapInv, RestartInv
<1>6. CASE Accept(w)
  BY <1>6, BoundsAssumption DEF Accept, ReapInv, RestartInv
<1>7. CASE Interrupted(w)
  BY <1>7 DEF Interrupted, ReapInv, RestartInv
<1>8. CASE BeginRequest(w)
  BY <1>8 DEF BeginRequest, ReapInv, RestartInv
<1>9. CASE EndRequest(w)
  BY <1>9 DEF EndRequest, ReapInv, RestartInv
<1>10. CASE WorkerFails(w)
  BY <1>10 DEF WorkerFails, ReapInv, RestartInv, Ended
<1> QED
  BY <1>1, <1>2, <1>3, <1>4, <1>5, <1>6, <1>7, <1>8, <1>9, <1>10
     DEF WorkerStep

LEMMA NextInv == Inv /\ [Next]_vars => Inv'
<1> SUFFICES ASSUME Inv, [Next]_vars PROVE Inv'
  OBVIOUS
<1>1. CASE UNCHANGED vars
  BY <1>1 DEF vars, daemonVars, workerVars, worldVars, Inv, TypeOK, ReapInv,
     RestartInv
<1>2. CASE Next
  BY <1>2, DaemonStepInv, SigtermInv, FailureInv, ConnectInv, WorkerInv
     DEF Next
<1> QED
  BY <1>1, <1>2

THEOREM Invariance == Spec => []Inv
BY InitInv, NextInv, PTL DEF Spec
-----------------------------------------------------------------------------
\* Type correctness of the daemon and its workers.
THEOREM TypeCorrect == Spec => []TypeOK
<1>1. Inv => TypeOK
  BY DEF Inv
<1> QED
  BY <1>1, Invariance, PTL

\* A daemon that exits with 0 leaves only workers that exited with 0,
\* whatever failed and whenever SIGTERM came.
THEOREM StopIsComplete == Spec => []StoppedMeansAllStopped
<1>1. Inv => StoppedMeansAllStopped
  BY DEF Inv, ReapInv, StoppedMeansAllStopped
<1> QED
  BY <1>1, Invariance, PTL

\* SIGTERM never ends a worker that serves a request, however many come and
\* whenever: it finishes first.
THEOREM RequestsFinish == Spec => RequestsSurviveStop
<1> DEFINE Busy(w) == wpc[w] \in {"accepted", "serve"}
<1>1. ASSUME Inv, [Next]_vars, NEW w \in Workers, Busy(w), wpc'[w] \in Ended
      PROVE  dpc' = "dead" \/ WorkerFails(w)
  <2> USE <1>1
  <2> SUFFICES ASSUME dpc' # "dead", ~WorkerFails(w) PROVE FALSE
    OBVIOUS
  <2>1. CASE Stopped
    BY <2>1 DEF Stopped, Inv, ReapInv
  <2>2. ASSUME NEW v \in Workers, Tell(v) PROVE FALSE
    BY <2>2 DEF Tell, Hear, AfterInterrupt, Inv, TypeOK, RestartInv, Ended
  <2>3. ASSUME NEW v \in Workers, WorkerStep(v) \/ EndRequest(v) PROVE FALSE
    BY <2>3 DEF WorkerStep, SetContext, Arm, CheckParent, TestFlag,
       EnterAccept, Accept, Interrupted, BeginRequest, EndRequest, Goto, Inv,
       TypeOK, Ended
  <2>4. ASSUME NEW v \in Workers, WorkerFails(v) PROVE FALSE
    BY <2>4 DEF WorkerFails, Inv, TypeOK, Ended
  <2>5. wpc' # wpc
    BY DEF Ended
  <2>6. ASSUME NEW v \in Workers, Spawn(v) PROVE FALSE
    BY <2>6 DEF Spawn, Inv, TypeOK, Ended
  <2>7. ~UNCHANGED vars /\ ~EnterWait /\ ~Unlink /\ ~Connect
    BY <2>5 DEF vars, workerVars, EnterWait, Unlink, Connect
  <2>8. ~DaemonFails /\ ~DaemonKilled
    BY DEF DaemonFails, DaemonKilled, DaemonDies, DaemonEnds
  <2>9. ~Sigterm
    BY <2>5 DEF Sigterm, DaemonDies, DaemonEnds, workerVars
  <2>10. ASSUME NEW v \in Workers, WorkerLost(v) \/ Reap(v) PROVE FALSE
    BY <2>5, <2>10 DEF WorkerLost, Reap, DaemonDies, DaemonEnds, workerVars
  <2> QED
    BY <2>1, <2>2, <2>3, <2>4, <2>6, <2>7, <2>8, <2>9, <2>10
       DEF Next, DaemonStep
<1>2. Inv /\ [Next]_vars =>
        [\A w \in Workers :
           wpc[w] \in {"accepted", "serve"} /\ wpc'[w] \in Ended =>
             dpc' = "dead" \/ WorkerFails(w)]_vars
  BY <1>1
<1> QED
  BY <1>2, Invariance, PTL DEF Spec, RequestsSurviveStop
=============================================================================
