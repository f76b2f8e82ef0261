------------------------- MODULE SandboxRun_proofs -------------------------
(***************************************************************************)
(* The deeper properties of Sandbox, for any requests, any number of tasks *)
(* and any faults, and that it implements RunTogether.                     *)
(*                                                                         *)
(* Everything rests on how the worker and a container stand to each other  *)
(* at the barrier they share (MeetInv): from it follows when a container   *)
(* has nothing of a task left (DoneInv), and which task it is about to run *)
(* (GivenInv).  RunInv says of which request the runs are, and that a      *)
(* round of the run start barrier has all of them; OutcomeInv says where   *)
(* their results are.  AwaitInv says who can be waiting for whom: from it  *)
(* follow that nobody runs after the worker's death, and that not all wait *)
(* for one another (NoDeadlock).  HealthInv is about services in which     *)
(* nothing fails.                                                          *)
(***************************************************************************)
EXTENDS Sandbox_proofs, FiniteSetTheorems

\* A barrier for two: what its count is does not change.
Bar(waiting, leaving) == [need |-> 2, waiting |-> waiting, leaving |-> leaving]

\* The container has nothing to do with the worker; it is at work on a task.
Resting == {"cloned", "armed", "ready", "cleanup"}
Working == {"launch", "forked", "waitStart", "watch", "killing", "finish"}

\* Where a worker at pc, in round j of its loop, is as seen from the barrier
\* of the k-th container: before or after both of their meetings, in the
\* first, between the two, or in the second.
Seen(pc, j, k) ==
  IF \/ pc \in {"meet", "meeting"} /\ k < j
     \/ pc \in {"starting", "close"}
     \/ pc = "collect" /\ k >= j
     \/ pc = "collecting" /\ k > j
  THEN "away"
  ELSE IF k = j /\ pc = "meeting" THEN "handing"
  ELSE IF k = j /\ pc = "collecting" THEN "taking"
  ELSE "before"

Positions == {"before", "handing", "away", "taking"}

\* The same for any container, which may be out of use.
SeenFrom(pc, j, cs, c) ==
  IF \E k \in 1..Len(cs) : cs[k] = c
  THEN Seen(pc, j, CHOOSE k \in 1..Len(cs) : cs[k] = c)
  ELSE "before"

Position(c) == SeenFrom(wpc, i, containers, c)

\* Where container and worker are, and what their barrier holds.
Match(pos, pc, b) ==
  \/ /\ b = Bar({}, {})
     /\ \/ pos = "before" /\ pc \in Resting \cup Over
        \/ pos = "away" /\ pc \in Working \cup Over
  \/ /\ b = Bar({"worker"}, {})
     /\ \/ pos = "handing" /\ pc \in Resting \cup Over
        \/ pos = "taking" /\ pc \in Working \cup Over
  \/ /\ b = Bar({"container"}, {})
     /\ \/ pos = "before" /\ pc \in {"waitTask"} \cup Over
        \/ pos = "away" /\ pc \in {"waitResults"} \cup Over
  \/ /\ b = Bar({}, {"worker", "container"})
     /\ \/ pos = "handing" /\ pc \in {"waitTask"} \cup Over
        \/ pos = "taking" /\ pc \in {"waitResults"} \cup Over
  \/ /\ b = Bar({}, {"worker"})
     /\ \/ pos = "handing" /\ pc \in Working \cup Over
        \/ pos = "taking" /\ pc \in Resting \cup Over
  \/ /\ b = Bar({}, {"container"})
     /\ \/ pos = "before" /\ pc \in {"waitResults"} \cup Over
        \/ pos = "away" /\ pc \in {"waitTask"} \cup Over
  \/ /\ b = Bar({"container"}, {"worker"})
     /\ \/ pos = "handing" /\ pc \in {"waitResults"} \cup Over
        \/ pos = "taking" /\ pc \in {"waitTask"} \cup Over
  \/ /\ b = Bar({"worker"}, {"container"})
     /\ \/ pos = "handing" /\ pc \in {"waitResults"} \cup Over
        \/ pos = "taking" /\ pc \in {"waitTask"} \cup Over

\* The run start barrier has been made for the request at hand.
Begun ==
  start.need = StartParties(Len(containers)) /\ Len(containers) = Len(tasks)

\* Once the worker is dead, the containers may still meet where it was.
MeetInv ==
  \A c \in Container : \E pos \in Positions :
    /\ Match(pos, cpc[c], meet[c])
    /\ wpc # "dead" => pos = Position(c)
    /\ pos # "before" => Begun

BegunInv ==
  wpc \in {"write", "meet", "meeting", "starting", "close", "collect",
           "collecting", "reap"} => Begun

\* What a container by itself keeps in order.
LocalAt(c) ==
  /\ spc[c] # "absent" =>
       cpc[c] \in {"forked", "waitStart", "watch", "killing", "exiting"}
  /\ cpc[c] = "killing" => spc[c] = "ended"
  /\ spc[c] \in Live /\ cpc[c] # "exiting" =>
       "task" \in box[c] /\ "files" \notin box[c]
  /\ cpc[c] \in {"cloned", "armed", "ready", "waitTask", "launch"} =>
       "files" \notin box[c]
  /\ cpc[c] \in Resting \cup {"waitTask", "launch", "waitResults"} =>
       "task" \notin box[c]
  /\ cpc[c] \in {"ready", "waitTask", "launch", "forked", "waitStart", "watch"}
       /\ c[1] = "temp" => "ipc" \in box[c]
  /\ cpc[c] = "cleanup" => c[1] = "perm"
  /\ data[c].task.ipc => c[1] = "temp"
  /\ c \in cgroups =>
       cpc[c] \in (Working \ {"launch"}) \cup {"exiting", "dead"}

LocalInv == \A c \in Container : LocalAt(c)

\* Permanent containers are for the tasks they may run.
KindInv ==
  \A k \in 1..Len(containers) :
    /\ k <= Len(tasks)
    /\ containers[k][1] = "perm" => PermanentAllowed(tasks[k])

\* A temporary container does not outlive its request.
TempInv ==
  wpc \notin {"dead", "stopped"} => \A k \in 1..MaxTasks :
    cpc[<<"temp", k>>] # "absent" =>
      /\ k <= Len(containers) /\ containers[k] = <<"temp", k>>
      /\ wpc = "reap" => k >= i

QuietInv == wpc \in {"dead", "stopped"} => wchld = "none"

\* p is in the run start barrier.
Inside(b, p) == p \in b.waiting \cup b.leaving
InStart(p) == Inside(start, p)

\* Nothing of a task is left in c.
Done(c) ==
  /\ spc[c] = "absent" /\ c \notin cgroups
  /\ ~InStart(ContainerOf(c)) /\ ~InStart(SlaveOf(c))

\* c is past its second meeting, or has come to it.
Finished(c) ==
  \/ Position(c) = "before"
  \/ Position(c) \in {"handing", "away"} /\ "container" \in meet[c].waiting
  \/ Position(c) = "taking" /\ "worker" \in meet[c].leaving

DoneInv == wpc # "dead" => \A c \in Container : Finished(c) => Done(c)

\* When the processes of c may be in the run start barrier; the error flag is
\* set until the slave has left it.
StartAt(c) ==
  /\ InStart(ContainerOf(c)) => cpc[c] \in {"waitStart"} \cup Over
  /\ InStart(SlaveOf(c)) =>
       /\ spc[c] \in {"await", "ended", "absent"}
       /\ cpc[c] \notin Over => spc[c] # "absent" /\ data[c].error
  /\ spc[c] \in {"born", "await"} /\ cpc[c] \notin Over => data[c].error
  /\ spc[c] = "failed" => data[c].error

StartInv ==
  /\ start.waiting \cap start.leaving = {}
  /\ InStart(TheWorker) => wpc \in {"starting", "dead"}
  /\ \A c \in Container : StartAt(c)

\* c has been given a task and has not forked its slave yet.
Given(c) ==
  \/ cpc[c] = "launch"
  \/ cpc[c] = "waitTask" /\ "container" \in meet[c].leaving
  \/ /\ cpc[c] \in Resting \cup {"waitTask", "waitResults"}
     /\ "worker" \in meet[c].waiting

\* The task data of c are those of the k-th task.
ForTask(c, k) ==
  containers[k] = c /\ data[c] = TaskDataFor(<<reqNo, k>>, tasks[k])

GivenInv ==
  \A c \in Container : Given(c) => \E k \in 1..Len(containers) : ForTask(c, k)

\* The task data of the k-th task are written and not yet handed over.
ReadyAt(k) ==
  \/ wpc = "write" /\ k < i
  \/ wpc = "meet" /\ k >= i
  \/ wpc = "meeting" /\ k > i

ReadyInv ==
  \A k \in 1..Len(containers) : ReadyAt(k) => ForTask(containers[k], k)

MeetingInv ==
  MeetInv /\ BegunInv /\ LocalInv /\ KindInv /\ TempInv /\ QuietInv /\ StartInv
    /\ DoneInv /\ GivenInv /\ ReadyInv

\* A step of the process of c or of its slave.
StepOf(c) ==
  \/ ContainerStep(c) \/ TimeLimit(c) \/ ContainerFails(c)
  \/ SlaveStep(c) \/ SlaveFails(c) \/ ProgramEnds(c)
-----------------------------------------------------------------------------
(* Barriers.                                                               *)

LEMMA TwoMeet ==
  /\ Arrive(Bar({}, {}), "worker") = Bar({"worker"}, {})
  /\ Arrive(Bar({}, {}), "container") = Bar({"container"}, {})
  /\ Arrive(Bar({}, {"container"}), "worker") = Bar({"worker"}, {"container"})
  /\ Arrive(Bar({}, {"worker"}), "container") = Bar({"container"}, {"worker"})
  /\ Arrive(Bar({"container"}, {}), "worker") = Bar({}, {"worker", "container"})
  /\ Arrive(Bar({"worker"}, {}), "container") = Bar({}, {"worker", "container"})
<1>1. \A x : Cardinality({x}) = 1 /\ IsFiniteSet({x})
  BY FS_Singleton
<1>2. Cardinality({"worker", "container"}) = 2
  <2>1. Cardinality({"worker"} \cup {"container"}) = 2
    <3>1. Cardinality({"worker"}) = 1 /\ IsFiniteSet({"worker"})
      BY <1>1
    <3>2. "container" \notin {"worker"}
      OBVIOUS
    <3> QED
      BY <3>1, <3>2, FS_AddElement
  <2>2. {"worker", "container"} = {"worker"} \cup {"container"}
    OBVIOUS
  <2> QED
    BY <2>1, <2>2
<1>3. \A L, p : Arrive(Bar({}, L), p) = Bar({p}, L)
  <2> TAKE L, p
  <2>1. ~CompletesRound(Bar({}, L), p)
    <3>1. {} \cup {p} = {p}
      OBVIOUS
    <3> QED
      BY <1>1, <3>1 DEF CompletesRound, Bar
  <2>2. {} \cup {p} = {p}
    OBVIOUS
  <2> QED
    BY <2>1, <2>2 DEF Arrive, Bar
<1>4. \A p, q \in {"worker", "container"} : p # q =>
        Arrive(Bar({q}, {}), p) = Bar({}, {"worker", "container"})
  <2> TAKE p, q \in {"worker", "container"}
  <2> HAVE p # q
  <2>1. {q} \cup {p} = {"worker", "container"}
    OBVIOUS
  <2>2. CompletesRound(Bar({q}, {}), p)
    BY <2>1, <1>2 DEF CompletesRound, Bar
  <2>3. {} \cup {q} \cup {p} = {"worker", "container"}
    BY <2>1
  <2> QED
    BY <2>2, <2>3 DEF Arrive, Bar
<1> QED
  BY <1>3, <1>4

LEMMA TwoPart ==
  /\ \A W : Leave(Bar(W, {"worker"}), "worker") = Bar(W, {})
  /\ \A W : Leave(Bar(W, {"container"}), "container") = Bar(W, {})
  /\ \A W : Leave(Bar(W, {"worker", "container"}), "worker")
              = Bar(W, {"container"})
  /\ \A W : Leave(Bar(W, {"worker", "container"}), "container")
              = Bar(W, {"worker"})
<1>1. \A W, L, p : Leave(Bar(W, L), p) = Bar(W, L \ {p})
  BY DEF Leave, Bar
<1>2. /\ {"worker"} \ {"worker"} = {} /\ {"container"} \ {"container"} = {}
      /\ {"worker", "container"} \ {"worker"} = {"container"}
      /\ {"worker", "container"} \ {"container"} = {"worker"}
  OBVIOUS
<1> QED
  BY <1>1, <1>2

LEMMA BarHolds ==
  /\ \A W, L : Bar(W, L).waiting = W /\ Bar(W, L).leaving = L
  /\ \A W, L, p : Released(Bar(W, L), p) <=> p \in L
  /\ NewBarrier(2) = Bar({}, {})
BY DEF Bar, Released, NewBarrier

LEMMA ArriveInside ==
  ASSUME NEW P, NEW b \in BarrierOver(P), NEW p
  PROVE  /\ Arrive(b, p).need = b.need
         /\ \A q : Inside(Arrive(b, p), q) <=> Inside(b, q) \/ q = p
         /\ b.waiting \cap b.leaving = {} /\ p \notin b.leaving =>
              Arrive(b, p).waiting \cap Arrive(b, p).leaving = {}
BY DEF Inside, Arrive, BarrierOver

LEMMA LeaveInside ==
  ASSUME NEW P, NEW b \in BarrierOver(P), NEW p,
         b.waiting \cap b.leaving = {}, Released(b, p)
  PROVE  /\ Leave(b, p).need = b.need
         /\ \A q : Inside(Leave(b, p), q) <=> Inside(b, q) /\ q # p
         /\ Leave(b, p).waiting \cap Leave(b, p).leaving = {}
BY DEF Inside, Leave, BarrierOver, Released
-----------------------------------------------------------------------------
(* Positions.                                                              *)

LEMMA SeenAt ==
  ASSUME NEW pc, NEW j, NEW cs, NEW k \in 1..Len(cs),
         \A a, b \in 1..Len(cs) : a # b => cs[a] # cs[b]
  PROVE  SeenFrom(pc, j, cs, cs[k]) = Seen(pc, j, k)
<1>1. (CHOOSE a \in 1..Len(cs) : cs[a] = cs[k]) = k
  OBVIOUS
<1> QED
  BY <1>1 DEF SeenFrom

LEMMA SeenNowhere ==
  ASSUME NEW pc, NEW j, NEW cs, NEW c, \A k \in 1..Len(cs) : cs[k] # c
  PROVE  SeenFrom(pc, j, cs, c) = "before"
BY DEF SeenFrom

\* If one loop looks on the containers as another, so do the containers.
LEMMA SeenSame ==
  ASSUME NEW pc, NEW j, NEW pcx, NEW jx, NEW cs, NEW c,
         \A a, b \in 1..Len(cs) : a # b => cs[a] # cs[b],
         \A k \in 1..Len(cs) : Seen(pcx, jx, k) = Seen(pc, j, k)
  PROVE  SeenFrom(pcx, jx, cs, c) = SeenFrom(pc, j, cs, c)
<1>1. CASE \E k \in 1..Len(cs) : cs[k] = c
  BY <1>1, SeenAt
<1>2. CASE \A k \in 1..Len(cs) : cs[k] # c
  BY <1>2, SeenNowhere
<1> QED
  BY <1>1, <1>2

\* One step of a loop changes what the j-th container sees, and no other.
LEMMA SeenMoves ==
  ASSUME NEW pc, NEW j, NEW pcx, NEW jx, NEW cs, NEW c, j \in 1..Len(cs),
         \A a, b \in 1..Len(cs) : a # b => cs[a] # cs[b],
         \A k \in 1..Len(cs) : k # j => Seen(pcx, jx, k) = Seen(pc, j, k)
  PROVE  SeenFrom(pcx, jx, cs, c) =
           IF c = cs[j] THEN Seen(pcx, jx, j) ELSE SeenFrom(pc, j, cs, c)
<1>1. CASE \E k \in 1..Len(cs) : cs[k] = c
  BY <1>1, SeenAt
<1>2. CASE \A k \in 1..Len(cs) : cs[k] # c
  BY <1>2, SeenNowhere
<1> QED
  BY <1>1, <1>2

LEMMA SeenOutside ==
  ASSUME NEW pc, NEW j, NEW cs, NEW c,
         pc \notin {"meet", "meeting", "starting", "close", "collect",
                    "collecting"}
  PROVE  SeenFrom(pc, j, cs, c) = "before"
BY DEF SeenFrom, Seen

LEMMA PositionKept ==
  ASSUME Inv, NEW c \in Container,
         \/ PrepareContainer \/ ResetBarrier \/ SetTask \/ NextLoop
         \/ WorkerArrives \/ WorkerStarts \/ ClosePipes
         \/ Reap \/ Collected \/ Respond \/ Reject \/ Stop
         \/ \E r \in Requests : Accept(r)
  PROVE  Position(c)' = Position(c)
<1> DEFINE Outside == {"accept", "prepare", "write", "reap", "respond",
                       "stopped", "dead"}
<1>1. CASE wpc \in Outside /\ wpc' \in Outside
  BY <1>1, SeenOutside DEF Position
<1>2. \A a, b \in 1..Len(containers) : a # b => containers[a] # containers[b]
  BY DEF Inv, ContainersDistinct
<1>3. /\ i \in Nat /\ Len(containers) \in Nat /\ Len(tasks) \in Nat
      /\ wpc \in {"write", "meet", "meeting", "starting", "close", "collect",
                  "collecting", "reap"} => Len(containers) = Len(tasks)
  BY MaxTasksAssumption DEF Inv, TypeOK, WorkerTypeOK, LoopInv
<1>4. ASSUME containers' = containers,
             \A k \in 1..Len(containers) : Seen(wpc', i', k) = Seen(wpc, i, k)
      PROVE  Position(c)' = Position(c)
  BY <1>2, <1>4, SeenSame DEF Position
<1>5. CASE NextLoop \/ WorkerArrives \/ WorkerStarts \/ ClosePipes
  <2>1. /\ containers' = containers
        /\ \/ wpc \in {"write", "meet", "collect"} /\ i > Len(tasks)
           \/ wpc \in {"starting", "close"}
        /\ \/ wpc = "write" /\ wpc' = "meet" /\ i' = 1
           \/ wpc = "collect" /\ wpc' = "reap" /\ i' = 1
           \/ wpc = "meet" /\ wpc' = "starting" /\ i' = i
           \/ wpc = "starting" /\ wpc' = "close" /\ i' = i
           \/ wpc = "close" /\ wpc' = "collect" /\ i' = 1
    BY <1>3, <1>5 DEF NextLoop, WorkerArrives, WorkerStarts, ClosePipes,
                      WorkerAt, MoreTasks
  <2>2. \A k \in 1..Len(containers) : Seen(wpc', i', k) = Seen(wpc, i, k)
    BY <1>3, <2>1 DEF Seen
  <2> QED
    BY <1>4, <2>1, <2>2
<1>6. CASE \/ PrepareContainer \/ ResetBarrier \/ SetTask
           \/ Reap \/ Collected \/ Respond \/ Reject \/ Stop
           \/ \E r \in Requests : Accept(r)
  BY <1>1, <1>6 DEF PrepareContainer, ResetBarrier, SetTask, Reap, Collected,
                    Respond, Reject, Stop, WorkerEnds, Accept, WorkerAt
<1> QED
  BY <1>5, <1>6

\* The i-th container goes from one position to the next, and no other.
LEMMA PositionMoves ==
  ASSUME Inv, NEW c \in Container, NEW old, NEW new,
         \/ EnterMeeting("meet", "meeting") /\ old = "before" /\ new = "handing"
         \/ HandOver /\ old = "handing" /\ new = "away"
         \/ EnterMeeting("collect", "collecting") /\ old = "away" /\ new = "taking"
         \/ CollectResult /\ old = "taking" /\ new = "before"
  PROVE  /\ containers[i] \in Container
         /\ Position(containers[i]) = old
         /\ Position(c)' = IF c = containers[i] THEN new ELSE Position(c)
<1>1. \A a, b \in 1..Len(containers) : a # b => containers[a] # containers[b]
  BY DEF Inv, ContainersDistinct
<1>2. /\ i \in 1..Len(containers) /\ containers[i] \in Container
      /\ containers' = containers
  BY MaxTasksAssumption
     DEF Inv, TypeOK, WorkerTypeOK, LoopInv, EnterMeeting, HandOver,
         CollectResult, WorkerAt, MoreTasks
<1>3. /\ Seen(wpc, i, i) = old /\ Seen(wpc', i', i) = new
      /\ \A k \in 1..Len(containers) :
           k # i => Seen(wpc', i', k) = Seen(wpc, i, k)
  BY <1>2 DEF Seen, EnterMeeting, HandOver, CollectResult, WorkerAt, MoreTasks
<1>4. Position(containers[i]) = old
  BY <1>1, <1>2, <1>3, SeenAt DEF Position
<1>5. SeenFrom(wpc', i', containers, c)
        = IF c = containers[i] THEN Seen(wpc', i', i)
          ELSE SeenFrom(wpc, i, containers, c)
  BY <1>1, <1>2, <1>3, SeenMoves
<1> QED
  BY <1>2, <1>3, <1>4, <1>5 DEF Position
-----------------------------------------------------------------------------
(* What the steps of c's processes leave alone.                            *)

LEMMA StepOfFrame ==
  ASSUME Inv, NEW c \in Container, StepOf(c)
  PROVE  /\ UNCHANGED <<wpc, i, reqNo, tasks, containers, nextPerm, answers,
                        pipes>>
         /\ \A d \in Container : Position(d)' = Position(d)
<1> USE DEF workerVars
<1>1. UNCHANGED <<wpc, i, reqNo, tasks, containers, nextPerm, answers, pipes>>
  <2>1. CASE ContainerStep(c)
    BY <2>1 DEF ContainerStep, Arm, PrepareRoot, AwaitTask, TakeTask, Launch,
         ContainerArrives, ContainerStarts, Measure, Deliver, Delivered,
         Cleanup, ContainerSigchld, ContainerGone
  <2>2. CASE ~ContainerStep(c)
    BY <2>2 DEF StepOf, TimeLimit, ContainerFails, SlaveStep, SlaveArrives,
         SlaveStarts, Exec, SlaveFails, ProgramEnds
  <2> QED
    BY <2>1, <2>2
<1> QED
  BY <1>1 DEF Position

LEMMA StepOfOthers ==
  ASSUME Inv, NEW c \in Container, StepOf(c), NEW d \in Container, d # c
  PROVE  /\ cpc'[d] = cpc[d] /\ cchld'[d] = cchld[d] /\ box'[d] = box[d]
         /\ spc'[d] = spc[d] /\ prog'[d] = prog[d]
         /\ meet'[d] = meet[d] /\ data'[d] = data[d]
         /\ d \in cgroups' <=> d \in cgroups
         /\ d \in fds' <=> d \in fds
<1> USE DEF containerVars, slaveVars, Inv, TypeOK, ContainerTypeOK, SlaveTypeOK,
            SharedTypeOK
<1>1. CASE Arm(c) \/ PrepareRoot(c) \/ AwaitTask(c) \/ TakeTask(c)
  BY <1>1 DEF Arm, PrepareRoot, AwaitTask, TakeTask
<1>2. CASE Launch(c) \/ ContainerArrives(c) \/ ContainerStarts(c)
  BY <1>2 DEF Launch, ContainerArrives, ContainerStarts
<1>3. CASE Measure(c) \/ Deliver(c) \/ Delivered(c) \/ Cleanup(c)
  BY <1>3 DEF Measure, Deliver, Delivered, Cleanup
<1>4. CASE ContainerSigchld(c) \/ ContainerFails(c) \/ ContainerGone(c)
  BY <1>4 DEF ContainerSigchld, ContainerFails, ContainerDies, ContainerGone
<1>5. CASE TimeLimit(c) \/ SlaveStep(c)
  BY <1>5 DEF TimeLimit, SlaveStep, SlaveArrives, SlaveStarts, Exec
<1>6. CASE SlaveFails(c) \/ ProgramEnds(c)
  BY <1>6 DEF SlaveFails, ProgramEnds
<1> QED
  BY <1>1, <1>2, <1>3, <1>4, <1>5, <1>6 DEF StepOf, ContainerStep

LEMMA PartiesDiffer ==
  ASSUME NEW c \in Container, NEW d \in Container
  PROVE  /\ TheWorker # ContainerOf(c) /\ TheWorker # SlaveOf(c)
         /\ ContainerOf(c) # SlaveOf(d)
         /\ ContainerOf(c) = ContainerOf(d) => c = d
         /\ SlaveOf(c) = SlaveOf(d) => c = d
BY DEF TheWorker, ContainerOf, SlaveOf

LEMMA StepOfStart ==
  ASSUME Inv, StartInv, NEW c \in Container, StepOf(c)
  PROVE  /\ start'.need = start.need
         /\ \A p : p \notin {ContainerOf(c), SlaveOf(c)} =>
              (InStart(p)' <=> InStart(p))
<1>1. start \in BarrierOver(Party) /\ start.waiting \cap start.leaving = {}
  BY DEF Inv, TypeOK, SharedTypeOK, StartInv
<1>2. CASE ContainerArrives(c) \/ SlaveArrives(c)
  BY <1>1, <1>2, ArriveInside DEF ContainerArrives, SlaveArrives, InStart
<1>3. CASE ContainerStarts(c) \/ SlaveStarts(c)
  BY <1>1, <1>3, LeaveInside DEF ContainerStarts, SlaveStarts, InStart
<1>4. CASE UNCHANGED start
  BY <1>4 DEF InStart
<1>5. CASE ContainerStep(c) /\ ~ContainerArrives(c) /\ ~ContainerStarts(c)
  BY <1>4, <1>5 DEF ContainerStep, Arm, PrepareRoot, AwaitTask, TakeTask,
       Launch, Measure, Deliver, Delivered, Cleanup, ContainerSigchld,
       ContainerGone
<1>6. CASE ~ContainerStep(c) /\ ~SlaveArrives(c) /\ ~SlaveStarts(c)
  BY <1>4, <1>6 DEF StepOf, TimeLimit, ContainerFails, SlaveStep, Exec,
       SlaveFails, ProgramEnds
<1> QED
  BY <1>2, <1>3, <1>5, <1>6

LEMMA StepOfAbsent ==
  ASSUME Inv, NEW c \in Container, StepOf(c), NEW d \in Container
  PROVE  cpc'[d] = "absent" <=> cpc[d] = "absent"
<1>1. CASE d # c
  BY <1>1, StepOfOthers
<1>2. CASE d = c
  <2> USE <1>2 DEF containerVars, Inv, TypeOK, ContainerTypeOK
  <2>1. CASE ContainerStep(c)
    BY <2>1 DEF ContainerStep, ContainerAt, Arm, PrepareRoot, AwaitTask,
         TakeTask, Launch, ContainerArrives, ContainerStarts, Measure, Deliver,
         Delivered, Cleanup, ContainerSigchld, ContainerDies, ContainerGone,
         Over
  <2>2. CASE ~ContainerStep(c)
    BY <2>2 DEF StepOf, ContainerAt, TimeLimit, ContainerFails, ContainerDies,
         SlaveStep, SlaveArrives, SlaveStarts, Exec, SlaveFails, ProgramEnds,
         Over
  <2> QED
    BY <2>1, <2>2
<1> QED
  BY <1>1, <1>2
-----------------------------------------------------------------------------
(* The invariants of the worker's loops.                                   *)

\* A step of the worker.
WorkerNext ==
  \/ WorkerStep \/ (\E r \in Requests : Accept(r)) \/ Reject \/ Stop
  \/ WorkerFails

LEMMA NextSplit ==
  [Next]_vars <=> WorkerNext \/ (\E c \in Container : StepOf(c)) \/ UNCHANGED vars
BY DEF Next, WorkerNext, StepOf

LEMMA KindWorker == Inv /\ KindInv /\ WorkerNext => KindInv'
<1> SUFFICES ASSUME Inv, KindInv, WorkerNext PROVE KindInv'
  OBVIOUS
<1>1. CASE PrepareContainer
  <2>1. containers \in Seq(Container) /\ Len(containers) = i - 1 /\ i \in Nat
        /\ i <= Len(tasks) /\ Len(tasks) \in Nat
    BY <1>1 DEF Inv, TypeOK, WorkerTypeOK, LoopInv, PrepareContainer, WorkerAt,
                MoreTasks
  <2> DEFINE c == ContainerFor(tasks[i], i, nextPerm)
  <2>2. containers' = Append(containers, c) /\ tasks' = tasks
        /\ (c[1] = "perm" => PermanentAllowed(tasks[i]))
    BY <1>1 DEF PrepareContainer, ContainerFor
  <2>3. Len(containers') = i
        /\ \A k \in 1..i : containers'[k] = IF k = i THEN c ELSE containers[k]
    BY <2>1, <2>2
  <2> QED
    BY <2>1, <2>2, <2>3 DEF KindInv
<1>2. CASE Collected
  BY <1>2 DEF Collected, KindInv
<1>3. CASE \E r \in Requests : Accept(r)
  BY <1>3 DEF Accept, WorkerAt, KindInv, Inv, LoopInv
<1>4. CASE UNCHANGED <<containers, tasks>>
  BY <1>4 DEF KindInv
<1>5. CASE WorkerStep /\ ~PrepareContainer /\ ~Collected
  BY <1>4, <1>5 DEF WorkerStep, ResetBarrier, SetTask, NextLoop, EnterMeeting,
       HandOver, WorkerArrives, WorkerStarts, ClosePipes, CollectResult, Reap,
       Respond, WorkerSigchld, WorkerEnds
<1>6. CASE Reject \/ Stop \/ WorkerFails
  BY <1>4, <1>6 DEF Reject, Stop, WorkerFails, WorkerEnds
<1> QED
  BY <1>1, <1>2, <1>3, <1>5, <1>6 DEF WorkerNext

LEMMA QuietWorker == Inv /\ QuietInv /\ WorkerNext => QuietInv'
<1> SUFFICES ASSUME Inv, QuietInv, WorkerNext PROVE QuietInv'
  OBVIOUS
<1>1. CASE WorkerStep
  BY <1>1 DEF WorkerStep, WorkerAt, PrepareContainer, ResetBarrier, SetTask,
       NextLoop, EnterMeeting, HandOver, WorkerArrives, WorkerStarts,
       ClosePipes, CollectResult, Reap, Collected, Respond, WorkerSigchld,
       WorkerEnds, QuietInv
<1>2. CASE ~WorkerStep
  BY <1>2 DEF WorkerNext, WorkerAt, Accept, Reject, Stop, WorkerFails,
       WorkerEnds, QuietInv
<1> QED
  BY <1>1, <1>2

LEMMA BegunWorker == Inv /\ BegunInv /\ StartInv /\ WorkerNext => BegunInv'
<1> SUFFICES ASSUME Inv, BegunInv, StartInv, WorkerNext PROVE BegunInv'
  OBVIOUS
<1>1. CASE ResetBarrier
  BY <1>1 DEF ResetBarrier, WorkerAt, MoreTasks, NewBarrier, Begun, BegunInv,
       Inv, TypeOK, WorkerTypeOK, LoopInv
<1>2. CASE WorkerArrives \/ WorkerStarts
  <2>1. start'.need = start.need
    BY <1>2 DEF WorkerArrives, WorkerStarts, Arrive, Leave, Inv, TypeOK,
         SharedTypeOK, BarrierOver
  <2> QED
    BY <1>2, <2>1 DEF WorkerArrives, WorkerStarts, WorkerAt, Begun, BegunInv
<1>3. CASE WorkerStep /\ ~ResetBarrier /\ ~WorkerArrives /\ ~WorkerStarts
  BY <1>3 DEF WorkerStep, WorkerAt, PrepareContainer, SetTask, NextLoop,
       EnterMeeting, HandOver, ClosePipes, CollectResult, Reap, Collected,
       Respond, WorkerSigchld, WorkerEnds, Begun, BegunInv
<1>4. CASE ~WorkerStep
  BY <1>4 DEF WorkerNext, WorkerAt, Accept, Reject, Stop, WorkerFails,
       WorkerEnds, BegunInv
<1> QED
  BY <1>1, <1>2, <1>3, <1>4

LEMMA StepOfLoops ==
  ASSUME Inv, StartInv, NEW c \in Container, StepOf(c)
  PROVE  /\ KindInv => KindInv'
         /\ BegunInv => BegunInv'
         /\ Begun <=> Begun'
         /\ TempInv => TempInv'
         /\ QuietInv => QuietInv'
<1>1. /\ UNCHANGED <<wpc, i, containers, tasks>>
      /\ start'.need = start.need
  BY StepOfFrame, StepOfStart
<1>2. TempInv => TempInv'
  <2>1. \A k \in 1..MaxTasks : <<"temp", k>> \in Container
    BY DEF Container
  <2> QED
    BY <1>1, <2>1, StepOfAbsent DEF TempInv
<1>3. wpc \in {"dead", "stopped"} => wchld' = wchld
  <2>1. CASE ContainerStep(c)
    BY <2>1 DEF ContainerStep, workerVars, Arm, PrepareRoot, AwaitTask,
         TakeTask, Launch, ContainerArrives, ContainerStarts, Measure, Deliver,
         Delivered, Cleanup, ContainerSigchld, ContainerGone
  <2>2. CASE ~ContainerStep(c)
    BY <2>2 DEF StepOf, workerVars, TimeLimit, ContainerFails, SlaveStep,
         SlaveArrives, SlaveStarts, Exec, SlaveFails, ProgramEnds
  <2> QED
    BY <2>1, <2>2
<1> QED
  BY <1>1, <1>2, <1>3 DEF KindInv, BegunInv, Begun, QuietInv

LEMMA TempWorker == Inv /\ TempInv /\ WorkerNext => TempInv'
<1> SUFFICES ASSUME Inv, TempInv, WorkerNext, wpc' \notin {"dead", "stopped"},
                    NEW k \in 1..MaxTasks, cpc'[<<"temp", k>>] # "absent"
             PROVE  /\ k <= Len(containers') /\ containers'[k] = <<"temp", k>>
                    /\ wpc' = "reap" => k >= i'
  BY DEF TempInv
<1>0. /\ <<"temp", k>> \in Container /\ cpc \in [Container -> ContainerPc]
      /\ containers \in Seq(Container) /\ i \in Nat /\ Len(containers) \in Nat
  BY DEF Container, Inv, TypeOK, WorkerTypeOK, ContainerTypeOK
<1>1. CASE PrepareContainer
  <2>1. /\ wpc = "prepare" /\ wpc' = "prepare" /\ Len(containers) = i - 1
        /\ i \in 1..MaxTasks /\ nextPerm \in Nat /\ nextPerm < MaxTasks
    <3>1. /\ wpc = "prepare" /\ wpc' = "prepare" /\ i <= Len(tasks)
      BY <1>1 DEF PrepareContainer, WorkerAt, MoreTasks
    <3>2. /\ Len(tasks) \in Nat /\ Len(tasks) <= MaxTasks
          /\ i \in 1..(MaxTasks + 1) /\ nextPerm \in 0..MaxTasks
      BY DEF Inv, TypeOK, WorkerTypeOK
    <3>3. Len(containers) = i - 1 /\ nextPerm <= i - 1
      BY <3>1 DEF Inv, LoopInv
    <3> QED
      BY <3>1, <3>2, <3>3, MaxTasksAssumption
  <2> DEFINE c == ContainerFor(tasks[i], i, nextPerm)
  <2>2. /\ c \in Container
        /\ c = <<"temp", k>> => k = i
    <3>1. c = <<"perm", nextPerm + 1>> \/ c = <<"temp", i>>
      BY DEF ContainerFor
    <3>2. nextPerm + 1 \in 1..MaxTasks
      BY <2>1, MaxTasksAssumption
    <3> HIDE DEF c
    <3> QED
      BY <2>1, <3>1, <3>2 DEF Container
  <2>3. /\ containers' = Append(containers, c)
        /\ \A d \in Container : d # c => cpc'[d] = cpc[d]
        /\ c[1] = "perm" \/ c = <<"temp", i>>
    BY <1>0, <1>1 DEF PrepareContainer, ContainerFor
  <2>4. /\ Len(containers') = i /\ containers'[i] = c
        /\ \A a \in 1..(i - 1) : containers'[a] = containers[a]
    BY <1>0, <2>1, <2>2, <2>3
  <2> HIDE DEF c
  <2>5. CASE c = <<"temp", k>>
    BY <2>1, <2>2, <2>4, <2>5
  <2>6. CASE c # <<"temp", k>>
    <3>1. k <= Len(containers) /\ containers[k] = <<"temp", k>>
      BY <1>0, <2>1, <2>3, <2>6 DEF TempInv
    <3> QED
      BY <2>1, <2>4, <3>1
  <2> QED
    BY <2>5, <2>6
<1>2. CASE Reap
  <2>1. /\ wpc = "reap" /\ wpc' = "reap" /\ containers' = containers /\ i' = i + 1
        /\ cpc'[<<"temp", k>>] = cpc[<<"temp", k>>]
        /\ containers[i][1] = "temp" => cpc'[containers[i]] = "absent"
        /\ i \in 1..Len(containers)
    BY <1>0, <1>2 DEF Reap, WorkerAt, Inv, TypeOK, WorkerTypeOK
  <2>2. k <= Len(containers) /\ containers[k] = <<"temp", k>> /\ k >= i
    BY <2>1 DEF TempInv
  <2>3. k # i
    BY <2>1, <2>2
  <2> QED
    BY <1>0, <2>1, <2>2, <2>3
<1>3. CASE Collected
  BY <1>0, <1>3 DEF Collected, WorkerAt, containerVars, TempInv
<1>4. CASE NextLoop
  BY <1>0, <1>4 DEF NextLoop, WorkerAt, containerVars, TempInv
<1>5. CASE /\ UNCHANGED <<containers, cpc>>
           /\ wpc' # "reap" /\ wpc \notin {"dead", "stopped"}
  BY <1>5 DEF TempInv
<1>6. CASE WorkerStep /\ ~PrepareContainer /\ ~Reap /\ ~Collected /\ ~NextLoop
           /\ ~WorkerSigchld
  BY <1>5, <1>6 DEF WorkerStep, WorkerAt, containerVars, ResetBarrier, SetTask,
       EnterMeeting, HandOver, WorkerArrives, WorkerStarts, ClosePipes,
       CollectResult, Respond
<1>7. CASE WorkerSigchld
  BY <1>7 DEF WorkerSigchld, WorkerEnds, containerVars, TempInv
<1>8. CASE ~WorkerStep
  BY <1>5, <1>8 DEF WorkerNext, WorkerAt, containerVars, Accept, Reject, Stop,
       WorkerFails, WorkerEnds
<1> QED
  BY <1>1, <1>2, <1>3, <1>4, <1>6, <1>7, <1>8
-----------------------------------------------------------------------------
(* The meetings of the worker and a container.                             *)

LEMMA MatchKept ==
  ASSUME NEW pos, NEW pc, NEW pcx, NEW b, Match(pos, pc, b),
         \/ pcx \in Over
         \/ pc \in Resting /\ pcx \in Resting
         \/ pc \in Working /\ pcx \in Working
         \/ pcx = pc
  PROVE  Match(pos, pcx, b)
BY DEF Match, Over, Resting, Working

LEMMA MatchContainer ==
  ASSUME NEW pos \in Positions, NEW b
  PROVE  /\ Match(pos, "ready", b) =>
              Match(pos, "waitTask", Arrive(b, "container"))
         /\ Match(pos, "waitTask", b) /\ Released(b, "container") =>
              Match(pos, "launch", Leave(b, "container"))
         /\ Match(pos, "finish", b) =>
              Match(pos, "waitResults", Arrive(b, "container"))
         /\ Match(pos, "waitResults", b) /\ Released(b, "container") =>
              Match(pos, "cleanup", Leave(b, "container"))
<1> USE DEF Match, Over, Resting, Working
<1>1. Match(pos, "ready", b) => Match(pos, "waitTask", Arrive(b, "container"))
  BY TwoMeet
<1>2. Match(pos, "waitTask", b) /\ Released(b, "container") =>
        Match(pos, "launch", Leave(b, "container"))
  BY TwoPart, BarHolds
<1>3. Match(pos, "finish", b) =>
        Match(pos, "waitResults", Arrive(b, "container"))
  BY TwoMeet
<1>4. Match(pos, "waitResults", b) /\ Released(b, "container") =>
        Match(pos, "cleanup", Leave(b, "container"))
  BY TwoPart, BarHolds
<1> QED
  BY <1>1, <1>2, <1>3, <1>4

LEMMA MatchWorker ==
  ASSUME NEW pc \in ContainerPc, NEW b
  PROVE  /\ Match("before", pc, b) => Match("handing", pc, Arrive(b, "worker"))
         /\ Match("handing", pc, b) /\ Released(b, "worker") =>
              Match("away", pc, Leave(b, "worker"))
         /\ Match("away", pc, b) => Match("taking", pc, Arrive(b, "worker"))
         /\ Match("taking", pc, b) /\ Released(b, "worker") =>
              Match("before", pc, Leave(b, "worker"))
<1> USE DEF Match
<1>1. Match("before", pc, b) => Match("handing", pc, Arrive(b, "worker"))
  BY TwoMeet
<1>2. Match("handing", pc, b) /\ Released(b, "worker") =>
        Match("away", pc, Leave(b, "worker"))
  BY TwoPart, BarHolds
<1>3. Match("away", pc, b) => Match("taking", pc, Arrive(b, "worker"))
  BY TwoMeet
<1>4. Match("taking", pc, b) /\ Released(b, "worker") =>
        Match("before", pc, Leave(b, "worker"))
  BY TwoPart, BarHolds
<1> QED
  BY <1>1, <1>2, <1>3, <1>4

LEMMA StepOfMatch ==
  ASSUME Inv, NEW c \in Container, StepOf(c), NEW pos \in Positions,
         Match(pos, cpc[c], meet[c])
  PROVE  Match(pos, cpc'[c], meet'[c])
<1>0. /\ cpc \in [Container -> ContainerPc] /\ DOMAIN meet = Container
  BY DEF Inv, TypeOK, ContainerTypeOK, SharedTypeOK
<1> USE <1>0 DEF ContainerAt, containerVars
<1>1. CASE AwaitTask(c)
  BY <1>1, MatchContainer DEF AwaitTask
<1>2. CASE TakeTask(c)
  BY <1>2, MatchContainer DEF TakeTask
<1>3. CASE Deliver(c)
  BY <1>3, MatchContainer DEF Deliver
<1>4. CASE Delivered(c)
  <2>1. Match(pos, "cleanup", meet'[c])
    BY <1>4, MatchContainer DEF Delivered
  <2>2. Match(pos, "exited", meet'[c])
    BY <2>1, MatchKept DEF Over
  <2> QED
    BY <1>4, <2>1, <2>2 DEF Delivered
<1>5. CASE /\ meet' = meet
           /\ \/ cpc'[c] \in Over
              \/ cpc[c] \in Resting /\ cpc'[c] \in Resting
              \/ cpc[c] \in Working /\ cpc'[c] \in Working
              \/ cpc'[c] = cpc[c]
  BY <1>5, MatchKept
<1>6. CASE Arm(c) \/ PrepareRoot(c) \/ Launch(c) \/ ContainerArrives(c)
           \/ ContainerStarts(c) \/ Measure(c) \/ Cleanup(c)
  BY <1>5, <1>6 DEF Arm, PrepareRoot, Launch, ContainerArrives,
       ContainerStarts, Measure, Cleanup, Resting, Working, Over
<1>7. CASE ContainerSigchld(c) \/ ContainerGone(c) \/ TimeLimit(c)
           \/ ContainerFails(c)
  BY <1>5, <1>7 DEF ContainerSigchld, ContainerDies, ContainerGone, TimeLimit,
       ContainerFails, Working, Over
<1>8. CASE SlaveStep(c) \/ SlaveFails(c) \/ ProgramEnds(c)
  BY <1>5, <1>8 DEF SlaveStep, SlaveArrives, SlaveStarts, Exec, SlaveFails,
       ProgramEnds
<1> QED
  BY <1>1, <1>2, <1>3, <1>4, <1>6, <1>7, <1>8 DEF StepOf, ContainerStep

LEMMA MeetContainer ==
  ASSUME Inv, MeetInv, StartInv, NEW c \in Container, StepOf(c)
  PROVE  MeetInv'
<1> SUFFICES ASSUME NEW d \in Container
             PROVE  \E pos \in Positions :
                      /\ Match(pos, cpc'[d], meet'[d])
                      /\ wpc' # "dead" => pos = Position(d)'
                      /\ pos # "before" => Begun'
  BY DEF MeetInv
<1>1. PICK pos \in Positions : /\ Match(pos, cpc[d], meet[d])
                               /\ wpc # "dead" => pos = Position(d)
                               /\ pos # "before" => Begun
  BY DEF MeetInv
<1>2. Match(pos, cpc'[d], meet'[d])
  BY <1>1, StepOfMatch, StepOfOthers
<1>3. wpc' = wpc /\ Position(d)' = Position(d) /\ (Begun <=> Begun')
  BY StepOfFrame, StepOfLoops
<1> QED
  BY <1>1, <1>2, <1>3

\* A container is made anew only where none is.
LEMMA MadeAnew ==
  ASSUME Inv, TempInv, PrepareContainer, NEW d \in Container
  PROVE  /\ wpc = "prepare"
         /\ \/ /\ cpc[d] = "absent" /\ cpc'[d] = "cloned"
               /\ meet'[d] = NewBarrier(2) /\ data'[d] = NewTaskData
               /\ box'[d] = {} /\ cchld'[d] = "none"
            \/ /\ cpc'[d] = cpc[d] /\ meet'[d] = meet[d] /\ data'[d] = data[d]
               /\ box'[d] = box[d] /\ cchld'[d] = cchld[d]
<1>1. /\ wpc = "prepare" /\ Len(containers) = i - 1 /\ i \in 1..MaxTasks
      /\ Len(containers) \in Nat
  <2>1. /\ Len(tasks) \in Nat /\ Len(tasks) <= MaxTasks
        /\ Len(containers) \in Nat /\ i \in 1..(MaxTasks + 1)
    BY DEF Inv, TypeOK, WorkerTypeOK
  <2> QED
    BY <2>1, MaxTasksAssumption
       DEF PrepareContainer, WorkerAt, MoreTasks, Inv, LoopInv
<1>2. cpc[<<"temp", i>>] = "absent"
  <2>1. ~(i <= Len(containers))
    BY <1>1
  <2> QED
    BY <1>1, <2>1 DEF TempInv
<1>3. /\ DOMAIN cpc = Container /\ DOMAIN meet = Container
      /\ DOMAIN data = Container /\ DOMAIN box = Container
      /\ DOMAIN cchld = Container
  BY DEF Inv, TypeOK, ContainerTypeOK, SharedTypeOK
<1> DEFINE p == ContainerFor(tasks[i], i, nextPerm)
<1>4. CASE PermanentAllowed(tasks[i]) /\ cpc[p] # "absent"
  BY <1>1, <1>4 DEF PrepareContainer
<1>5. CASE ~PermanentAllowed(tasks[i]) \/ cpc[p] = "absent"
  <2>1. cpc[p] = "absent"
    BY <1>2, <1>5 DEF ContainerFor
  <2>2. /\ cpc' = [cpc EXCEPT ![p] = "cloned"]
        /\ cchld' = [cchld EXCEPT ![p] = "none"]
        /\ meet' = [meet EXCEPT ![p] = NewBarrier(2)]
        /\ data' = [data EXCEPT ![p] = NewTaskData]
        /\ box' = [box EXCEPT ![p] = {}]
    BY <1>5 DEF PrepareContainer
  <2> HIDE DEF p
  <2>3. CASE d = p
    BY <1>1, <1>3, <2>1, <2>2, <2>3
  <2>4. CASE d # p
    BY <1>1, <1>3, <2>2, <2>4
  <2> QED
    BY <2>3, <2>4
<1> QED
  BY <1>4, <1>5

LEMMA MeetWorker ==
  ASSUME Inv, MeetInv, BegunInv, StartInv, TempInv, WorkerNext
  PROVE  MeetInv'
<1> SUFFICES ASSUME NEW c \in Container
             PROVE  \E pos \in Positions :
                      /\ Match(pos, cpc'[c], meet'[c])
                      /\ wpc' # "dead" => pos = Position(c)'
                      /\ pos # "before" => Begun'
  BY DEF MeetInv
<1>1. PICK pos \in Positions : /\ Match(pos, cpc[c], meet[c])
                               /\ wpc # "dead" => pos = Position(c)
                               /\ pos # "before" => Begun
  BY DEF MeetInv
<1>2. /\ cpc \in [Container -> ContainerPc] /\ DOMAIN meet = Container
      /\ start \in BarrierOver(Party)
  BY DEF Inv, TypeOK, ContainerTypeOK, SharedTypeOK
<1>3. ASSUME NEW new \in Positions,
             \/ EnterMeeting("meet", "meeting") /\ new = "handing"
             \/ HandOver /\ new = "away"
             \/ EnterMeeting("collect", "collecting") /\ new = "taking"
             \/ CollectResult /\ new = "before"
      PROVE  \E p \in Positions :
               /\ Match(p, cpc'[c], meet'[c])
               /\ wpc' # "dead" => p = Position(c)'
               /\ p # "before" => Begun'
  <2>1. /\ wpc # "dead" /\ cpc' = cpc
        /\ Begun' /\ containers[i] \in Container
    BY <1>3, PositionMoves
       DEF EnterMeeting, HandOver, CollectResult, WorkerAt, containerVars,
           Begun, BegunInv
  <2>2. CASE c # containers[i]
    <3>1. Position(c)' = Position(c)
      BY <1>3, <2>2, PositionMoves
    <3>2. meet'[c] = meet[c]
      BY <1>2, <1>3, <2>1, <2>2 DEF EnterMeeting, HandOver, CollectResult
    <3> QED
      BY <1>1, <2>1, <3>1, <3>2
  <2>3. CASE c = containers[i]
    <3>1. Position(c)' = new
      BY <1>3, <2>3, PositionMoves
    <3>2. Match(new, cpc[c], meet'[c])
      <4>1. CASE EnterMeeting("meet", "meeting") /\ new = "handing"
        <5>1. pos = "before"
          BY <1>1, <2>1, <2>3, <4>1, PositionMoves
        <5> QED
          BY <1>1, <1>2, <2>3, <4>1, <5>1, MatchWorker DEF EnterMeeting
      <4>2. CASE HandOver /\ new = "away"
        <5>1. pos = "handing"
          BY <1>1, <2>1, <2>3, <4>2, PositionMoves
        <5> QED
          BY <1>1, <1>2, <2>3, <4>2, <5>1, MatchWorker DEF HandOver
      <4>3. CASE EnterMeeting("collect", "collecting") /\ new = "taking"
        <5>1. pos = "away"
          BY <1>1, <2>1, <2>3, <4>3, PositionMoves
        <5> QED
          BY <1>1, <1>2, <2>3, <4>3, <5>1, MatchWorker DEF EnterMeeting
      <4>4. CASE CollectResult /\ new = "before"
        <5>1. pos = "taking"
          BY <1>1, <2>1, <2>3, <4>4, PositionMoves
        <5> QED
          BY <1>1, <1>2, <2>3, <4>4, <5>1, MatchWorker DEF CollectResult
      <4> QED
        BY <1>3, <4>1, <4>2, <4>3, <4>4
    <3> QED
      BY <2>1, <3>1, <3>2
  <2> QED
    BY <2>2, <2>3
<1>4. CASE WorkerEnds("dead") \/ (WorkerSigchld /\ wpc' = wpc)
  <2>1. /\ cpc'[c] = cpc[c] \/ cpc'[c] \in Over
        /\ meet' = meet /\ (Begun' <=> Begun)
        /\ wpc' # "dead" => wpc # "dead" /\ Position(c)' = Position(c)
    BY <1>2, <1>4 DEF WorkerEnds, WorkerSigchld, containerVars, Over, Begun,
                      Position
  <2> QED
    BY <1>1, <2>1, MatchKept
<1>5. CASE \/ PrepareContainer \/ ResetBarrier \/ SetTask
           \/ Reap \/ Collected \/ Respond \/ Reject \/ Stop
           \/ \E r \in Requests : Accept(r)
  <2>1. /\ wpc \in {"accept", "prepare", "write", "reap", "respond"}
        /\ Position(c)' = Position(c)
    BY <1>5, PositionKept
       DEF PrepareContainer, ResetBarrier, SetTask, Reap, Collected, Respond,
           Reject, Stop, Accept, WorkerAt
  <2>2. pos = "before" /\ Position(c)' = "before"
    BY <1>1, <2>1, SeenOutside DEF Position
  <2>3. Match("before", cpc'[c], meet'[c])
    <3>1. CASE PrepareContainer
      <4>1. \/ meet'[c] = meet[c] /\ cpc'[c] = cpc[c]
            \/ meet'[c] = NewBarrier(2) /\ cpc'[c] = "cloned"
        BY <3>1, MadeAnew
      <4>2. Match("before", "cloned", Bar({}, {}))
        BY DEF Match, Resting
      <4> QED
        BY <1>1, <2>2, <4>1, <4>2, BarHolds
    <3>2. CASE ~PrepareContainer
      <4>1. meet' = meet /\ (cpc'[c] = cpc[c] \/ cpc'[c] \in Over)
        BY <1>2, <1>5, <3>2
           DEF ResetBarrier, SetTask, Reap, Collected, Respond, Reject, Stop,
               WorkerEnds, Accept, containerVars, Over
      <4> QED
        BY <1>1, <2>2, <4>1, MatchKept
    <3> QED
      BY <3>1, <3>2
  <2> QED
    BY <2>2, <2>3 DEF Positions
<1>6. CASE NextLoop \/ WorkerArrives \/ WorkerStarts \/ ClosePipes
  <2>1. /\ wpc # "dead" /\ cpc' = cpc /\ meet' = meet
        /\ wpc' \in {"meet", "reap", "starting", "close", "collect"}
    BY <1>6 DEF NextLoop, WorkerArrives, WorkerStarts, ClosePipes, WorkerAt,
                containerVars
  <2>2. Begun' /\ Position(c)' = Position(c)
    BY <1>6, <2>1, PositionKept, BegunWorker DEF BegunInv
  <2> QED
    BY <1>1, <2>1, <2>2
<1>7. CASE WorkerSigchld \/ WorkerFails
  <2>1. WorkerEnds("dead") \/ (WorkerSigchld /\ wpc' = wpc)
    BY <1>7 DEF WorkerSigchld, WorkerFails
  <2> QED
    BY <1>4, <2>1
<1> QED
  BY <1>3, <1>5, <1>6, <1>7 DEF WorkerNext, WorkerStep, Positions
-----------------------------------------------------------------------------
(* What a container by itself keeps in order.                              *)

LEMMA LocalStep ==
  ASSUME Inv, NEW c \in Container, LocalAt(c), StepOf(c)
  PROVE  LocalAt(c)'
<1>0. /\ cpc \in [Container -> ContainerPc] /\ spc \in [Container -> SlavePc]
      /\ box \in [Container -> SUBSET {"standard", "ipc", "task", "files"}]
      /\ data \in [Container -> TaskData] /\ c[1] \in {"perm", "temp"}
  BY DEF Inv, TypeOK, ContainerTypeOK, SlaveTypeOK, SharedTypeOK, Container
<1>1. data'[c].task = data[c].task
  <2>1. CASE Measure(c)
    BY <1>0, <2>1 DEF Measure, TaskData
  <2>2. CASE SlaveStarts(c)
    BY <1>0, <2>2 DEF SlaveStarts, TaskData
  <2>3. CASE SlaveFails(c)
    BY <1>0, <2>3 DEF SlaveFails, TaskData
  <2>4. CASE ContainerStep(c) /\ ~Measure(c)
    BY <2>4 DEF ContainerStep, Arm, PrepareRoot, AwaitTask, TakeTask, Launch,
         ContainerArrives, ContainerStarts, Deliver, Delivered, Cleanup,
         ContainerSigchld, ContainerGone
  <2>5. CASE ~ContainerStep(c) /\ ~SlaveStarts(c) /\ ~SlaveFails(c)
    BY <2>5 DEF StepOf, TimeLimit, ContainerFails, SlaveStep, SlaveArrives,
         Exec, ProgramEnds, containerVars
  <2> QED
    BY <2>1, <2>2, <2>3, <2>4, <2>5
<1> USE <1>0, <1>1 DEF LocalAt, ContainerAt, containerVars, slaveVars, Resting,
                       Working, Live
<1>2. CASE Arm(c) \/ PrepareRoot(c)
  BY <1>2 DEF Arm, PrepareRoot
<1>3. CASE AwaitTask(c) \/ TakeTask(c)
  BY <1>3 DEF AwaitTask, TakeTask
<1>4. CASE Launch(c)
  BY <1>4 DEF Launch
<1>5. CASE ContainerArrives(c) \/ ContainerStarts(c)
  BY <1>5 DEF ContainerArrives, ContainerStarts
<1>6. CASE Measure(c)
  BY <1>6 DEF Measure
<1>7. CASE Deliver(c)
  BY <1>7 DEF Deliver
<1>8. CASE Delivered(c)
  BY <1>8 DEF Delivered
<1>9. CASE Cleanup(c)
  BY <1>9 DEF Cleanup
<1>10. CASE ContainerSigchld(c)
  BY <1>10 DEF ContainerSigchld, ContainerDies, Over
<1>11. CASE ContainerFails(c)
  BY <1>11 DEF ContainerFails, ContainerDies, Over
<1>12. CASE ContainerGone(c)
  BY <1>12 DEF ContainerGone
<1>13. CASE TimeLimit(c)
  BY <1>13 DEF TimeLimit
<1>14. CASE SlaveStep(c)
  BY <1>14 DEF SlaveStep, SlaveArrives, SlaveStarts, Exec
<1>15. CASE SlaveFails(c)
  BY <1>15 DEF SlaveFails
<1>16. CASE ProgramEnds(c)
  BY <1>16 DEF ProgramEnds
<1> QED
  BY <1>2, <1>3, <1>4, <1>5, <1>6, <1>7, <1>8, <1>9, <1>10, <1>11, <1>12,
     <1>13, <1>14, <1>15, <1>16 DEF StepOf, ContainerStep

LEMMA LocalContainer ==
  ASSUME Inv, LocalInv, NEW c \in Container, StepOf(c)
  PROVE  LocalInv'
<1>1. LocalAt(c)'
  BY LocalStep DEF LocalInv
<1>2. ASSUME NEW d \in Container, d # c PROVE LocalAt(d)'
  BY <1>2, StepOfOthers DEF LocalInv, LocalAt
<1> QED
  BY <1>1, <1>2 DEF LocalInv

LEMMA LocalWorker ==
  ASSUME Inv, LocalInv, KindInv, TempInv, DoneInv, WorkerNext
  PROVE  LocalInv'
<1> SUFFICES ASSUME NEW c \in Container PROVE LocalAt(c)'
  BY DEF LocalInv
<1>0. /\ LocalAt(c) /\ c[1] \in {"perm", "temp"}
      /\ DOMAIN cpc = Container /\ DOMAIN data = Container
  BY DEF LocalInv, Container, Inv, TypeOK, ContainerTypeOK, SharedTypeOK
<1>1. CASE UNCHANGED <<spc[c], cpc[c], box[c], data[c], cgroups>>
  BY <1>0, <1>1 DEF LocalAt
<1>2. CASE PrepareContainer
  <2>1. UNCHANGED <<spc, cgroups>>
    BY <1>2 DEF PrepareContainer, slaveVars
  <2>2. CASE cpc[c] = "absent" /\ cpc'[c] = "cloned"
    <3>1. box'[c] = {} /\ data'[c] = NewTaskData
      BY <1>2, <2>2, MadeAnew
    <3>2. ~NewTaskData.task.ipc
      BY DEF NewTaskData, DefaultTask
    <3> QED
      BY <1>0, <2>1, <2>2, <3>1, <3>2 DEF LocalAt, Resting, Working, Live
  <2>3. CASE ~(cpc[c] = "absent" /\ cpc'[c] = "cloned")
    <3>1. cpc'[c] = cpc[c] /\ box'[c] = box[c] /\ data'[c] = data[c]
      BY <1>2, <2>3, MadeAnew
    <3> QED
      BY <1>1, <2>1, <3>1
  <2> QED
    BY <2>2, <2>3
<1>3. CASE SetTask
  <2>1. /\ UNCHANGED <<spc, cpc, box, cgroups>> /\ i \in 1..Len(containers)
        /\ containers[i] \in Container
        /\ data' = [data EXCEPT ![containers[i]] =
                      TaskDataFor(<<reqNo, i>>, tasks[i])]
    BY <1>3, MaxTasksAssumption
       DEF SetTask, WorkerAt, MoreTasks, containerVars, slaveVars, Inv, TypeOK,
           WorkerTypeOK, LoopInv
  <2>2. CASE c = containers[i]
    <3>1. data'[c].task = tasks[i]
      BY <1>0, <2>1, <2>2 DEF TaskDataFor
    <3>2. c[1] = "perm" => PermanentAllowed(tasks[i])
      BY <2>1, <2>2 DEF KindInv
    <3> QED
      BY <1>0, <2>1, <3>1, <3>2 DEF LocalAt, PermanentAllowed
  <2>3. CASE c # containers[i]
    <3>1. data'[c] = data[c]
      BY <1>0, <2>1, <2>3
    <3> QED
      BY <1>1, <2>1, <3>1
  <2> QED
    BY <2>2, <2>3
<1>4. CASE Reap
  <2>1. /\ UNCHANGED <<spc, data, box, cgroups>>
        /\ \/ cpc'[c] = cpc[c]
           \/ cpc[c] \in {"exited", "dead"} /\ cpc'[c] = "absent"
    BY <1>0, <1>4 DEF Reap, slaveVars
  <2>2. c \notin cgroups
    <3>1. wpc = "reap"
      BY <1>4 DEF Reap, WorkerAt
    <3> QED
      BY <3>1, SeenOutside DEF DoneInv, Finished, Done, Position
  <2> QED
    BY <1>0, <2>1, <2>2 DEF LocalAt, Resting, Working, Live
<1>5. ASSUME NEW pc, WorkerEnds(pc) PROVE LocalAt(c)'
  <2>1. /\ UNCHANGED <<spc, data, box, cgroups>>
        /\ \/ cpc'[c] = cpc[c]
           \/ cpc[c] \notin Over /\ cpc'[c] = "exiting"
    BY <1>0, <1>5 DEF WorkerEnds, slaveVars
  <2> QED
    BY <1>0, <2>1 DEF LocalAt, Over, Resting, Working, Live
<1>6. CASE WorkerStep /\ ~PrepareContainer /\ ~SetTask /\ ~Reap /\ ~WorkerEnds("dead")
  BY <1>1, <1>6 DEF WorkerStep, ResetBarrier, NextLoop, EnterMeeting, HandOver,
       WorkerArrives, WorkerStarts, ClosePipes, CollectResult, Collected,
       Respond, WorkerSigchld, containerVars, slaveVars
<1>7. CASE Reject \/ \E r \in Requests : Accept(r)
  BY <1>1, <1>7 DEF Reject, Accept, containerVars, slaveVars
<1> QED
  BY <1>2, <1>3, <1>4, <1>5, <1>6, <1>7 DEF WorkerNext, Stop, WorkerFails
-----------------------------------------------------------------------------
(* When nothing of a task is left in a container.                          *)

LEMMA MatchTells ==
  ASSUME NEW pos, NEW pc, NEW b, Match(pos, pc, b)
  PROVE  /\ pos = "before" =>
              /\ pc \notin Working /\ "worker" \notin b.waiting
              /\ ~(pc = "waitTask" /\ "container" \in b.leaving)
         /\ pos \in {"handing", "away"} /\ "container" \in b.waiting =>
              pc \in {"waitResults"} \cup Over
         /\ pos = "taking" /\ "worker" \in b.leaving => pc \notin Working
         /\ pc = "ready" => "container" \notin b.leaving
         /\ pc \in {"ready", "finish"} =>
              /\ "worker" \notin Arrive(b, "container").waiting
              /\ pc = "ready" /\ "container" \in Arrive(b, "container").leaving
                   => "worker" \in b.waiting
         /\ pos = "away" /\ "worker" \in Arrive(b, "worker").leaving =>
              "container" \in b.waiting
<1> USE DEF Match, Working, Resting, Over
<1>1. pos = "before" =>
        /\ pc \notin Working /\ "worker" \notin b.waiting
        /\ ~(pc = "waitTask" /\ "container" \in b.leaving)
  BY BarHolds
<1>2. pos \in {"handing", "away"} /\ "container" \in b.waiting =>
        pc \in {"waitResults"} \cup Over
  BY BarHolds
<1>3. pos = "taking" /\ "worker" \in b.leaving => pc \notin Working
  BY BarHolds
<1>4. pc = "ready" => "container" \notin b.leaving
  BY BarHolds
<1>5. pc \in {"ready", "finish"} =>
        /\ "worker" \notin Arrive(b, "container").waiting
        /\ pc = "ready" /\ "container" \in Arrive(b, "container").leaving
             => "worker" \in b.waiting
  BY BarHolds, TwoMeet
<1>6. pos = "away" /\ "worker" \in Arrive(b, "worker").leaving =>
        "container" \in b.waiting
  BY BarHolds, TwoMeet
<1> QED
  BY <1>1, <1>2, <1>3, <1>4, <1>5, <1>6

LEMMA FinishedRests ==
  ASSUME MeetInv, wpc # "dead", NEW c \in Container, Finished(c)
  PROVE  cpc[c] \notin Working
<1>1. PICK pos \in Positions : Match(pos, cpc[c], meet[c]) /\ pos = Position(c)
  BY DEF MeetInv
<1> QED
  BY <1>1, MatchTells DEF Finished, Working, Over

\* Only the delivery of the results brings c to its second meeting.
LEMMA FinishedByDelivery ==
  ASSUME Inv, MeetInv, wpc # "dead", NEW c \in Container, StepOf(c),
         ~Finished(c), ~Deliver(c)
  PROVE  ~Finished(c)'
<1>0. DOMAIN meet = Container /\ Position(c)' = Position(c)
  BY StepOfFrame DEF Inv, TypeOK, SharedTypeOK
<1>1. PICK pos \in Positions : Match(pos, cpc[c], meet[c]) /\ pos = Position(c)
  BY DEF MeetInv
<1>2. Match(pos, cpc'[c], meet'[c])
  BY <1>1, StepOfMatch
<1>3. CASE AwaitTask(c)
  <2>1. cpc'[c] = "waitTask"
    BY <1>3 DEF AwaitTask, ContainerAt, Inv, TypeOK, ContainerTypeOK
  <2>2. ~(pos \in {"handing", "away"} /\ "container" \in meet'[c].waiting)
    BY <1>2, <2>1, MatchTells DEF Over
  <2>3. "worker" \in meet'[c].leaving => "worker" \in meet[c].leaving
                                           \/ "worker" \in meet[c].waiting
    BY <1>0, <1>3 DEF AwaitTask, Arrive, Inv, TypeOK, SharedTypeOK, BarrierOver
  <2>4. pos = "taking" => "worker" \notin meet[c].waiting
    <3>1. cpc[c] = "ready"
      BY <1>3 DEF AwaitTask, ContainerAt
    <3> QED
      BY <1>1, <3>1, BarHolds DEF Match, Resting, Working, Over
  <2> QED
    BY <1>0, <1>1, <2>2, <2>3, <2>4 DEF Finished
<1>4. CASE TakeTask(c) \/ Delivered(c)
  <2>1. meet'[c] = Leave(meet[c], "container")
    BY <1>0, <1>4 DEF TakeTask, Delivered
  <2>2. meet[c] \in BarrierOver({"worker", "container"})
    BY DEF Inv, TypeOK, SharedTypeOK
  <2>3. meet'[c].waiting = meet[c].waiting
        /\ meet'[c].leaving \subseteq meet[c].leaving
    BY <2>1, <2>2 DEF Leave, BarrierOver
  <2> QED
    BY <1>0, <2>3 DEF Finished
<1>5. CASE meet' = meet
  BY <1>0, <1>5 DEF Finished
<1>6. CASE ContainerStep(c) /\ ~AwaitTask(c) /\ ~TakeTask(c) /\ ~Delivered(c)
  BY <1>5, <1>6
     DEF ContainerStep, Arm, PrepareRoot, Launch, ContainerArrives,
         ContainerStarts, Measure, Cleanup, ContainerSigchld, ContainerGone
<1>7. CASE ~ContainerStep(c)
  BY <1>5, <1>7
     DEF StepOf, TimeLimit, ContainerFails, SlaveStep, SlaveArrives,
         SlaveStarts, Exec, SlaveFails, ProgramEnds
<1> QED
  BY <1>3, <1>4, <1>6, <1>7

LEMMA DoneContainer ==
  ASSUME Inv, MeetInv, LocalInv, StartInv, DoneInv, NEW c \in Container,
         StepOf(c)
  PROVE  DoneInv'
<1> SUFFICES ASSUME wpc # "dead", NEW d \in Container, Finished(d)'
             PROVE  Done(d)'
  BY StepOfFrame DEF DoneInv
<1>0. Position(d)' = Position(d)
  BY StepOfFrame
<1>1. CASE d # c
  <2>1. meet'[d] = meet[d] /\ spc'[d] = spc[d]
        /\ (d \in cgroups' <=> d \in cgroups)
    BY <1>1, StepOfOthers
  <2>2. Finished(d)
    BY <1>0, <2>1 DEF Finished
  <2>3. /\ InStart(ContainerOf(d))' <=> InStart(ContainerOf(d))
        /\ InStart(SlaveOf(d))' <=> InStart(SlaveOf(d))
    BY <1>1, StepOfStart, PartiesDiffer DEF ContainerOf, SlaveOf
  <2> QED
    BY <2>1, <2>2, <2>3 DEF Done, DoneInv
<1>2. CASE d = c /\ Deliver(c)
  <2>1. /\ cpc[c] = "finish" /\ spc' = spc /\ start' = start /\ c \notin cgroups'
    BY <1>2 DEF Deliver, ContainerAt, slaveVars
  <2>2. spc[c] = "absent"
    BY <2>1 DEF LocalInv, LocalAt
  <2>3. ~InStart(ContainerOf(c)) /\ ~InStart(SlaveOf(c))
    BY <2>1, <2>2 DEF StartInv, StartAt, Over
  <2> QED
    BY <1>2, <2>1, <2>2, <2>3 DEF Done, InStart
<1>3. CASE d = c /\ Finished(c)
  <2>1. cpc[c] \notin Working /\ Done(c)
    BY <1>3, FinishedRests DEF DoneInv
  <2>2. cgroups' \subseteq cgroups /\ spc'[c] = "absent" /\ start' = start
    <3>1. CASE ContainerStep(c)
      BY <2>1, <3>1
         DEF ContainerStep, ContainerAt, Working, Done, Inv, TypeOK,
             SlaveTypeOK, slaveVars, Arm, PrepareRoot, AwaitTask, TakeTask,
             Launch, ContainerArrives, ContainerStarts, Measure, Deliver,
             Delivered, Cleanup, ContainerSigchld, ContainerDies, ContainerGone
    <3>2. CASE ~ContainerStep(c)
      BY <2>1, <3>2
         DEF StepOf, Done, Live, slaveVars, TimeLimit, ContainerFails,
             ContainerDies, SlaveStep, SlaveArrives, SlaveStarts, Exec,
             SlaveFails, ProgramEnds
    <3> QED
      BY <3>1, <3>2
  <2> QED
    BY <1>3, <2>1, <2>2 DEF Done, InStart
<1>4. CASE d = c /\ ~Finished(c) /\ ~Deliver(c)
  BY <1>4, FinishedByDelivery
<1> QED
  BY <1>1, <1>2, <1>3, <1>4

LEMMA WorkerLeaves ==
  ASSUME Inv, StartInv, WorkerNext
  PROVE  /\ UNCHANGED <<spc, cgroups, prog, fds>>
         /\ \A p : p # TheWorker /\ InStart(p)' => InStart(p)
<1>1. UNCHANGED <<spc, cgroups, prog, fds>>
  <2>1. CASE WorkerStep
    BY <2>1 DEF WorkerStep, PrepareContainer, ResetBarrier, SetTask, NextLoop,
         EnterMeeting, HandOver, WorkerArrives, WorkerStarts, ClosePipes,
         CollectResult, Reap, Collected, Respond, WorkerSigchld, WorkerEnds,
         containerVars, slaveVars
  <2>2. CASE ~WorkerStep
    BY <2>2 DEF WorkerNext, Accept, Reject, Stop, WorkerFails, WorkerEnds,
         containerVars, slaveVars
  <2> QED
    BY <2>1, <2>2
<1>2. \A p : p # TheWorker /\ InStart(p)' => InStart(p)
  <2>1. start \in BarrierOver(Party) /\ start.waiting \cap start.leaving = {}
    BY DEF Inv, TypeOK, SharedTypeOK, StartInv
  <2>2. CASE WorkerArrives \/ WorkerStarts
    BY <2>1, <2>2, ArriveInside, LeaveInside
       DEF WorkerArrives, WorkerStarts, InStart
  <2>3. CASE ResetBarrier
    BY <2>3 DEF ResetBarrier, InStart, Inside, NewBarrier
  <2>4. CASE start' = start
    BY <2>4 DEF InStart
  <2>5. CASE WorkerStep /\ ~WorkerArrives /\ ~WorkerStarts /\ ~ResetBarrier
    BY <2>4, <2>5 DEF WorkerStep, PrepareContainer, SetTask, NextLoop,
         EnterMeeting, HandOver, ClosePipes, CollectResult, Reap, Collected,
         Respond, WorkerSigchld, WorkerEnds
  <2>6. CASE ~WorkerStep
    BY <2>4, <2>6 DEF WorkerNext, Accept, Reject, Stop, WorkerFails, WorkerEnds
  <2> QED
    BY <2>2, <2>3, <2>5, <2>6
<1> QED
  BY <1>1, <1>2

LEMMA DoneKept ==
  ASSUME Inv, StartInv, WorkerNext, NEW c \in Container, Done(c)
  PROVE  Done(c)'
BY WorkerLeaves, PartiesDiffer DEF Done

\* The worker brings no container to its second meeting, and finds only those
\* finished that have come to it.
LEMMA FinishedWorker ==
  ASSUME Inv, MeetInv, WorkerNext, wpc' # "dead", NEW c \in Container,
         Finished(c)'
  PROVE  /\ wpc # "dead" /\ Finished(c)
         /\ Position(c)' # "before" => Position(c) # "before"
<1>0. /\ DOMAIN meet = Container
      /\ \A d \in Container : meet[d] \in BarrierOver({"worker", "container"})
  BY DEF Inv, TypeOK, SharedTypeOK
<1>1. CASE EnterMeeting("meet", "meeting")
  <2>1. wpc # "dead"
    BY <1>1 DEF EnterMeeting, WorkerAt
  <2>2. CASE c = containers[i]
    <3>1. Position(c) = "before" /\ Position(c)' = "handing"
      BY <1>1, <2>2, PositionMoves
    <3>2. Match("before", cpc[c], meet[c])
      BY <2>1, <3>1 DEF MeetInv
    <3>3. meet'[c] = Arrive(meet[c], "worker")
      BY <1>0, <1>1, <2>2 DEF EnterMeeting
    <3>4. "container" \notin meet'[c].waiting
      BY <3>2, <3>3, TwoMeet, BarHolds DEF Match
    <3> QED
      BY <3>1, <3>4 DEF Finished
  <2>3. CASE c # containers[i]
    <3>1. Position(c)' = Position(c) /\ meet'[c] = meet[c]
      BY <1>0, <1>1, <2>3, PositionMoves DEF EnterMeeting
    <3> QED
      BY <2>1, <3>1 DEF Finished
  <2> QED
    BY <2>2, <2>3
<1>2. CASE HandOver
  <2>1. wpc # "dead"
    BY <1>2 DEF HandOver, WorkerAt
  <2>2. CASE c = containers[i]
    <3>1. Position(c) = "handing" /\ Position(c)' = "away"
      BY <1>2, <2>2, PositionMoves
    <3>2. meet'[c].waiting = meet[c].waiting
      BY <1>0, <1>2, <2>2 DEF HandOver, Leave, BarrierOver
    <3> QED
      BY <2>1, <3>1, <3>2 DEF Finished
  <2>3. CASE c # containers[i]
    <3>1. Position(c)' = Position(c) /\ meet'[c] = meet[c]
      BY <1>0, <1>2, <2>3, PositionMoves DEF HandOver
    <3> QED
      BY <2>1, <3>1 DEF Finished
  <2> QED
    BY <2>2, <2>3
<1>3. CASE EnterMeeting("collect", "collecting")
  <2>1. wpc # "dead"
    BY <1>3 DEF EnterMeeting, WorkerAt
  <2>2. CASE c = containers[i]
    <3>1. Position(c) = "away" /\ Position(c)' = "taking"
      BY <1>3, <2>2, PositionMoves
    <3>2. Match("away", cpc[c], meet[c])
      BY <2>1, <3>1 DEF MeetInv
    <3>3. meet'[c] = Arrive(meet[c], "worker")
      BY <1>0, <1>3, <2>2 DEF EnterMeeting
    <3>4. "worker" \in meet'[c].leaving
      BY <3>1 DEF Finished
    <3> QED
      BY <2>1, <3>1, <3>2, <3>3, <3>4, MatchTells DEF Finished
  <2>3. CASE c # containers[i]
    <3>1. Position(c)' = Position(c) /\ meet'[c] = meet[c]
      BY <1>0, <1>3, <2>3, PositionMoves DEF EnterMeeting
    <3> QED
      BY <2>1, <3>1 DEF Finished
  <2> QED
    BY <2>2, <2>3
<1>4. CASE CollectResult
  <2>1. wpc # "dead"
    BY <1>4 DEF CollectResult, WorkerAt
  <2>2. CASE c = containers[i]
    <3>1. Position(c) = "taking"
      BY <1>4, <2>2, PositionMoves
    <3>2. "worker" \in meet[c].leaving
      BY <1>4, <2>2 DEF CollectResult, Released
    <3> QED
      BY <2>1, <3>1, <3>2 DEF Finished
  <2>3. CASE c # containers[i]
    <3>1. Position(c)' = Position(c) /\ meet'[c] = meet[c]
      BY <1>0, <1>4, <2>3, PositionMoves DEF CollectResult
    <3> QED
      BY <2>1, <3>1 DEF Finished
  <2> QED
    BY <2>2, <2>3
<1>5. CASE PrepareContainer
  BY <1>5, SeenOutside DEF PrepareContainer, WorkerAt, Finished, Position
<1>6. CASE \/ ResetBarrier \/ SetTask \/ NextLoop
           \/ WorkerArrives \/ WorkerStarts \/ ClosePipes
           \/ Reap \/ Collected \/ Respond \/ Reject \/ Stop
           \/ \E r \in Requests : Accept(r)
  <2>1. wpc # "dead" /\ meet' = meet
    BY <1>6 DEF ResetBarrier, SetTask, NextLoop, WorkerArrives, WorkerStarts,
         ClosePipes, Reap, Collected, Respond, Reject, Stop, WorkerEnds, Accept,
         WorkerAt
  <2>2. Position(c)' = Position(c)
    BY <1>6, PositionKept
  <2> QED
    BY <2>1, <2>2 DEF Finished
<1>7. CASE WorkerSigchld \/ WorkerFails
  BY <1>7 DEF WorkerSigchld, WorkerFails, WorkerEnds, Finished, Position
<1> QED
  BY <1>1, <1>2, <1>3, <1>4, <1>5, <1>6, <1>7 DEF WorkerNext, WorkerStep

LEMMA DoneWorker ==
  ASSUME Inv, MeetInv, StartInv, DoneInv, WorkerNext
  PROVE  DoneInv'
BY FinishedWorker, DoneKept DEF DoneInv
-----------------------------------------------------------------------------
(* Who is in the run start barrier.                                        *)

LEMMA StartContainer ==
  ASSUME Inv, LocalInv, StartInv, GivenInv, NEW c \in Container, StepOf(c)
  PROVE  StartInv'
<1>0. /\ cpc \in [Container -> ContainerPc] /\ spc \in [Container -> SlavePc]
      /\ data \in [Container -> TaskData]
      /\ start \in BarrierOver(Party) /\ start.waiting \cap start.leaving = {}
      /\ LocalAt(c) /\ StartAt(c)
  BY DEF Inv, TypeOK, ContainerTypeOK, SlaveTypeOK, SharedTypeOK, LocalInv,
         StartInv
<1>1. ASSUME NEW d \in Container, d # c PROVE StartAt(d)'
  <2>1. cpc'[d] = cpc[d] /\ spc'[d] = spc[d] /\ data'[d] = data[d]
    BY <1>1, StepOfOthers
  <2>2. /\ InStart(ContainerOf(d))' <=> InStart(ContainerOf(d))
        /\ InStart(SlaveOf(d))' <=> InStart(SlaveOf(d))
    BY <1>1, StepOfStart, PartiesDiffer DEF ContainerOf, SlaveOf
  <2> QED
    BY <2>1, <2>2 DEF StartInv, StartAt
<1>2. (InStart(TheWorker)' <=> InStart(TheWorker)) /\ wpc' = wpc
  BY StepOfStart, StepOfFrame, PartiesDiffer
<1>3. ASSUME start'.waiting \cap start'.leaving = {}, StartAt(c)'
      PROVE  StartInv'
  BY <1>1, <1>2, <1>3 DEF StartInv
<1> USE DEF ContainerAt, containerVars, slaveVars
<1>4. CASE Launch(c)
  <2>1. /\ start' = start /\ data' = data
        /\ cpc[c] = "launch" /\ cpc'[c] = "forked" /\ spc'[c] = "born"
    BY <1>0, <1>4 DEF Launch
  <2>2. data[c].error
    <3>1. PICK k \in 1..Len(containers) : ForTask(c, k)
      BY <2>1 DEF GivenInv, Given
    <3> QED
      BY <3>1 DEF ForTask, TaskDataFor
  <2>3. ~InStart(ContainerOf(c)) /\ ~InStart(SlaveOf(c))
    BY <1>0, <2>1 DEF StartAt, LocalAt, Over
  <2> QED
    BY <1>0, <1>3, <2>1, <2>2, <2>3 DEF StartAt, InStart
<1>5. CASE ContainerArrives(c)
  <2>1. /\ start' = Arrive(start, ContainerOf(c)) /\ data' = data /\ spc' = spc
        /\ cpc[c] = "forked" /\ cpc'[c] = "waitStart"
    BY <1>0, <1>5 DEF ContainerArrives
  <2>2. ~InStart(ContainerOf(c))
    BY <1>0, <2>1 DEF StartAt, Over
  <2>3. /\ start'.waiting \cap start'.leaving = {}
        /\ InStart(SlaveOf(c))' <=> InStart(SlaveOf(c))
    BY <1>0, <2>1, <2>2, ArriveInside, PartiesDiffer DEF InStart, Inside
  <2> QED
    BY <1>0, <1>3, <2>1, <2>3 DEF StartAt, Over
<1>6. CASE ContainerStarts(c)
  <2>1. /\ start' = Leave(start, ContainerOf(c)) /\ data' = data /\ spc' = spc
        /\ cpc[c] = "waitStart" /\ cpc'[c] = "watch"
        /\ Released(start, ContainerOf(c))
    BY <1>0, <1>6 DEF ContainerStarts
  <2>2. /\ start'.waiting \cap start'.leaving = {}
        /\ ~InStart(ContainerOf(c))'
        /\ InStart(SlaveOf(c))' <=> InStart(SlaveOf(c))
    BY <1>0, <2>1, LeaveInside, PartiesDiffer DEF InStart
  <2> QED
    BY <1>0, <1>3, <2>1, <2>2 DEF StartAt, Over
<1>7. CASE SlaveArrives(c)
  <2>1. /\ start' = Arrive(start, SlaveOf(c)) /\ data' = data /\ cpc' = cpc
        /\ spc[c] = "born" /\ spc'[c] = "await"
    BY <1>0, <1>7 DEF SlaveArrives
  <2>2. ~InStart(SlaveOf(c))
    BY <1>0, <2>1 DEF StartAt
  <2>3. /\ start'.waiting \cap start'.leaving = {}
        /\ InStart(ContainerOf(c))' <=> InStart(ContainerOf(c))
    BY <1>0, <2>1, <2>2, ArriveInside, PartiesDiffer DEF InStart, Inside
  <2> QED
    BY <1>0, <1>3, <2>1, <2>3 DEF StartAt
<1>8. CASE SlaveStarts(c)
  <2>1. /\ start' = Leave(start, SlaveOf(c)) /\ cpc' = cpc
        /\ spc[c] = "await" /\ spc'[c] = "setup" /\ Released(start, SlaveOf(c))
    BY <1>0, <1>8 DEF SlaveStarts
  <2>2. /\ start'.waiting \cap start'.leaving = {}
        /\ ~InStart(SlaveOf(c))'
        /\ InStart(ContainerOf(c))' <=> InStart(ContainerOf(c))
    BY <1>0, <2>1, LeaveInside, PartiesDiffer DEF InStart
  <2> QED
    BY <1>0, <1>3, <2>1, <2>2 DEF StartAt
<1>9. ASSUME start' = start, StartAt(c)' PROVE StartInv'
  BY <1>0, <1>3, <1>9
<1>10. CASE Arm(c) \/ PrepareRoot(c) \/ AwaitTask(c) \/ TakeTask(c)
            \/ Deliver(c) \/ Delivered(c) \/ Cleanup(c)
  <2>1. /\ start' = start /\ data' = data /\ spc' = spc
        /\ cpc[c] \notin {"waitStart"} \cup Over
        /\ cpc[c] \notin {"forked", "watch", "killing"}
    BY <1>10 DEF Arm, PrepareRoot, AwaitTask, TakeTask, Deliver, Delivered,
                 Cleanup, Over
  <2>2. spc[c] = "absent"
    BY <1>0, <2>1 DEF LocalAt, Over
  <2>3. ~InStart(ContainerOf(c)) /\ ~InStart(SlaveOf(c))
    BY <1>0, <2>1, <2>2 DEF StartAt
  <2> QED
    BY <1>9, <2>1, <2>2, <2>3 DEF StartAt, InStart
<1>11. CASE Measure(c)
  <2>1. /\ start' = start /\ spc'[c] = "absent" /\ cpc[c] \in {"watch", "killing"}
        /\ cpc'[c] = IF data[c].error THEN "exiting" ELSE "finish"
        /\ data'[c].error = data[c].error
    BY <1>0, <1>11 DEF Measure, TaskData
  <2> QED
    BY <1>0, <1>9, <2>1 DEF StartAt, InStart, Over
<1>12. CASE ContainerSigchld(c) \/ ContainerFails(c)
  <2>1. /\ start' = start /\ spc' = spc /\ data' = data
        /\ cpc'[c] = cpc[c] \/ cpc'[c] = "exiting"
    BY <1>0, <1>12 DEF ContainerSigchld, ContainerFails, ContainerDies
  <2> QED
    BY <1>0, <1>9, <2>1 DEF StartAt, InStart, Over
<1>13. CASE ContainerGone(c)
  <2>1. /\ start' = start /\ spc'[c] = "absent" /\ data' = data
        /\ cpc'[c] = "dead"
    BY <1>0, <1>13 DEF ContainerGone
  <2> QED
    BY <1>0, <1>9, <2>1 DEF StartAt, InStart, Over
<1>14. CASE TimeLimit(c)
  <2>1. /\ start' = start /\ spc'[c] = "ended" /\ data' = data
        /\ cpc[c] = "watch" /\ cpc'[c] = "killing"
    BY <1>0, <1>14 DEF TimeLimit
  <2> QED
    BY <1>0, <1>9, <2>1 DEF StartAt, InStart, Over
<1>15. CASE Exec(c) \/ SlaveFails(c) \/ ProgramEnds(c)
  <2>1. /\ start' = start /\ cpc' = cpc
        /\ spc[c] \notin {"await", "ended", "absent"}
        /\ \/ spc'[c] \in {"run", "ended"} /\ data' = data
           \/ spc'[c] = "failed" /\ data'[c].error
    BY <1>0, <1>15 DEF Exec, SlaveFails, ProgramEnds, TaskData
  <2> QED
    BY <1>0, <1>9, <2>1 DEF StartAt, InStart, Over
<1> QED
  BY <1>4, <1>5, <1>6, <1>7, <1>8, <1>10, <1>11, <1>12, <1>13, <1>14, <1>15
     DEF StepOf, ContainerStep, SlaveStep

LEMMA StartWorker ==
  ASSUME Inv, LocalInv, StartInv, DoneInv, TempInv, WorkerNext
  PROVE  StartInv'
<1>0. /\ start \in BarrierOver(Party) /\ start.waiting \cap start.leaving = {}
      /\ DOMAIN cpc = Container
      /\ \A c \in Container : StartAt(c)
      /\ InStart(TheWorker) => wpc \in {"starting", "dead"}
  BY DEF Inv, TypeOK, ContainerTypeOK, SharedTypeOK, StartInv
<1>1. CASE WorkerArrives
  <2>1. /\ start' = Arrive(start, TheWorker) /\ UNCHANGED <<cpc, spc, data>>
        /\ wpc = "meet" /\ wpc' = "starting"
    BY <1>1 DEF WorkerArrives, WorkerAt, containerVars, slaveVars
  <2>2. /\ start'.waiting \cap start'.leaving = {}
        /\ \A p : p # TheWorker => (InStart(p)' <=> InStart(p))
    BY <1>0, <2>1, ArriveInside DEF InStart, Inside
  <2> QED
    BY <1>0, <2>1, <2>2, PartiesDiffer DEF StartInv, StartAt
<1>2. CASE WorkerStarts
  <2>1. /\ start' = Leave(start, TheWorker) /\ UNCHANGED <<cpc, spc, data>>
        /\ Released(start, TheWorker)
    BY <1>2 DEF WorkerStarts, containerVars, slaveVars
  <2>2. /\ start'.waiting \cap start'.leaving = {}
        /\ ~InStart(TheWorker)'
        /\ \A p : p # TheWorker => (InStart(p)' <=> InStart(p))
    BY <1>0, <2>1, LeaveInside DEF InStart
  <2> QED
    BY <1>0, <2>1, <2>2, PartiesDiffer DEF StartInv, StartAt
<1>3. CASE ResetBarrier
  <2>1. /\ UNCHANGED <<cpc, spc, data>>
        /\ start'.waiting = {} /\ start'.leaving = {}
    BY <1>3 DEF ResetBarrier, NewBarrier, containerVars, slaveVars
  <2> QED
    BY <1>0, <2>1 DEF StartInv, StartAt, InStart, Inside
<1>4. ASSUME start' = start, InStart(TheWorker) => wpc' \in {"starting", "dead"},
             \A c \in Container : StartAt(c)'
      PROVE  StartInv'
  BY <1>0, <1>4 DEF StartInv, InStart
<1>5. CASE PrepareContainer
  <2>1. start' = start /\ spc' = spc /\ wpc = "prepare" /\ wpc' = "prepare"
    BY <1>5 DEF PrepareContainer, WorkerAt, slaveVars
  <2>2. ASSUME NEW c \in Container PROVE StartAt(c)'
    <3>1. CASE cpc[c] = "absent" /\ cpc'[c] = "cloned"
      <4>1. Done(c)
        BY <2>1, SeenOutside DEF DoneInv, Finished, Position
      <4> QED
        BY <2>1, <4>1 DEF Done, StartAt, InStart
    <3>2. CASE cpc'[c] = cpc[c] /\ data'[c] = data[c]
      BY <1>0, <2>1, <3>2 DEF StartAt, InStart
    <3> QED
      BY <1>5, <3>1, <3>2, MadeAnew
  <2> QED
    BY <1>0, <1>4, <2>1, <2>2
<1>6. CASE SetTask
  <2>1. /\ UNCHANGED <<start, spc, cpc, wpc>>
        /\ \A c \in Container : data'[c] = data[c] \/ data'[c].error
    BY <1>6 DEF SetTask, TaskDataFor, containerVars, slaveVars, Inv, TypeOK,
                SharedTypeOK
  <2> QED
    BY <1>0, <1>4, <2>1 DEF StartAt, InStart
<1>7. CASE Reap \/ Stop \/ WorkerEnds("dead")
  <2>1. /\ UNCHANGED <<start, spc, data>>
        /\ \A c \in Container : \/ cpc'[c] = cpc[c]
                                \/ cpc'[c] \in Over
        /\ wpc' = "dead" \/ (wpc \notin {"starting", "dead"})
    BY <1>0, <1>7 DEF Reap, Stop, WorkerEnds, WorkerAt, slaveVars, Over
  <2> QED
    BY <1>0, <1>4, <2>1 DEF StartAt, InStart, Over
<1>8. CASE /\ UNCHANGED <<start, spc, cpc, data>>
           /\ wpc' = wpc \/ (wpc \notin {"starting", "dead"})
  BY <1>0, <1>4, <1>8 DEF StartAt, InStart
<1>9. CASE /\ WorkerStep
           /\ ~WorkerArrives /\ ~WorkerStarts /\ ~ResetBarrier
           /\ ~PrepareContainer /\ ~SetTask /\ ~Reap /\ ~WorkerEnds("dead")
  BY <1>8, <1>9 DEF WorkerStep, NextLoop, EnterMeeting, HandOver, ClosePipes,
       CollectResult, Collected, Respond, WorkerSigchld, WorkerAt,
       containerVars, slaveVars
<1>10. CASE Reject \/ \E r \in Requests : Accept(r)
  BY <1>8, <1>10 DEF Reject, Accept, WorkerAt, containerVars, slaveVars
<1> QED
  BY <1>1, <1>2, <1>3, <1>5, <1>6, <1>7, <1>9, <1>10 DEF WorkerNext, WorkerFails
-----------------------------------------------------------------------------
(* The task a container is about to run.                                   *)

LEMMA GivenBefore ==
  ASSUME Inv, MeetInv, LocalInv, NEW c \in Container, StepOf(c), Given(c)'
  PROVE  Given(c) /\ data'[c] = data[c]
<1>0. /\ cpc \in [Container -> ContainerPc] /\ spc \in [Container -> SlavePc]
      /\ DOMAIN meet = Container /\ DOMAIN data = Container
      /\ meet[c] \in BarrierOver({"worker", "container"}) /\ LocalAt(c)
  BY DEF Inv, TypeOK, ContainerTypeOK, SlaveTypeOK, SharedTypeOK, LocalInv
<1>1. PICK pos \in Positions : Match(pos, cpc[c], meet[c])
  BY DEF MeetInv
<1> USE DEF ContainerAt, containerVars, slaveVars
<1>2. CASE AwaitTask(c)
  <2>1. /\ cpc[c] = "ready" /\ cpc'[c] = "waitTask" /\ data' = data
        /\ meet'[c] = Arrive(meet[c], "container")
    BY <1>0, <1>2 DEF AwaitTask
  <2>2. "worker" \in meet[c].waiting
    BY <1>1, <2>1, MatchTells DEF Given
  <2> QED
    BY <2>1, <2>2 DEF Given, Resting
<1>3. CASE TakeTask(c)
  BY <1>0, <1>3 DEF TakeTask, Given, Released
<1>4. CASE Deliver(c)
  <2>1. /\ cpc[c] = "finish" /\ cpc'[c] = "waitResults"
        /\ meet'[c] = Arrive(meet[c], "container")
    BY <1>0, <1>4 DEF Deliver
  <2>2. "worker" \notin meet'[c].waiting
    BY <1>1, <2>1, MatchTells
  <2> QED
    BY <2>1, <2>2 DEF Given
<1>5. CASE Delivered(c)
  <2>1. /\ cpc[c] = "waitResults" /\ cpc'[c] \in {"cleanup", "exited"}
        /\ data' = data /\ meet'[c].waiting = meet[c].waiting
    BY <1>0, <1>5 DEF Delivered, Leave, BarrierOver
  <2> QED
    BY <2>1 DEF Given, Resting
<1>6. CASE meet' = meet /\ data' = data /\ cpc'[c] # "launch"
           /\ (cpc'[c] = cpc[c] \/ cpc[c] \in Resting)
           /\ (cpc'[c] = "waitTask" => cpc[c] = "waitTask")
  BY <1>6 DEF Given, Resting
<1>7. CASE Arm(c) \/ PrepareRoot(c) \/ Cleanup(c)
  BY <1>0, <1>6, <1>7 DEF Arm, PrepareRoot, Cleanup, Resting
<1>8. CASE /\ cpc'[c] \in (Working \ {"launch"}) \cup Over
  BY <1>8 DEF Given, Working, Resting, Over
<1>9. CASE Launch(c) \/ ContainerArrives(c) \/ ContainerStarts(c) \/ Measure(c)
           \/ ContainerFails(c) \/ ContainerGone(c) \/ TimeLimit(c)
  BY <1>0, <1>8, <1>9 DEF Launch, ContainerArrives, ContainerStarts, Measure,
       ContainerFails, ContainerDies, ContainerGone, TimeLimit, Working, Over
<1>10. CASE ContainerSigchld(c)
  <2>1. meet' = meet /\ data' = data /\ (cpc' = cpc \/ cpc'[c] = "exiting")
    BY <1>0, <1>10 DEF ContainerSigchld, ContainerDies
  <2> QED
    BY <1>8, <2>1 DEF Given, Over
<1>11. CASE SlaveStep(c) \/ SlaveFails(c) \/ ProgramEnds(c)
  <2>1. cpc' = cpc /\ spc[c] # "absent"
    BY <1>11 DEF SlaveStep, SlaveArrives, SlaveStarts, Exec, SlaveFails,
         ProgramEnds
  <2> QED
    BY <1>0, <1>8, <2>1 DEF LocalAt, Working, Over
<1> QED
  BY <1>2, <1>3, <1>4, <1>5, <1>7, <1>9, <1>10, <1>11 DEF StepOf, ContainerStep

LEMMA GivenContainer ==
  ASSUME Inv, MeetInv, LocalInv, GivenInv, NEW c \in Container, StepOf(c)
  PROVE  GivenInv'
<1> SUFFICES ASSUME NEW d \in Container, Given(d)'
             PROVE  \E k \in 1..Len(containers) : ForTask(d, k)'
  BY StepOfFrame DEF GivenInv
<1>1. Given(d) /\ data'[d] = data[d]
  <2>1. CASE d = c
    BY <2>1, GivenBefore
  <2>2. CASE d # c
    BY <2>2, StepOfOthers DEF Given
  <2> QED
    BY <2>1, <2>2
<1>2. UNCHANGED <<containers, tasks, reqNo>>
  BY StepOfFrame
<1>3. PICK k \in 1..Len(containers) : ForTask(d, k)
  BY <1>1 DEF GivenInv
<1>4. ForTask(d, k)'
  BY <1>1, <1>2, <1>3 DEF ForTask
<1> QED
  BY <1>4

LEMMA ReadyContainer ==
  ASSUME Inv, LocalInv, DoneInv, ReadyInv, NEW c \in Container, StepOf(c)
  PROVE  ReadyInv'
<1> SUFFICES ASSUME NEW k \in 1..Len(containers), ReadyAt(k)
             PROVE  ForTask(containers[k], k)'
  BY StepOfFrame DEF ReadyInv, ReadyAt
<1>1. UNCHANGED <<containers, tasks, reqNo>>
  BY StepOfFrame
<1>2. containers[k] \in Container /\ i \in Nat
  BY MaxTasksAssumption DEF Inv, TypeOK, WorkerTypeOK
<1>3. Position(containers[k]) = "before"
  <2>1. SeenFrom(wpc, i, containers, containers[k]) = Seen(wpc, i, k)
    BY SeenAt DEF Inv, ContainersDistinct
  <2> QED
    BY <1>2, <2>1 DEF Position, Seen, ReadyAt
<1>4. spc[containers[k]] = "absent"
  BY <1>2, <1>3 DEF DoneInv, Finished, Done, ReadyAt
<1>5. data'[containers[k]] = data[containers[k]]
  <2>1. CASE containers[k] # c
    BY <1>2, <2>1, StepOfOthers
  <2>2. CASE containers[k] = c
    <3>1. CASE ContainerStep(c)
      BY <1>4, <2>2, <3>1 DEF ContainerStep, Arm, PrepareRoot, AwaitTask,
           TakeTask, Launch, ContainerArrives, ContainerStarts, Measure,
           Deliver, Delivered, Cleanup, ContainerSigchld, ContainerGone
    <3>2. CASE ~ContainerStep(c)
      BY <1>4, <2>2, <3>2 DEF StepOf, TimeLimit, ContainerFails, SlaveStep,
           SlaveArrives, SlaveStarts, Exec, SlaveFails, ProgramEnds
    <3> QED
      BY <3>1, <3>2
  <2> QED
    BY <2>1, <2>2
<1> QED
  BY <1>1, <1>5 DEF ReadyInv, ForTask

LEMMA GivenWorkerBefore ==
  ASSUME Inv, MeetInv, TempInv, WorkerNext, NEW c \in Container, Given(c)'
  PROVE  /\ UNCHANGED <<containers, tasks, reqNo, data[c]>>
         /\ \/ Given(c)
            \/ EnterMeeting("meet", "meeting") /\ c = containers[i]
<1>0. /\ DOMAIN meet = Container /\ DOMAIN data = Container
      /\ DOMAIN cpc = Container
      /\ meet[c] \in BarrierOver({"worker", "container"})
  BY DEF Inv, TypeOK, ContainerTypeOK, SharedTypeOK
<1>1. ASSUME wpc # "dead", Position(c) = "before" PROVE ~Given(c)
  <2>1. Match("before", cpc[c], meet[c])
    BY <1>1 DEF MeetInv
  <2> QED
    BY <2>1, MatchTells DEF Given, Working
<1>2. CASE EnterMeeting("meet", "meeting")
  <2>1. /\ UNCHANGED <<containers, tasks, reqNo, data, cpc>>
        /\ meet' = [meet EXCEPT ![containers[i]] = Arrive(@, "worker")]
    BY <1>2 DEF EnterMeeting, containerVars
  <2>2. CASE c # containers[i]
    <3>1. meet'[c] = meet[c]
      BY <1>0, <2>1, <2>2
    <3> QED
      BY <2>1, <3>1 DEF Given
  <2> QED
    BY <1>2, <2>1, <2>2
<1>3. CASE EnterMeeting("collect", "collecting")
  <2>1. /\ UNCHANGED <<containers, tasks, reqNo, data, cpc>>
        /\ meet' = [meet EXCEPT ![containers[i]] = Arrive(@, "worker")]
        /\ wpc = "collect"
    BY <1>3 DEF EnterMeeting, WorkerAt, containerVars
  <2>2. CASE c = containers[i]
    <3>1. Match("away", cpc[c], meet[c])
      BY <1>3, <2>1, <2>2, PositionMoves DEF MeetInv
    <3>2. meet'[c] = Arrive(meet[c], "worker")
      BY <1>0, <2>1, <2>2
    <3>3. Given(c)
      BY <2>1, <3>1, <3>2, TwoMeet, BarHolds
         DEF Match, Given, Resting, Working, Over
    <3> QED
      BY <2>1, <3>3
  <2>3. CASE c # containers[i]
    <3>1. meet'[c] = meet[c]
      BY <1>0, <2>1, <2>3
    <3> QED
      BY <2>1, <3>1 DEF Given
  <2> QED
    BY <2>2, <2>3
<1>4. CASE HandOver \/ CollectResult
  <2>1. /\ UNCHANGED <<containers, tasks, reqNo, data, cpc>>
        /\ meet'[c] = meet[c] \/ meet'[c] = Leave(meet[c], "worker")
    BY <1>0, <1>4 DEF HandOver, CollectResult, containerVars
  <2>2. Given(c)
    BY <1>0, <2>1 DEF Given, Leave, BarrierOver
  <2> QED
    BY <2>1, <2>2
<1>5. CASE \/ PrepareContainer \/ SetTask \/ Collected \/ Reject
           \/ \E r \in Requests : Accept(r)
  <2>1. wpc \in {"prepare", "write", "reap", "accept"}
    BY <1>5 DEF PrepareContainer, SetTask, Collected, Reject, Accept, WorkerAt
  <2>2. ~Given(c)
    BY <1>1, <2>1, SeenOutside DEF Position
  <2>3. CASE PrepareContainer
    <3>1. \/ cpc'[c] = cpc[c] /\ meet'[c] = meet[c]
          \/ cpc'[c] = "cloned" /\ meet'[c] = NewBarrier(2)
      BY <2>3, MadeAnew
    <3> QED
      BY <2>2, <3>1 DEF Given, NewBarrier
  <2>4. CASE ~PrepareContainer
    <3>1. UNCHANGED <<cpc, meet>>
      BY <1>5, <2>4 DEF SetTask, Collected, Reject, Accept, containerVars
    <3> QED
      BY <2>2, <3>1 DEF Given
  <2> QED
    BY <2>3, <2>4
<1>6. CASE /\ UNCHANGED <<containers, tasks, reqNo, data, meet>>
           /\ cpc'[c] = cpc[c] \/ cpc'[c] \in Over
  BY <1>6 DEF Given, Resting, Over
<1>7. CASE \/ ResetBarrier \/ NextLoop \/ WorkerArrives \/ WorkerStarts
           \/ ClosePipes \/ Reap \/ Respond \/ WorkerSigchld \/ Stop
           \/ WorkerFails
  BY <1>0, <1>6, <1>7 DEF ResetBarrier, NextLoop, WorkerArrives, WorkerStarts,
       ClosePipes, Reap, Respond, WorkerSigchld, Stop, WorkerFails, WorkerEnds,
       containerVars, Over
<1> QED
  BY <1>2, <1>3, <1>4, <1>5, <1>7 DEF WorkerNext, WorkerStep

LEMMA GivenWorker ==
  ASSUME Inv, MeetInv, TempInv, GivenInv, ReadyInv, WorkerNext
  PROVE  GivenInv'
<1> SUFFICES ASSUME NEW c \in Container, Given(c)'
             PROVE  \E k \in 1..Len(containers') : ForTask(c, k)'
  BY DEF GivenInv
<1>1. UNCHANGED <<containers, tasks, reqNo, data[c]>>
  BY GivenWorkerBefore
<1>2. \E k \in 1..Len(containers) : ForTask(c, k)
  <2>1. CASE Given(c)
    BY <2>1 DEF GivenInv
  <2>2. CASE EnterMeeting("meet", "meeting") /\ c = containers[i]
    <3>1. i \in 1..Len(containers) /\ ReadyAt(i)
      BY <2>2, MaxTasksAssumption
         DEF EnterMeeting, WorkerAt, MoreTasks, Inv, TypeOK, WorkerTypeOK,
             LoopInv, ReadyAt
    <3> QED
      BY <2>2, <3>1 DEF ReadyInv
  <2> QED
    BY <2>1, <2>2, GivenWorkerBefore
<1>3. PICK k \in 1..Len(containers) : ForTask(c, k)
  BY <1>2
<1>4. ForTask(c, k)'
  BY <1>1, <1>3 DEF ForTask
<1> QED
  BY <1>1, <1>4

LEMMA ReadyWorkerBefore ==
  ASSUME Inv, WorkerNext, NEW k \in 1..Len(containers'), ReadyAt(k)'
  PROVE  /\ UNCHANGED <<containers, tasks, reqNo>>
         /\ \/ SetTask /\ wpc = "write" /\ k \in 1..i
            \/ UNCHANGED data /\ wpc # "prepare" /\ ReadyAt(k)
<1>0. /\ i \in Nat /\ Len(containers) \in Nat /\ Len(tasks) \in Nat
      /\ wpc = "write" => Len(containers) = Len(tasks)
  BY MaxTasksAssumption DEF Inv, TypeOK, WorkerTypeOK, LoopInv
<1>1. CASE SetTask
  BY <1>0, <1>1 DEF SetTask, WorkerAt, ReadyAt
<1>2. CASE UNCHANGED <<containers, tasks, reqNo, data>>
           /\ \/ wpc' = "write" /\ i' = 1
              \/ wpc = "write" /\ i > Len(tasks) /\ wpc' = "meet"
              \/ wpc = "meet" /\ wpc' = "meeting" /\ i' = i
              \/ wpc = "meeting" /\ wpc' = "meet" /\ i' = i + 1
              \/ UNCHANGED <<wpc, i>>
  BY <1>0, <1>2 DEF ReadyAt
<1>3. wpc' \in {"write", "meet", "meeting"}
  BY DEF ReadyAt
<1>4. CASE PrepareContainer \/ Collected \/ Reject \/ \E r \in Requests : Accept(r)
  BY <1>3, <1>4 DEF PrepareContainer, Collected, Accept, Reject, WorkerAt
<1>5. CASE NextLoop
  BY <1>0, <1>2, <1>3, <1>5 DEF NextLoop, WorkerAt, MoreTasks
<1>6. CASE WorkerStep /\ ~SetTask /\ ~PrepareContainer /\ ~Collected /\ ~NextLoop
  BY <1>2, <1>3, <1>6 DEF WorkerStep, ResetBarrier, EnterMeeting, HandOver,
       WorkerArrives, WorkerStarts, ClosePipes, CollectResult, Reap, Respond,
       WorkerSigchld, WorkerEnds, WorkerAt
<1>7. CASE Stop \/ WorkerFails
  BY <1>3, <1>7 DEF Stop, WorkerFails, WorkerEnds
<1> QED
  BY <1>1, <1>4, <1>5, <1>6, <1>7 DEF WorkerNext

LEMMA ReadyWorker ==
  ASSUME Inv, ReadyInv, WorkerNext
  PROVE  ReadyInv'
<1> SUFFICES ASSUME NEW k \in 1..Len(containers'), ReadyAt(k)'
             PROVE  ForTask(containers[k], k)'
  BY DEF ReadyInv
<1>1. UNCHANGED <<containers, tasks, reqNo>>
  BY ReadyWorkerBefore
<1>2. CASE UNCHANGED data /\ ReadyAt(k)
  BY <1>1, <1>2 DEF ReadyInv, ForTask
<1>3. CASE SetTask /\ wpc = "write" /\ k \in 1..i
  <2>1. /\ i \in 1..Len(containers) /\ k \in 1..Len(containers)
        /\ containers \in Seq(Container) /\ data \in [Container -> TaskData]
        /\ data' = [data EXCEPT ![containers[i]] =
                      TaskDataFor(<<reqNo, i>>, tasks[i])]
    BY <1>1, <1>3, MaxTasksAssumption
       DEF SetTask, MoreTasks, Inv, TypeOK, WorkerTypeOK, SharedTypeOK, LoopInv
  <2>2. containers[k] \in Container
    BY <2>1
  <2>3. CASE k = i
    BY <1>1, <2>1, <2>2, <2>3 DEF ForTask
  <2>4. CASE k # i
    <3>1. containers[k] # containers[i]
      BY <2>1, <2>4 DEF Inv, ContainersDistinct
    <3>2. ForTask(containers[k], k)
      BY <1>3, <2>1, <2>4 DEF ReadyInv, ReadyAt
    <3> QED
      BY <1>1, <2>1, <3>1, <3>2 DEF ForTask
  <2> QED
    BY <2>3, <2>4
<1> QED
  BY <1>2, <1>3, ReadyWorkerBefore
-----------------------------------------------------------------------------
(* All of them together.                                                   *)

LEMMA MeetingInit == Init => MeetingInv
<1> SUFFICES ASSUME Init PROVE MeetingInv
  OBVIOUS
<1> USE DEF Init
<1>1. MeetInv
  <2>1. \A c \in Container : Position(c) = "before"
    BY SeenOutside DEF Position
  <2>2. Match("before", "absent", NewBarrier(2))
    BY BarHolds DEF Match, Over
  <2> QED
    BY <2>1, <2>2 DEF MeetInv, Positions
<1>2. BegunInv /\ KindInv /\ TempInv /\ QuietInv /\ ReadyInv
  <2>1. \A k \in 1..MaxTasks : <<"temp", k>> \in Container
    BY DEF Container
  <2> QED
    BY <2>1 DEF BegunInv, KindInv, TempInv, QuietInv, ReadyInv
<1>3. LocalInv
  BY DEF LocalInv, LocalAt, Live, Resting, Working, NewTaskData, DefaultTask
<1>4. \A p : ~InStart(p)
  BY DEF InStart, Inside, NewBarrier
<1>5. StartInv /\ DoneInv
  BY <1>4 DEF StartInv, StartAt, DoneInv, Done, NewBarrier
<1>6. GivenInv
  BY BarHolds DEF GivenInv, Given, Resting
<1> QED
  BY <1>1, <1>2, <1>3, <1>5, <1>6 DEF MeetingInv

LEMMA MeetingNext == Inv /\ MeetingInv /\ [Next]_vars => MeetingInv'
<1> SUFFICES ASSUME Inv, MeetingInv, [Next]_vars PROVE MeetingInv'
  OBVIOUS
<1> USE DEF MeetingInv
<1>1. CASE WorkerNext
  BY <1>1, MeetWorker, BegunWorker, LocalWorker, KindWorker, TempWorker,
     QuietWorker, StartWorker, DoneWorker, GivenWorker, ReadyWorker
<1>2. ASSUME NEW c \in Container, StepOf(c) PROVE MeetingInv'
  BY <1>2, MeetContainer, StepOfLoops, LocalContainer, StartContainer,
     DoneContainer, GivenContainer, ReadyContainer
<1>3. CASE UNCHANGED vars
  <2> USE <1>3 DEF vars, workerVars, containerVars, slaveVars
  <2>1. MeetInv' /\ BegunInv'
    BY DEF MeetInv, BegunInv, Begun, Position
  <2>2. LocalInv' /\ KindInv' /\ TempInv' /\ QuietInv'
    BY DEF LocalInv, LocalAt, KindInv, TempInv, QuietInv
  <2>3. StartInv' /\ DoneInv'
    BY DEF StartInv, StartAt, DoneInv, Finished, Done, InStart, Position
  <2>4. GivenInv' /\ ReadyInv'
    BY DEF GivenInv, Given, ReadyInv, ReadyAt, ForTask
  <2> QED
    BY <2>1, <2>2, <2>3, <2>4
<1> QED
  BY <1>1, <1>2, <1>3, NextSplit

\* At every barrier of a container the worker and the container are where the
\* other one expects them, with the task data of the task at hand.
THEOREM MeetingsInvariance == Spec => [](Inv /\ MeetingInv)
<1>1. Init => Inv /\ MeetingInv
  BY InitInv, MeetingInit
<1>2. (Inv /\ MeetingInv) /\ [Next]_vars => (Inv /\ MeetingInv)'
  BY NextInv, MeetingNext
<1> QED
  BY <1>1, <1>2, PTL DEF Spec
-----------------------------------------------------------------------------
(* What follows.                                                           *)

\* While the worker is neither starting a run nor waiting for one, nobody is
\* in the run start barrier and no container is at work.
LEMMA IdleBefore ==
  ASSUME Inv, MeetingInv, wpc # "dead", NEW c \in Container,
         Position(c) = "before"
  PROVE  Done(c) /\ cpc[c] \notin Working /\ ~Given(c)
<1>1. Match("before", cpc[c], meet[c])
  BY DEF MeetingInv, MeetInv
<1>2. Done(c)
  BY DEF MeetingInv, DoneInv, Finished
<1> QED
  BY <1>1, <1>2, MatchTells DEF Given, Working

LEMMA NobodyInside ==
  ASSUME Inv, MeetingInv,
         wpc \in {"accept", "prepare", "write", "reap", "respond", "stopped"}
  PROVE  start.waiting = {} /\ start.leaving = {}
<1>1. \A c \in Container : ~InStart(ContainerOf(c)) /\ ~InStart(SlaveOf(c))
  BY SeenOutside, IdleBefore DEF Position, Done
<1>2. ~InStart(TheWorker)
  BY DEF MeetingInv, StartInv
<1>3. ASSUME NEW p \in Party PROVE ~InStart(p)
  <2>1. p = TheWorker \/ \E c \in Container : p \in {ContainerOf(c), SlaveOf(c)}
    BY DEF Party, ContainerOf, SlaveOf
  <2> QED
    BY <1>1, <1>2, <2>1
<1>4. start.waiting \subseteq Party /\ start.leaving \subseteq Party
  BY DEF Inv, TypeOK, SharedTypeOK, BarrierOver
<1> QED
  BY <1>3, <1>4 DEF InStart, Inside

\* A program runs among the binds of its task and not among the files of an
\* earlier one; cleanup_root() never reaches the binds of a task.
THEOREM BoxAlwaysClean == Spec => []BoxIsClean
<1>1. Inv /\ MeetingInv => BoxIsClean
  <2> SUFFICES ASSUME Inv, MeetingInv, NEW c \in Container
               PROVE  /\ spc[c] \in {"setup", "run"} /\ cpc[c] # "exiting" =>
                           /\ "task" \in box[c] /\ "files" \notin box[c]
                           /\ data[c].task.ipc => "ipc" \in box[c]
                      /\ cpc[c] = "cleanup" => "task" \notin box[c]
    BY DEF BoxIsClean
  <2>1. LocalAt(c)
    BY DEF MeetingInv, LocalInv
  <2> QED
    BY <2>1 DEF LocalAt, Live, Resting
<1> QED
  BY <1>1, MeetingsInvariance, PTL

\* Nobody is in the run start barrier when the worker makes it anew.
THEOREM ResetAlwaysSafe == Spec => []ResetIsSafe
<1>1. Inv /\ MeetingInv => ResetIsSafe
  BY NobodyInside DEF ResetIsSafe, WorkerAt
<1> QED
  BY <1>1, MeetingsInvariance, PTL

\* A worker that was told to stop leaves no program and no cgroup behind.
THEOREM GracefulStopAlwaysLeavesNothing == Spec => []GracefulStopLeavesNothing
<1>1. Inv /\ MeetingInv => GracefulStopLeavesNothing
  <2> SUFFICES ASSUME Inv, MeetingInv, wpc = "stopped"
               PROVE  cgroups = {} /\ \A c \in Container : spc[c] = "absent"
    BY DEF GracefulStopLeavesNothing
  <2>1. \A c \in Container : spc[c] = "absent" /\ c \notin cgroups
    BY SeenOutside DEF MeetingInv, DoneInv, Finished, Position, Done
  <2>2. cgroups \subseteq Container
    BY DEF Inv, TypeOK, ContainerTypeOK
  <2> QED
    BY <2>1, <2>2
<1> QED
  BY <1>1, MeetingsInvariance, PTL

\* set_task() writes only where no slave is and no container works.
THEOREM TaskDataAlwaysStable == Spec => TaskDataStable
<1> DEFINE Late(c) == \/ cpc[c] \in Over
                      \/ /\ spc[c] = "absent"
                         /\ \/ cpc[c] \in {"cloned", "armed", "ready",
                                           "waitTask", "cleanup"}
                            \/ /\ cpc[c] = "waitResults"
                               /\ Released(meet[c], "container")
           Stable == \A c \in Container : data'[c].job # data[c].job => Late(c)
<1>1. Inv /\ MeetingInv /\ [Next]_vars => [Stable]_vars
  <2> SUFFICES ASSUME Inv, MeetingInv, [Next]_vars, NEW c \in Container,
                      data'[c].job # data[c].job
               PROVE  Late(c)
    OBVIOUS
  <2>1. data \in [Container -> TaskData]
    BY DEF Inv, TypeOK, SharedTypeOK
  <2>2. CASE PrepareContainer
    BY <2>2, MadeAnew DEF MeetingInv, Over
  <2>3. CASE SetTask
    <3>1. wpc = "write"
      BY <2>3 DEF SetTask, WorkerAt
    <3>2. Position(c) = "before" /\ Done(c)
      BY <3>1, SeenOutside DEF MeetingInv, DoneInv, Finished, Position
    <3>3. Match("before", cpc[c], meet[c])
      BY <3>1, <3>2 DEF MeetingInv, MeetInv
    <3> QED
      BY <3>2, <3>3, BarHolds DEF Match, Done, Resting, Over
  <2>4. ASSUME NEW d \in Container, StepOf(d) PROVE FALSE
    <3>1. CASE ContainerStep(d)
      BY <2>1, <3>1 DEF ContainerStep, Arm, PrepareRoot, AwaitTask, TakeTask,
           Launch, ContainerArrives, ContainerStarts, Measure, TaskData,
           Deliver, Delivered, Cleanup, ContainerSigchld, ContainerGone
    <3>2. CASE ~ContainerStep(d)
      BY <2>1, <2>4, <3>2 DEF StepOf, TaskData, TimeLimit, ContainerFails,
           SlaveStep, SlaveArrives, SlaveStarts, Exec, SlaveFails, ProgramEnds
    <3> QED
      BY <3>1, <3>2
  <2>5. CASE WorkerNext /\ ~PrepareContainer /\ ~SetTask
    BY <2>5 DEF WorkerNext, WorkerStep, ResetBarrier, NextLoop, EnterMeeting,
         HandOver, WorkerArrives, WorkerStarts, ClosePipes, CollectResult, Reap,
         Collected, Respond, WorkerSigchld, WorkerEnds, Accept, Reject, Stop,
         WorkerFails
  <2>6. CASE UNCHANGED vars
    BY <2>6 DEF vars
  <2> QED
    BY <2>2, <2>3, <2>4, <2>5, <2>6, NextSplit
<1>2. Inv /\ MeetingInv /\ [Next]_vars =>
        [\A c \in Container : data'[c].job # data[c].job =>
           \/ cpc[c] \in Over
           \/ /\ spc[c] = "absent"
              /\ \/ cpc[c] \in {"cloned", "armed", "ready", "waitTask", "cleanup"}
                 \/ cpc[c] = "waitResults" /\ Released(meet[c], "container")]_vars
  BY <1>1
<1> QED
  BY <1>2, MeetingsInvariance, PTL DEF Spec, TaskDataStable
-----------------------------------------------------------------------------
(* Whose run it is: once a container has a task of the request at hand, and *)
(* until all of it is over, the job it last forked for is a job of that     *)
(* request, and a run that begins has all of them.                          *)

\* c forked a slave for a task of the request at hand.
Current(c) ==
  \E k \in 1..Len(containers) : containers[k] = c /\ prog[c] = <<reqNo, k>>

\* c is busy with the run for which it last forked a slave.
Busy(c) ==
  \/ spc[c] # "absent"
  \/ InStart(ContainerOf(c)) \/ InStart(SlaveOf(c))
  \/ cpc[c] \in Working \ {"launch"}

CurrentInv ==
  \A c \in Container :
    /\ Busy(c) => Current(c)
    /\ Current(c) => Begun

\* A container that is about to run a task has not run it yet.
FreshInv ==
  /\ \A c \in Container : prog[c][1] <= reqNo
  /\ wpc \in {"prepare", "write"} => \A c \in Container : prog[c][1] < reqNo
  /\ \A c \in Container : Given(c) => prog[c][1] < reqNo
  /\ \A k \in 1..Len(containers) :
       ReadyAt(k) => prog[containers[k]][1] < reqNo

\* All slaves of the request are forked.
AllPlaced ==
  /\ Len(tasks) = Len(containers)
  /\ \A k \in 1..Len(containers) : prog[containers[k]] = <<reqNo, k>>

PlacedInv ==
  start.leaving # {} \/ wpc \in {"close", "collect", "collecting", "reap"} =>
    AllPlaced

\* The pipes are there for those who are still to inherit them.
PipeInv ==
  /\ \A c \in Container :
       /\ Given(c) /\ data[c].task.pipe => pipes
       /\ spc[c] # "absent" /\ data[c].task.pipe => c \in fds
  /\ \A k \in 1..Len(containers) : ReadyAt(k) /\ tasks[k].pipe => pipes

RunInv == CurrentInv /\ FreshInv /\ PlacedInv /\ PipeInv

LEMMA ProgType ==
  ASSUME Inv, NEW c \in Container
  PROVE  prog[c][1] \in Nat /\ reqNo \in Nat /\ Len(containers) \in Nat
         /\ prog \in [Container -> Job \cup {NoJob}]
BY MaxRequestsAssumption
   DEF Inv, TypeOK, SlaveTypeOK, WorkerTypeOK, Job, NoJob

LEMMA ProgContainer ==
  ASSUME Inv, MeetingInv, NEW c \in Container, StepOf(c)
  PROVE  \/ prog' = prog /\ fds' = fds /\ ~Launch(c)
         \/ /\ Launch(c) /\ Given(c) /\ ~Given(c)'
            /\ prog' = [prog EXCEPT ![c] = data[c].job]
            /\ \E k \in 1..Len(containers) :
                 ForTask(c, k) /\ prog'[c] = <<reqNo, k>>
<1>1. CASE Launch(c)
  <2>1. /\ cpc[c] = "launch" /\ cpc'[c] = "forked"
        /\ prog' = [prog EXCEPT ![c] = data[c].job]
    BY <1>1 DEF Launch, ContainerAt, Inv, TypeOK, ContainerTypeOK
  <2>2. Given(c) /\ ~Given(c)'
    BY <2>1 DEF Given, Resting
  <2>3. PICK k \in 1..Len(containers) : ForTask(c, k)
    BY <2>2 DEF MeetingInv, GivenInv
  <2>4. prog'[c] = <<reqNo, k>>
    BY <2>1, <2>3, ProgType DEF ForTask, TaskDataFor
  <2> QED
    BY <1>1, <2>1, <2>2, <2>3, <2>4
<1>2. CASE ContainerStep(c) /\ ~Launch(c)
  BY <1>2 DEF ContainerStep, slaveVars, Arm, PrepareRoot, AwaitTask, TakeTask,
       ContainerArrives, ContainerStarts, Measure, Deliver, Delivered, Cleanup,
       ContainerSigchld, ContainerGone
<1>3. CASE ~ContainerStep(c)
  BY <1>3 DEF StepOf, ContainerStep, slaveVars, TimeLimit, ContainerFails,
       SlaveStep, SlaveArrives, SlaveStarts, Exec, SlaveFails, ProgramEnds
<1> QED
  BY <1>1, <1>2, <1>3

LEMMA BusyContainer ==
  ASSUME Inv, MeetingInv, NEW c \in Container, StepOf(c), NEW d \in Container,
         Busy(d)'
  PROVE  Busy(d) \/ (d = c /\ Launch(c))
<1>0. /\ cpc \in [Container -> ContainerPc] /\ spc \in [Container -> SlavePc]
  BY DEF Inv, TypeOK, ContainerTypeOK, SlaveTypeOK
<1>1. CASE d # c
  <2>1. cpc'[d] = cpc[d] /\ spc'[d] = spc[d]
    BY <1>1, StepOfOthers
  <2>2. /\ InStart(ContainerOf(d))' <=> InStart(ContainerOf(d))
        /\ InStart(SlaveOf(d))' <=> InStart(SlaveOf(d))
    BY <1>1, StepOfStart, PartiesDiffer DEF ContainerOf, SlaveOf, MeetingInv
  <2> QED
    BY <2>1, <2>2 DEF Busy
<1>2. CASE \/ ContainerArrives(c) \/ ContainerStarts(c) \/ Measure(c)
           \/ TimeLimit(c) \/ SlaveStep(c) \/ SlaveFails(c) \/ ProgramEnds(c)
  <2>1. Busy(c)
    BY <1>2 DEF ContainerArrives, ContainerStarts, Measure, TimeLimit, SlaveStep,
         SlaveArrives, SlaveStarts, Exec, SlaveFails, ProgramEnds, ContainerAt,
         Busy, Working
  <2> QED
    BY <1>1, <2>1
<1>3. CASE /\ d = c /\ start' = start
           /\ spc'[c] # "absent" => spc[c] # "absent"
           /\ cpc'[c] \in Working \ {"launch"} => cpc[c] \in Working \ {"launch"}
  BY <1>3 DEF Busy, InStart
<1>4. CASE d = c /\ (Arm(c) \/ PrepareRoot(c) \/ AwaitTask(c) \/ TakeTask(c)
                       \/ Deliver(c) \/ Delivered(c) \/ Cleanup(c))
  BY <1>0, <1>3, <1>4 DEF Arm, PrepareRoot, AwaitTask, TakeTask, Deliver,
       Delivered, Cleanup, slaveVars, Working
<1>5. CASE d = c /\ (ContainerSigchld(c) \/ ContainerFails(c) \/ ContainerGone(c))
  BY <1>0, <1>3, <1>5 DEF ContainerSigchld, ContainerFails, ContainerDies,
       ContainerGone, slaveVars, Working
<1> QED
  BY <1>1, <1>2, <1>4, <1>5 DEF StepOf, ContainerStep

LEMMA WorkerStopsWork ==
  ASSUME Inv, MeetingInv, WorkerNext, NEW c \in Container
  PROVE  cpc'[c] = cpc[c] \/ cpc'[c] \notin Working
<1>0. DOMAIN cpc = Container
  BY DEF Inv, TypeOK, ContainerTypeOK
<1>1. CASE PrepareContainer
  BY <1>1, MadeAnew DEF MeetingInv, Working
<1>2. CASE Reap \/ Stop \/ WorkerEnds("dead")
  BY <1>0, <1>2 DEF Reap, Stop, WorkerEnds, Working
<1>3. CASE WorkerStep /\ ~PrepareContainer /\ ~Reap /\ ~WorkerEnds("dead")
  BY <1>3 DEF WorkerStep, containerVars, ResetBarrier, SetTask, NextLoop,
       EnterMeeting, HandOver, WorkerArrives, WorkerStarts, ClosePipes,
       CollectResult, Collected, Respond, WorkerSigchld
<1>4. CASE Reject \/ \E r \in Requests : Accept(r)
  BY <1>4 DEF Reject, Accept, containerVars
<1> QED
  BY <1>1, <1>2, <1>3, <1>4 DEF WorkerNext, WorkerFails

LEMMA BusyWorker ==
  ASSUME Inv, MeetingInv, WorkerNext, NEW c \in Container, Busy(c)'
  PROVE  Busy(c)
<1>1. /\ spc' = spc
      /\ InStart(ContainerOf(c))' => InStart(ContainerOf(c))
      /\ InStart(SlaveOf(c))' => InStart(SlaveOf(c))
  BY WorkerLeaves, PartiesDiffer DEF MeetingInv
<1>2. cpc'[c] = cpc[c] \/ cpc'[c] \notin Working
  BY WorkerStopsWork
<1> QED
  BY <1>1, <1>2 DEF Busy

LEMMA NotBusyBefore ==
  ASSUME Inv, MeetingInv, NEW c \in Container,
         wpc \in {"accept", "prepare", "write", "reap", "respond", "stopped"}
  PROVE  ~Busy(c) /\ ~Given(c)
BY IdleBefore, SeenOutside DEF Position, Done, Busy

LEMMA ReadyWaits ==
  ASSUME Inv, MeetingInv, NEW k \in 1..Len(containers), ReadyAt(k)
  PROVE  /\ containers[k] \in Container
         /\ ~Given(containers[k]) /\ Done(containers[k])
<1>1. containers[k] \in Container /\ i \in Nat
  BY MaxTasksAssumption DEF Inv, TypeOK, WorkerTypeOK
<1>2. Position(containers[k]) = "before"
  <2>1. SeenFrom(wpc, i, containers, containers[k]) = Seen(wpc, i, k)
    BY SeenAt DEF Inv, ContainersDistinct
  <2> QED
    BY <1>1, <2>1 DEF Position, Seen, ReadyAt
<1> QED
  BY <1>1, <1>2, IdleBefore DEF ReadyAt

LEMMA FreshContainer ==
  ASSUME Inv, MeetingInv, FreshInv, NEW c \in Container, StepOf(c)
  PROVE  FreshInv'
<1>1. /\ UNCHANGED <<wpc, i, reqNo, tasks, containers>>
      /\ prog \in [Container -> Job \cup {NoJob}] /\ reqNo \in Nat
  BY StepOfFrame, ProgType
<1>2. \A d \in Container : Given(d)' => Given(d)
  BY GivenBefore, StepOfOthers DEF Given, MeetingInv
<1>3. CASE prog' = prog
  BY <1>1, <1>2, <1>3 DEF FreshInv, ReadyAt
<1>4. CASE Launch(c) /\ prog' # prog
  <2>1. /\ Given(c) /\ ~Given(c)' /\ prog'[c][1] <= reqNo
        /\ \A d \in Container : d # c => prog'[d] = prog[d]
    BY <1>1, <1>4, ProgContainer
  <2>2. wpc \notin {"prepare", "write"}
    BY <2>1, NotBusyBefore
  <2>3. \A k \in 1..Len(containers) :
          ReadyAt(k) => containers[k] # c /\ containers[k] \in Container
    BY <2>1, ReadyWaits
  <2>4. \A d \in Container : prog'[d][1] <= reqNo'
    BY <1>1, <2>1 DEF FreshInv
  <2>5. \A d \in Container : Given(d)' => prog'[d][1] < reqNo'
    BY <1>1, <1>2, <2>1 DEF FreshInv
  <2>6. ASSUME NEW k \in 1..Len(containers'), ReadyAt(k)'
        PROVE  prog'[containers'[k]][1] < reqNo'
    <3>1. k \in 1..Len(containers) /\ ReadyAt(k)
      BY <1>1, <2>6 DEF ReadyAt
    <3> QED
      BY <1>1, <2>1, <2>3, <3>1 DEF FreshInv
  <2> QED
    BY <1>1, <2>2, <2>4, <2>5, <2>6 DEF FreshInv
<1> QED
  BY <1>3, <1>4, ProgContainer

LEMMA FreshWorker ==
  ASSUME Inv, MeetingInv, FreshInv, WorkerNext
  PROVE  FreshInv'
<1>1. /\ prog' = prog /\ reqNo \in Nat
      /\ \A c \in Container : prog[c][1] \in Nat
  BY WorkerLeaves, ProgType DEF MeetingInv, Inv, TypeOK, WorkerTypeOK
<1>2. /\ reqNo' = reqNo \/ (reqNo' = reqNo + 1 /\ wpc' \in {"prepare", "respond"})
      /\ \/ wpc' \notin {"prepare", "write"}
         \/ reqNo' = reqNo + 1
         \/ wpc \in {"prepare", "write"} /\ reqNo' = reqNo
  <2>1. CASE WorkerStep
    BY <2>1 DEF WorkerStep, PrepareContainer, ResetBarrier, SetTask, NextLoop,
         EnterMeeting, HandOver, WorkerArrives, WorkerStarts, ClosePipes,
         CollectResult, Reap, Collected, Respond, WorkerSigchld, WorkerEnds,
         WorkerAt
  <2>2. CASE ~WorkerStep
    BY <2>2 DEF WorkerNext, Accept, Reject, Stop, WorkerFails, WorkerEnds
  <2> QED
    BY <2>1, <2>2
<1>3. \A c \in Container : prog'[c][1] <= reqNo'
  BY <1>1, <1>2 DEF FreshInv
<1>4. wpc' \in {"prepare", "write"} => \A c \in Container : prog'[c][1] < reqNo'
  BY <1>1, <1>2 DEF FreshInv
<1>5. ASSUME NEW c \in Container, Given(c)'
      PROVE  prog'[c][1] < reqNo'
  <2>1. /\ reqNo' = reqNo
        /\ \/ Given(c)
           \/ EnterMeeting("meet", "meeting") /\ c = containers[i]
    BY <1>5, GivenWorkerBefore DEF MeetingInv
  <2>2. CASE Given(c)
    BY <1>1, <2>1, <2>2 DEF FreshInv
  <2>3. CASE EnterMeeting("meet", "meeting") /\ c = containers[i]
    <3>1. i \in 1..Len(containers) /\ ReadyAt(i)
      BY <2>3, MaxTasksAssumption
         DEF EnterMeeting, WorkerAt, MoreTasks, Inv, TypeOK, WorkerTypeOK,
             LoopInv, ReadyAt
    <3> QED
      BY <1>1, <2>1, <2>3, <3>1 DEF FreshInv
  <2> QED
    BY <2>1, <2>2, <2>3
<1>6. ASSUME NEW k \in 1..Len(containers'), ReadyAt(k)'
      PROVE  prog'[containers'[k]][1] < reqNo'
  <2>1. /\ UNCHANGED <<containers, tasks, reqNo>>
        /\ wpc = "write" \/ ReadyAt(k)
    BY <1>6, ReadyWorkerBefore
  <2>2. k \in 1..Len(containers) /\ containers[k] \in Container
    BY <2>1 DEF Inv, TypeOK, WorkerTypeOK
  <2> QED
    BY <1>1, <2>1, <2>2 DEF FreshInv
<1> QED
  BY <1>3, <1>4, <1>5, <1>6 DEF FreshInv

LEMMA CurrentContainer ==
  ASSUME Inv, MeetingInv, CurrentInv, FreshInv, NEW c \in Container, StepOf(c)
  PROVE  CurrentInv'
<1>1. UNCHANGED <<reqNo, containers>> /\ (Begun' <=> Begun)
  BY StepOfFrame, StepOfLoops DEF MeetingInv
<1>2. CASE prog' = prog /\ ~Launch(c)
  <2>1. \A d \in Container : Current(d)' <=> Current(d)
    BY <1>1, <1>2 DEF Current
  <2>2. \A d \in Container : Busy(d)' => Busy(d)
    BY <1>2, BusyContainer
  <2> QED
    BY <1>1, <2>1, <2>2 DEF CurrentInv
<1>3. CASE Launch(c)
  <2>1. /\ prog' = [prog EXCEPT ![c] = data[c].job]
        /\ \E k \in 1..Len(containers) :
             ForTask(c, k) /\ prog'[c] = <<reqNo, k>>
    BY <1>3, ProgContainer
  <2>2. Current(c)'
    BY <1>1, <2>1 DEF Current, ForTask
  <2>3. Begun
    <3>1. cpc[c] = "launch"
      BY <1>3 DEF Launch, ContainerAt
    <3>2. PICK pos \in Positions : /\ Match(pos, cpc[c], meet[c])
                                   /\ pos # "before" => Begun
      BY DEF MeetingInv, MeetInv
    <3> QED
      BY <3>1, <3>2, MatchTells DEF Working
  <2>4. ASSUME NEW d \in Container, d # c
        PROVE  (Current(d)' <=> Current(d)) /\ (Busy(d)' => Busy(d))
    <3>1. prog'[d] = prog[d]
      BY <2>1, <2>4, ProgType
    <3> QED
      BY <1>1, <2>4, <3>1, BusyContainer DEF Current
  <2> QED
    BY <1>1, <2>2, <2>3, <2>4 DEF CurrentInv
<1> QED
  BY <1>2, <1>3, ProgContainer

LEMMA CurrentWorker ==
  ASSUME Inv, MeetingInv, CurrentInv, FreshInv, WorkerNext
  PROVE  CurrentInv'
<1>1. prog' = prog
  BY WorkerLeaves DEF MeetingInv
<1>2. CASE \/ PrepareContainer \/ Collected \/ Reject
           \/ \E r \in Requests : Accept(r)
  <2>1. wpc \in {"prepare", "reap", "accept"}
    BY <1>2 DEF PrepareContainer, Collected, Reject, Accept, WorkerAt
  <2>2. ASSUME NEW c \in Container PROVE ~Busy(c)'
    BY <2>1, NotBusyBefore, BusyWorker
  <2>3. \/ containers' = <<>>
        \/ \A c \in Container : prog'[c][1] < reqNo'
    <3>1. CASE Collected
      BY <3>1 DEF Collected
    <3>2. CASE Reject \/ \E r \in Requests : Accept(r)
      <4>1. reqNo' = reqNo + 1
        BY <3>2 DEF Reject, Accept
      <4> QED
        BY <1>1, <4>1, ProgType DEF FreshInv
    <3>3. CASE PrepareContainer
      BY <1>1, <3>3 DEF PrepareContainer, WorkerAt, FreshInv
    <3> QED
      BY <1>2, <3>1, <3>2, <3>3
  <2>4. ASSUME NEW c \in Container PROVE ~Current(c)'
    <3>1. prog'[c][1] \in Nat /\ reqNo' \in Nat
      BY <1>1, <1>2, ProgType DEF PrepareContainer, Collected, Reject, Accept
    <3> QED
      BY <2>3, <3>1 DEF Current
  <2> QED
    BY <2>2, <2>4 DEF CurrentInv
<1>3. CASE ResetBarrier
  <2>1. Begun'
    BY <1>3, BegunWorker DEF ResetBarrier, BegunInv, MeetingInv
  <2>2. UNCHANGED <<containers, reqNo>>
    BY <1>3 DEF ResetBarrier
  <2> QED
    BY <1>1, <2>1, <2>2, BusyWorker DEF CurrentInv, Current
<1>4. CASE UNCHANGED <<containers, tasks, reqNo>> /\ start'.need = start.need
  BY <1>1, <1>4, BusyWorker DEF CurrentInv, Current, Begun
<1>5. CASE WorkerArrives \/ WorkerStarts
  <2>1. start'.need = start.need
    BY <1>5 DEF WorkerArrives, WorkerStarts, Arrive, Leave, Inv, TypeOK,
         SharedTypeOK, BarrierOver
  <2> QED
    BY <1>4, <1>5, <2>1 DEF WorkerArrives, WorkerStarts
<1>6. CASE /\ WorkerStep
           /\ ~PrepareContainer /\ ~Collected /\ ~ResetBarrier
           /\ ~WorkerArrives /\ ~WorkerStarts
  BY <1>4, <1>6 DEF WorkerStep, SetTask, NextLoop, EnterMeeting, HandOver,
       ClosePipes, CollectResult, Reap, Respond, WorkerSigchld, WorkerEnds
<1>7. CASE Stop \/ WorkerFails
  BY <1>4, <1>7 DEF Stop, WorkerFails, WorkerEnds
<1> QED
  BY <1>2, <1>3, <1>5, <1>6, <1>7 DEF WorkerNext

\* Who may be in the run start barrier: the worker, and the container and the
\* slave of every task.
StartParty(m) ==
  LET n == Len(containers) IN
  IF m = n * 2 + 1 THEN TheWorker
  ELSE IF m <= n THEN ContainerOf(containers[m])
  ELSE SlaveOf(containers[m - n])

\* Whoever is in the barrier is the worker, or belongs to a task at hand.
LEMMA WhoArrives ==
  ASSUME Inv, CurrentInv, NEW q \in start.waiting
  PROVE  \/ q = TheWorker
         \/ \E c \in Container : Current(c) /\ q \in {ContainerOf(c), SlaveOf(c)}
<1>1. q = TheWorker \/ \E c \in Container : q \in {ContainerOf(c), SlaveOf(c)}
  BY DEF Party, ContainerOf, SlaveOf, Inv, TypeOK, SharedTypeOK, BarrierOver
<1>2. ASSUME NEW c \in Container, q \in {ContainerOf(c), SlaveOf(c)}
      PROVE  Current(c)
  BY <1>2 DEF CurrentInv, Busy, InStart, Inside
<1> QED
  BY <1>1, <1>2

\* A round of the run start barrier completes when all parties are in it.
LEMMA EverybodyArrived ==
  ASSUME Inv, CurrentInv, Begun, NEW p, CompletesRound(start, p),
         \/ p = TheWorker
         \/ \E c \in Container : Current(c) /\ p \in {ContainerOf(c), SlaveOf(c)},
         NEW k \in 1..(Len(containers) * 2 + 1)
  PROVE  StartParty(k) \in start.waiting \cup {p}
<1> DEFINE W == start.waiting \cup {p}
<1>0. /\ Len(containers) \in Nat /\ containers \in Seq(Container)
      /\ Cardinality(W) = Len(containers) * 2 + 1
  BY DEF Begun, StartParties, CompletesRound, Inv, TypeOK, WorkerTypeOK
<1>1. ASSUME NEW q \in W
      PROVE  \/ q = TheWorker
             \/ \E c \in Container :
                  Current(c) /\ q \in {ContainerOf(c), SlaveOf(c)}
  BY WhoArrives
<1> SUFFICES ASSUME StartParty(k) \notin W PROVE FALSE
  OBVIOUS
<1> DEFINE S == (1..(Len(containers) * 2 + 1)) \ {k}
           f == [m \in S |-> StartParty(m)]
           T == {f[m] : m \in S}
<1>3. IsFiniteSet(S) /\ Cardinality(S) = Len(containers) * 2
  <2>1. /\ IsFiniteSet(1..(Len(containers) * 2 + 1))
        /\ Cardinality(1..(Len(containers) * 2 + 1)) = Len(containers) * 2 + 1
    BY <1>0, FS_Interval
  <2>2. /\ IsFiniteSet(S)
        /\ Cardinality(S) = Cardinality(1..(Len(containers) * 2 + 1)) - 1
    BY <2>1, FS_RemoveElement
  <2>3. (Len(containers) * 2 + 1) - 1 = Len(containers) * 2
    BY <1>0
  <2> HIDE DEF S
  <2> QED
    BY <2>1, <2>2, <2>3
<1>4. W \subseteq T
  <2> SUFFICES ASSUME NEW q \in W
               PROVE \E m \in 1..(Len(containers) * 2 + 1) : StartParty(m) = q
    OBVIOUS
  <2>1. CASE q = TheWorker
    <3>1. Len(containers) * 2 + 1 \in 1..(Len(containers) * 2 + 1)
      BY <1>0
    <3> QED
      BY <2>1, <3>1 DEF StartParty
  <2>2. ASSUME NEW c \in Container, Current(c), q \in {ContainerOf(c), SlaveOf(c)}
        PROVE  \E m \in 1..(Len(containers) * 2 + 1) : StartParty(m) = q
    <3>1. PICK m \in 1..Len(containers) : containers[m] = c
      BY <2>2 DEF Current
    <3>2. CASE q = ContainerOf(c)
      <4>1. /\ m \in 1..(Len(containers) * 2 + 1)
            /\ m # Len(containers) * 2 + 1 /\ m <= Len(containers)
        BY <1>0, <3>1
      <4> QED
        BY <3>1, <3>2, <4>1 DEF StartParty
    <3>3. CASE q = SlaveOf(c)
      <4>1. /\ m + Len(containers) \in 1..(Len(containers) * 2 + 1)
            /\ m + Len(containers) # Len(containers) * 2 + 1
            /\ ~(m + Len(containers) <= Len(containers))
            /\ (m + Len(containers)) - Len(containers) = m
        BY <1>0, <3>1
      <4> QED
        BY <3>1, <3>3, <4>1 DEF StartParty
    <3> QED
      BY <2>2, <3>2, <3>3
  <2> QED
    BY <1>1, <2>1, <2>2
<1>5. f \in Surjection(S, T)
  BY DEF Surjection
<1>6. IsFiniteSet(T) /\ Cardinality(T) <= Cardinality(S)
  BY <1>3, <1>5, FS_Surjection
<1>7. Cardinality(W) <= Cardinality(T)
  BY <1>4, <1>6, FS_Subset
<1>8. Cardinality(T) \in Nat
  BY <1>6, FS_CardinalityType
<1> HIDE DEF W, S, f, T
<1> QED
  BY <1>0, <1>3, <1>6, <1>7, <1>8

\* So all slaves are forked by then.
LEMMA AllArrived ==
  ASSUME Inv, CurrentInv, Begun, NEW p, CompletesRound(start, p),
         \/ p = TheWorker
         \/ \E c \in Container : Current(c) /\ p \in {ContainerOf(c), SlaveOf(c)}
  PROVE  AllPlaced
<1>0. /\ Len(containers) \in Nat /\ containers \in Seq(Container)
      /\ Len(tasks) = Len(containers)
  BY DEF Begun, Inv, TypeOK, WorkerTypeOK
<1> SUFFICES ASSUME NEW k \in 1..Len(containers)
             PROVE  prog[containers[k]] = <<reqNo, k>>
  BY <1>0 DEF AllPlaced
<1>1. k \in 1..(Len(containers) * 2 + 1) /\ k # Len(containers) * 2 + 1
      /\ containers[k] \in Container /\ k <= Len(containers)
  BY <1>0
<1>2. ContainerOf(containers[k]) \in start.waiting \cup {p}
  BY <1>1, EverybodyArrived DEF StartParty
<1>3. Current(containers[k])
  <2>1. PICK c \in Container :
          Current(c) /\ ContainerOf(containers[k]) \in {ContainerOf(c), SlaveOf(c)}
    BY <1>1, <1>2, WhoArrives, PartiesDiffer
  <2> QED
    BY <1>1, <2>1, PartiesDiffer
<1> QED
  BY <1>3 DEF Current, Inv, ContainersDistinct

LEMMA PlacedContainer ==
  ASSUME Inv, MeetingInv, CurrentInv, FreshInv, PlacedInv, NEW c \in Container,
         StepOf(c)
  PROVE  PlacedInv'
<1>1. UNCHANGED <<wpc, reqNo, tasks, containers>>
  BY StepOfFrame
<1>2. CASE Launch(c)
  <2>1. start' = start
    BY <1>2 DEF Launch
  <2>2. PICK k \in 1..Len(containers) : Given(c) /\ ForTask(c, k)
    BY <1>2, ProgContainer
  <2>3. prog[c][1] < reqNo /\ prog[c][1] \in Nat /\ reqNo \in Nat
    BY <2>2, ProgType DEF FreshInv
  <2>4. ASSUME AllPlaced PROVE FALSE
    <3>1. prog[c] = <<reqNo, k>>
      BY <2>2, <2>4 DEF AllPlaced, ForTask
    <3>2. prog[c][1] = reqNo
      BY <3>1
    <3> QED
      BY <2>3, <3>2
  <2> QED
    BY <1>1, <2>1, <2>4 DEF PlacedInv
<1>3. CASE ~Launch(c)
  <2>1. AllPlaced' <=> AllPlaced
    BY <1>1, <1>3, ProgContainer DEF AllPlaced
  <2>2. CASE start'.leaving \subseteq start.leaving
    BY <1>1, <2>1, <2>2 DEF PlacedInv
  <2>3. ASSUME NEW p \in {ContainerOf(c), SlaveOf(c)}, start' = Arrive(start, p),
               Busy(c)
        PROVE  PlacedInv'
    <3>1. CASE CompletesRound(start, p)
      <4>1. AllPlaced
        BY <2>3, <3>1, AllArrived DEF CurrentInv
      <4> QED
        BY <2>1, <4>1 DEF PlacedInv
    <3>2. CASE ~CompletesRound(start, p)
      <4>1. start'.leaving = start.leaving
        BY <2>3, <3>2
           DEF Arrive, Inv, TypeOK, SharedTypeOK, BarrierOver
      <4> QED
        BY <2>2, <4>1
    <3> QED
      BY <3>1, <3>2
  <2>4. CASE ContainerArrives(c)
    <3>1. Busy(c) /\ start' = Arrive(start, ContainerOf(c))
      BY <2>4 DEF ContainerArrives, ContainerAt, Busy, Working
    <3> QED
      BY <2>3, <3>1
  <2>5. CASE SlaveArrives(c)
    <3>1. Busy(c) /\ start' = Arrive(start, SlaveOf(c))
      BY <2>5 DEF SlaveArrives, Busy
    <3> QED
      BY <2>3, <3>1
  <2>6. CASE ContainerStarts(c) \/ SlaveStarts(c)
    <3>1. start'.leaving \subseteq start.leaving
      BY <2>6 DEF ContainerStarts, SlaveStarts, Leave, Inv, TypeOK,
           SharedTypeOK, BarrierOver
    <3> QED
      BY <2>2, <3>1
  <2>7. CASE start' = start
    BY <2>2, <2>7
  <2>8. CASE ContainerStep(c) /\ ~ContainerArrives(c) /\ ~ContainerStarts(c)
    BY <1>3, <2>7, <2>8 DEF ContainerStep, Arm, PrepareRoot, AwaitTask, TakeTask,
         Measure, Deliver, Delivered, Cleanup, ContainerSigchld, ContainerGone
  <2>9. CASE ~ContainerStep(c) /\ ~SlaveArrives(c) /\ ~SlaveStarts(c)
    BY <2>7, <2>9 DEF StepOf, TimeLimit, ContainerFails, SlaveStep, Exec,
         SlaveFails, ProgramEnds
  <2> QED
    BY <2>4, <2>5, <2>6, <2>8, <2>9
<1> QED
  BY <1>2, <1>3

LEMMA PlacedWorker ==
  ASSUME Inv, MeetingInv, CurrentInv, PlacedInv, WorkerNext
  PROVE  PlacedInv'
<1>1. prog' = prog
  BY WorkerLeaves DEF MeetingInv
<1>2. CASE /\ UNCHANGED <<reqNo, tasks, containers>>
           /\ start'.leaving \subseteq start.leaving
           /\ wpc' \in {"close", "collect", "collecting", "reap"} =>
                start.leaving # {}
                  \/ wpc \in {"close", "collect", "collecting", "reap"}
  <2>1. AllPlaced' <=> AllPlaced
    BY <1>1, <1>2 DEF AllPlaced
  <2> QED
    BY <1>2, <2>1 DEF PlacedInv
<1>3. CASE WorkerArrives
  <2>1. /\ start' = Arrive(start, TheWorker) /\ wpc = "meet"
        /\ wpc' = "starting" /\ UNCHANGED <<reqNo, tasks, containers>>
    BY <1>3 DEF WorkerArrives, WorkerAt
  <2>2. CASE CompletesRound(start, TheWorker)
    <3>1. AllPlaced
      BY <2>1, <2>2, AllArrived DEF MeetingInv, BegunInv
    <3> QED
      BY <1>1, <2>1, <3>1 DEF PlacedInv, AllPlaced
  <2>3. CASE ~CompletesRound(start, TheWorker)
    <3>1. start'.leaving = start.leaving
      BY <2>1, <2>3 DEF Arrive, Inv, TypeOK, SharedTypeOK, BarrierOver
    <3> QED
      BY <1>2, <2>1, <3>1
  <2> QED
    BY <2>2, <2>3
<1>4. CASE WorkerStarts
  <2>1. start' = Leave(start, TheWorker) /\ Released(start, TheWorker)
        /\ UNCHANGED <<reqNo, tasks, containers>>
    BY <1>4 DEF WorkerStarts
  <2>2. start'.leaving \subseteq start.leaving /\ start.leaving # {}
    BY <2>1 DEF Leave, Released, Inv, TypeOK, SharedTypeOK, BarrierOver
  <2> QED
    BY <1>2, <2>1, <2>2
<1>5. CASE \/ PrepareContainer \/ ResetBarrier \/ Collected \/ Reject
           \/ \E r \in Requests : Accept(r)
  <2>1. /\ wpc \in {"prepare", "reap", "accept"}
        /\ wpc' \notin {"close", "collect", "collecting", "reap"}
        /\ start' = start \/ start' = NewBarrier(StartParties(Len(containers)))
    BY <1>5 DEF PrepareContainer, ResetBarrier, Collected, Reject, Accept, WorkerAt
  <2>2. start'.leaving = {}
    BY <2>1, NobodyInside DEF NewBarrier
  <2> QED
    BY <2>1, <2>2 DEF PlacedInv
<1>6. CASE /\ WorkerStep /\ ~PrepareContainer /\ ~ResetBarrier /\ ~Collected
           /\ ~WorkerArrives /\ ~WorkerStarts
  BY <1>2, <1>6 DEF WorkerStep, SetTask, NextLoop, EnterMeeting, HandOver,
       ClosePipes, CollectResult, Reap, Respond, WorkerSigchld, WorkerEnds,
       WorkerAt
<1>7. CASE Stop \/ WorkerFails
  BY <1>2, <1>7 DEF Stop, WorkerFails, WorkerEnds
<1> QED
  BY <1>3, <1>4, <1>5, <1>6, <1>7 DEF WorkerNext

LEMMA PipeContainer ==
  ASSUME Inv, MeetingInv, PipeInv, NEW c \in Container, StepOf(c)
  PROVE  PipeInv'
<1>1. UNCHANGED <<wpc, i, tasks, containers>> /\ pipes' = pipes
  <2>1. CASE ContainerStep(c)
    BY <2>1, StepOfFrame DEF ContainerStep, Arm, PrepareRoot, AwaitTask,
         TakeTask, Launch, ContainerArrives, ContainerStarts, Measure, Deliver,
         Delivered, Cleanup, ContainerSigchld, ContainerGone
  <2>2. CASE ~ContainerStep(c)
    BY <2>2, StepOfFrame DEF StepOf, TimeLimit, ContainerFails, SlaveStep,
         SlaveArrives, SlaveStarts, Exec, SlaveFails, ProgramEnds
  <2> QED
    BY <2>1, <2>2
<1>2. ASSUME NEW d \in Container, Given(d)', data'[d].task.pipe
      PROVE  pipes'
  <2>1. Given(d) /\ data'[d] = data[d]
    <3>1. CASE d = c
      BY <1>2, <3>1, GivenBefore DEF MeetingInv
    <3>2. CASE d # c
      BY <1>2, <3>2, StepOfOthers DEF Given
    <3> QED
      BY <3>1, <3>2
  <2> QED
    BY <1>1, <1>2, <2>1 DEF PipeInv
<1>3. ASSUME NEW d \in Container, spc'[d] # "absent", data'[d].task.pipe
      PROVE  d \in fds'
  <2>1. CASE d # c
    <3>1. spc'[d] = spc[d] /\ data'[d] = data[d]
      BY <2>1, StepOfOthers
    <3>2. d \in fds' <=> d \in fds
      <4>1. CASE Launch(c)
        BY <2>1, <4>1 DEF Launch
      <4> QED
        BY <4>1, ProgContainer
    <3> QED
      BY <1>3, <3>1, <3>2 DEF PipeInv
  <2>2. CASE d = c /\ Launch(c)
    <3>1. Given(c) /\ data'[c] = data[c]
      BY <2>2, ProgContainer DEF Launch
    <3>2. pipes
      BY <1>3, <2>2, <3>1 DEF PipeInv
    <3> QED
      BY <2>2, <3>2 DEF Launch
  <2>3. CASE d = c /\ ~Launch(c)
    <3>0. /\ spc \in [Container -> SlavePc] /\ data \in [Container -> TaskData]
      BY DEF Inv, TypeOK, SlaveTypeOK, SharedTypeOK
    <3>1. spc[c] # "absent" /\ data'[c].task = data[c].task
      <4>1. CASE ContainerStep(c)
        BY <1>3, <2>3, <3>0, <4>1 DEF TaskData, slaveVars, ContainerStep, Arm,
             PrepareRoot, AwaitTask, TakeTask, ContainerArrives, ContainerStarts,
             Measure, Deliver, Delivered, Cleanup, ContainerSigchld,
             ContainerGone
      <4>2. CASE ~ContainerStep(c)
        BY <1>3, <2>3, <3>0, <4>2 DEF TaskData, slaveVars, StepOf, TimeLimit,
             ContainerFails, SlaveStep, SlaveArrives, SlaveStarts, Exec,
             SlaveFails, ProgramEnds, Live
      <4> QED
        BY <4>1, <4>2
    <3>2. fds' = fds
      BY <2>3, ProgContainer
    <3> QED
      BY <1>3, <2>3, <3>1, <3>2 DEF PipeInv
  <2> QED
    BY <2>1, <2>2, <2>3
<1> QED
  BY <1>1, <1>2, <1>3 DEF PipeInv, ReadyAt

LEMMA PipeWorker ==
  ASSUME Inv, MeetingInv, FreshInv, PlacedInv, PipeInv, WorkerNext
  PROVE  PipeInv'
<1>1. UNCHANGED <<spc, fds>>
  BY WorkerLeaves DEF MeetingInv
<1>2. /\ data' = data \/ PrepareContainer \/ SetTask
      /\ (pipes => pipes') \/ ClosePipes
  <2>1. CASE PrepareContainer
    BY <2>1 DEF PrepareContainer
  <2>2. CASE SetTask
    BY <2>2 DEF SetTask
  <2>3. CASE ClosePipes
    BY <2>3 DEF ClosePipes
  <2>4. CASE WorkerStep /\ ~PrepareContainer /\ ~SetTask /\ ~ClosePipes
    BY <2>4 DEF WorkerStep, ResetBarrier, NextLoop, EnterMeeting, HandOver,
         WorkerArrives, WorkerStarts, CollectResult, Reap, Collected, Respond,
         WorkerSigchld, WorkerEnds
  <2>5. CASE WorkerNext /\ ~WorkerStep
    BY <2>5 DEF WorkerNext, Accept, Reject, Stop, WorkerFails, WorkerEnds
  <2> QED
    BY <2>1, <2>2, <2>3, <2>4, <2>5
<1>3. ASSUME NEW c \in Container, Given(c)', data'[c].task.pipe
      PROVE  pipes'
  <2>1. /\ data'[c] = data[c]
        /\ Given(c) \/ (EnterMeeting("meet", "meeting") /\ c = containers[i])
    BY <1>3, GivenWorkerBefore DEF MeetingInv
  <2>2. CASE Given(c)
    <3>1. pipes
      BY <1>3, <2>1, <2>2 DEF PipeInv
    <3>2. CASE ClosePipes
      <4>1. AllPlaced
        BY <3>2 DEF ClosePipes, WorkerAt, PlacedInv
      <4>2. PICK k \in 1..Len(containers) : ForTask(c, k)
        BY <2>2 DEF MeetingInv, GivenInv
      <4>3. prog[c] = <<reqNo, k>>
        BY <4>1, <4>2 DEF AllPlaced, ForTask
      <4>4. prog[c][1] = reqNo /\ prog[c][1] < reqNo /\ reqNo \in Nat
        BY <2>2, <4>3, ProgType DEF FreshInv
      <4> QED
        BY <4>4
    <3> QED
      BY <1>2, <3>1, <3>2
  <2>3. CASE EnterMeeting("meet", "meeting") /\ c = containers[i]
    <3>1. i \in 1..Len(containers) /\ ReadyAt(i) /\ pipes' = pipes
      BY <2>3, MaxTasksAssumption
         DEF EnterMeeting, WorkerAt, MoreTasks, Inv, TypeOK, WorkerTypeOK,
             LoopInv, ReadyAt
    <3>2. data[c] = TaskDataFor(<<reqNo, i>>, tasks[i])
      BY <2>3, <3>1 DEF MeetingInv, ReadyInv, ForTask
    <3>3. data[c].task = tasks[i]
      BY <3>2 DEF TaskDataFor
    <3> QED
      BY <1>3, <2>1, <3>1, <3>3 DEF PipeInv
  <2> QED
    BY <2>1, <2>2, <2>3
<1>4. ASSUME NEW c \in Container, spc'[c] # "absent", data'[c].task.pipe
      PROVE  c \in fds'
  <2>1. wpc \notin {"prepare", "write"}
    BY <1>1, <1>4, NotBusyBefore DEF Busy
  <2>2. data' = data
    BY <1>2, <2>1 DEF PrepareContainer, SetTask, WorkerAt
  <2> QED
    BY <1>1, <1>4, <2>2 DEF PipeInv
<1>5. ASSUME NEW k \in 1..Len(containers'), ReadyAt(k)', tasks'[k].pipe
      PROVE  pipes'
  <2>1. UNCHANGED <<containers, tasks>> /\ k \in 1..Len(containers)
    BY <1>5, ReadyWorkerBefore
  <2>2. CASE SetTask /\ k = i
    BY <1>5, <2>1, <2>2 DEF SetTask
  <2>3. CASE ReadyAt(k)
    <3>1. pipes
      BY <1>5, <2>1, <2>3 DEF PipeInv
    <3>2. ~ClosePipes
      BY <1>5 DEF ClosePipes, ReadyAt
    <3> QED
      BY <1>2, <3>1, <3>2
  <2>4. SetTask /\ k # i => ReadyAt(k)
    BY <1>5, <2>1, ReadyWorkerBefore, MaxTasksAssumption
       DEF SetTask, WorkerAt, ReadyAt, Inv, TypeOK, WorkerTypeOK
  <2> QED
    BY <1>5, <2>2, <2>3, <2>4, ReadyWorkerBefore
<1> QED
  BY <1>3, <1>4, <1>5 DEF PipeInv
-----------------------------------------------------------------------------
LEMMA RunInit == Init => RunInv
<1> SUFFICES ASSUME Init PROVE RunInv
  OBVIOUS
<1> USE DEF Init
<1>1. \A p : ~InStart(p)
  BY DEF InStart, Inside, NewBarrier
<1>2. \A c \in Container : ~Busy(c) /\ ~Current(c) /\ ~Given(c)
  BY <1>1, BarHolds DEF Busy, Current, Given, Working, Resting
<1>3. \A c \in Container : prog[c][1] = 0
  BY DEF NoJob
<1>4. CurrentInv /\ FreshInv
  BY <1>2, <1>3 DEF CurrentInv, FreshInv
<1>5. PlacedInv /\ PipeInv
  BY <1>2 DEF PlacedInv, PipeInv, NewBarrier, ReadyAt
<1> QED
  BY <1>4, <1>5 DEF RunInv

LEMMA RunNext == Inv /\ MeetingInv /\ RunInv /\ [Next]_vars => RunInv'
<1> SUFFICES ASSUME Inv, MeetingInv, RunInv, [Next]_vars PROVE RunInv'
  OBVIOUS
<1> USE DEF RunInv
<1>1. CASE WorkerNext
  BY <1>1, CurrentWorker, FreshWorker, PlacedWorker, PipeWorker
<1>2. ASSUME NEW c \in Container, StepOf(c) PROVE RunInv'
  BY <1>2, CurrentContainer, FreshContainer, PlacedContainer, PipeContainer
<1>3. CASE UNCHANGED vars
  <2> USE <1>3 DEF vars, workerVars, containerVars, slaveVars
  <2>1. CurrentInv' /\ FreshInv'
    BY DEF CurrentInv, Busy, Current, Begun, InStart, FreshInv, Given, ReadyAt
  <2>2. PlacedInv' /\ PipeInv'
    BY DEF PlacedInv, AllPlaced, PipeInv, Given, ReadyAt
  <2> QED
    BY <2>1, <2>2
<1> QED
  BY <1>1, <1>2, <1>3, NextSplit

\* All runs are of the request at hand, and none begins before all are forked.
THEOREM RunsInvariance == Spec => [](Inv /\ MeetingInv /\ RunInv)
<1>1. Init => Inv /\ MeetingInv /\ RunInv
  BY InitInv, MeetingInit, RunInit
<1>2. (Inv /\ MeetingInv /\ RunInv) /\ [Next]_vars
        => (Inv /\ MeetingInv /\ RunInv)'
  BY NextInv, MeetingNext, RunNext
<1> QED
  BY <1>1, <1>2, PTL DEF Spec

\* A slave whose task uses a pipe was forked before close_pipes().
THEOREM PipesAlwaysInherited == Spec => []PipesInherited
<1>1. RunInv => PipesInherited
  BY DEF RunInv, PipeInv, PipesInherited, Live
<1> QED
  BY <1>1, RunsInvariance, PTL
-----------------------------------------------------------------------------
(* What is answered.                                                       *)

\* The task data hold the result of the task of the request at hand for which
\* c forked, and the program was executed.
HasResult(c) ==
  /\ Current(c)
  /\ data[c].result.job = prog[c]
  /\ data[c].result.kind \in {"exited", "limit"}

ResultInv ==
  \A c \in Container :
    /\ spc[c] # "absent" => data[c].result = NoResult
    /\ cpc[c] = "finish" => HasResult(c)
    /\ wpc # "dead" /\ Finished(c) /\ Position(c) # "before" => HasResult(c)

\* The answers collected so far are in the order of the tasks.
AnswersInv ==
  /\ wpc \in {"prepare", "write", "meet", "meeting", "starting", "close"} =>
       answers = <<>>
  /\ wpc \in {"collect", "collecting"} => Len(answers) = i - 1
  /\ wpc = "reap" => Len(answers) = Len(tasks)
  /\ wpc \in {"collect", "collecting", "reap"} =>
       \A k \in 1..Len(answers) :
         answers[k] = data[containers[k]].result /\ HasResult(containers[k])

OutcomeInv == ResultInv /\ AnswersInv

LEMMA ResultKept ==
  ASSUME NEW c \in Container, UNCHANGED <<containers, reqNo>>,
         prog'[c] = prog[c], data'[c] = data[c], HasResult(c)
  PROVE  HasResult(c)'
BY DEF HasResult, Current

\* Nothing happens to the run of a container that is at rest.
LEMMA RestingKeeps ==
  ASSUME Inv, NEW c \in Container, StepOf(c), spc[c] = "absent",
         cpc[c] \notin Working
  PROVE  data' = data /\ prog' = prog
<1>1. CASE ContainerStep(c)
  BY <1>1 DEF Working, slaveVars, ContainerStep, ContainerAt, Arm, PrepareRoot,
       AwaitTask, TakeTask, Launch, ContainerArrives, ContainerStarts, Measure,
       Deliver, Delivered, Cleanup, ContainerSigchld, ContainerGone
<1>2. CASE ~ContainerStep(c)
  BY <1>2 DEF Working, Live, slaveVars, StepOf, TimeLimit, ContainerFails,
       SlaveStep, SlaveArrives, SlaveStarts, Exec, SlaveFails, ProgramEnds
<1> QED
  BY <1>1, <1>2

\* Nor does the worker disturb a run.
LEMMA RunFrame ==
  ASSUME Inv, MeetingInv, WorkerNext,
         wpc \notin {"accept", "prepare", "write", "reap"}
  PROVE  UNCHANGED <<data, containers, tasks, reqNo, prog, spc>>
<1>1. UNCHANGED <<prog, spc>>
  BY WorkerLeaves DEF MeetingInv
<1>2. UNCHANGED <<data, containers, tasks, reqNo>>
  <2>1. CASE WorkerStep
    BY <2>1 DEF WorkerStep, PrepareContainer, ResetBarrier, SetTask, NextLoop,
         EnterMeeting, HandOver, WorkerArrives, WorkerStarts, ClosePipes,
         CollectResult, Reap, Collected, Respond, WorkerSigchld, WorkerEnds,
         WorkerAt
  <2>2. CASE ~WorkerStep
    BY <2>2 DEF WorkerNext, Accept, Reject, Stop, WorkerFails, WorkerEnds,
         WorkerAt
  <2> QED
    BY <2>1, <2>2
<1> QED
  BY <1>1, <1>2

LEMMA MeasuredResult ==
  ASSUME Inv, MeetingInv, RunInv, NEW c \in Container, Measure(c),
         cpc'[c] = "finish"
  PROVE  HasResult(c)'
<1>1. /\ cpc \in [Container -> ContainerPc] /\ spc \in [Container -> SlavePc]
      /\ data \in [Container -> TaskData]
  BY DEF Inv, TypeOK, ContainerTypeOK, SlaveTypeOK, SharedTypeOK
<1>2. /\ spc[c] \in {"failed", "ended"} /\ ~data[c].error
      /\ data' = [data EXCEPT ![c].result = OutcomeOf(c)]
      /\ UNCHANGED <<containers, reqNo, prog>>
  BY <1>1 DEF Measure, workerVars
<1>3. spc[c] # "failed"
  BY <1>2 DEF MeetingInv, StartInv, StartAt
<1>4. Current(c)
  BY <1>2 DEF RunInv, CurrentInv, Busy
<1>5. data'[c].result = OutcomeOf(c)
  BY <1>1, <1>2 DEF TaskData
<1>6. OutcomeOf(c).job = prog[c] /\ OutcomeOf(c).kind \in {"exited", "limit"}
  BY <1>3 DEF OutcomeOf
<1> QED
  BY <1>2, <1>4, <1>5, <1>6 DEF HasResult, Current

LEMMA ResultContainer ==
  ASSUME Inv, MeetingInv, RunInv, ResultInv, NEW c \in Container, StepOf(c)
  PROVE  ResultInv'
<1>0. /\ cpc \in [Container -> ContainerPc] /\ spc \in [Container -> SlavePc]
      /\ data \in [Container -> TaskData]
      /\ UNCHANGED <<wpc, containers, reqNo>>
      /\ \A d \in Container : Position(d)' = Position(d)
  BY StepOfFrame DEF Inv, TypeOK, ContainerTypeOK, SlaveTypeOK, SharedTypeOK
<1>1. ASSUME NEW d \in Container, d # c
      PROVE  /\ spc'[d] # "absent" => data'[d].result = NoResult
             /\ cpc'[d] = "finish" => HasResult(d)'
             /\ wpc' # "dead" /\ Finished(d)' /\ Position(d)' # "before" =>
                  HasResult(d)'
  <2>1. /\ spc'[d] = spc[d] /\ cpc'[d] = cpc[d] /\ data'[d] = data[d]
        /\ prog'[d] = prog[d] /\ meet'[d] = meet[d]
    BY <1>1, StepOfOthers
  <2>2. HasResult(d) => HasResult(d)'
    BY <1>0, <2>1, ResultKept
  <2>3. Finished(d)' <=> Finished(d)
    BY <1>0, <2>1 DEF Finished
  <2> QED
    BY <1>0, <2>1, <2>2, <2>3 DEF ResultInv
<1>2. ASSUME spc'[c] # "absent" PROVE data'[c].result = NoResult
  <2>1. CASE Launch(c)
    <3>1. PICK k \in 1..Len(containers) : ForTask(c, k)
      BY <2>1, ProgContainer
    <3>2. data' = data /\ data[c] = TaskDataFor(<<reqNo, k>>, tasks[k])
      BY <2>1, <3>1 DEF Launch, ForTask
    <3> QED
      BY <3>2 DEF TaskDataFor
  <2>2. CASE ~Launch(c)
    <3>1. spc[c] # "absent" /\ data'[c].result = data[c].result
      <4>1. CASE ContainerStep(c)
        BY <1>0, <1>2, <2>2, <4>1 DEF slaveVars, ContainerStep, Arm, PrepareRoot,
             AwaitTask, TakeTask, ContainerArrives, ContainerStarts, Measure,
             Deliver, Delivered, Cleanup, ContainerSigchld, ContainerGone
      <4>2. CASE ~ContainerStep(c)
        BY <1>0, <1>2, <2>2, <4>2 DEF TaskData, slaveVars, StepOf, TimeLimit,
             ContainerFails, SlaveStep, SlaveArrives, SlaveStarts, Exec,
             SlaveFails, ProgramEnds, Live
      <4> QED
        BY <4>1, <4>2
    <3> QED
      BY <3>1 DEF ResultInv
  <2> QED
    BY <2>1, <2>2
<1>3. ASSUME cpc'[c] = "finish" PROVE HasResult(c)'
  <2>1. CASE Measure(c)
    BY <1>3, <2>1, MeasuredResult
  <2>2. CASE cpc[c] = "finish" /\ ~Measure(c)
    <3>1. spc[c] = "absent"
      BY <2>2 DEF MeetingInv, LocalInv, LocalAt
    <3>2. data' = data /\ prog' = prog
      <4>1. CASE ContainerStep(c)
        BY <2>2, <4>1 DEF slaveVars, ContainerStep, ContainerAt, Arm, PrepareRoot,
             AwaitTask, TakeTask, Launch, ContainerArrives, ContainerStarts,
             Deliver, Delivered, Cleanup, ContainerSigchld, ContainerGone
      <4>2. CASE ~ContainerStep(c)
        BY <3>1, <4>2 DEF slaveVars, StepOf, TimeLimit, ContainerFails,
             SlaveStep, SlaveArrives, SlaveStarts, Exec, SlaveFails,
             ProgramEnds, Live
      <4> QED
        BY <4>1, <4>2
    <3> QED
      BY <1>0, <2>2, <3>2, ResultKept DEF ResultInv
  <2>3. Measure(c) \/ cpc[c] = "finish"
    <3>1. CASE ContainerStep(c)
      BY <1>0, <1>3, <3>1 DEF ContainerStep, Arm, PrepareRoot, AwaitTask,
           TakeTask, Launch, ContainerArrives, ContainerStarts, Deliver,
           Delivered, Cleanup, ContainerSigchld, ContainerDies, ContainerGone
    <3>2. CASE ~ContainerStep(c)
      BY <1>0, <1>3, <3>2 DEF containerVars, StepOf, TimeLimit, ContainerFails,
           ContainerDies, SlaveStep, SlaveArrives, SlaveStarts, Exec,
           SlaveFails, ProgramEnds
    <3> QED
      BY <3>1, <3>2
  <2> QED
    BY <2>1, <2>2, <2>3
<1>4. ASSUME wpc # "dead", Finished(c)', Position(c) # "before"
      PROVE  HasResult(c)'
  <2>1. CASE Finished(c)
    <3>1. cpc[c] \notin Working /\ spc[c] = "absent"
      BY <1>4, <2>1, FinishedRests DEF MeetingInv, DoneInv, Done
    <3>2. data' = data /\ prog' = prog
      BY <3>1, RestingKeeps
    <3> QED
      BY <1>0, <1>4, <2>1, <3>2, ResultKept DEF ResultInv
  <2>2. CASE ~Finished(c)
    <3>1. Deliver(c)
      BY <1>4, <2>2, FinishedByDelivery DEF MeetingInv
    <3>2. cpc[c] = "finish" /\ data' = data /\ prog' = prog
      BY <3>1 DEF Deliver, ContainerAt, slaveVars
    <3> QED
      BY <1>0, <3>2, ResultKept DEF ResultInv
  <2> QED
    BY <2>1, <2>2
<1> QED
  BY <1>0, <1>1, <1>2, <1>3, <1>4 DEF ResultInv

LEMMA ResultWorker ==
  ASSUME Inv, MeetingInv, RunInv, ResultInv, WorkerNext
  PROVE  ResultInv'
<1> SUFFICES ASSUME NEW c \in Container
             PROVE  /\ spc'[c] # "absent" => data'[c].result = NoResult
                    /\ cpc'[c] = "finish" => HasResult(c)'
                    /\ wpc' # "dead" /\ Finished(c)' /\ Position(c)' # "before"
                         => HasResult(c)'
  BY DEF ResultInv
<1>1. CASE wpc \notin {"accept", "prepare", "write", "reap"}
  <2>1. UNCHANGED <<data, containers, reqNo, prog, spc>>
    BY <1>1, RunFrame
  <2>2. HasResult(c) => HasResult(c)'
    BY <2>1, ResultKept
  <2>3. cpc'[c] = "finish" => cpc[c] = "finish"
    BY WorkerStopsWork DEF Working
  <2>4. wpc' # "dead" /\ Finished(c)' /\ Position(c)' # "before" =>
          wpc # "dead" /\ Finished(c) /\ Position(c) # "before"
    BY FinishedWorker DEF MeetingInv
  <2> QED
    BY <2>1, <2>2, <2>3, <2>4 DEF ResultInv
<1>2. CASE wpc \in {"accept", "prepare", "write", "reap"}
  <2>1. ~Busy(c) /\ Position(c) = "before"
    BY <1>2, NotBusyBefore, SeenOutside DEF Position
  <2>2. spc'[c] = "absent"
    BY <2>1, WorkerLeaves DEF Busy, MeetingInv
  <2>3. cpc'[c] # "finish"
    BY <2>1, WorkerStopsWork DEF Working, Busy
  <2>4. wpc' # "dead" /\ Finished(c)' => Position(c)' = "before"
    BY <2>1, FinishedWorker DEF MeetingInv
  <2> QED
    BY <2>2, <2>3, <2>4
<1> QED
  BY <1>1, <1>2

LEMMA AnswersContainer ==
  ASSUME Inv, MeetingInv, AnswersInv, NEW c \in Container, StepOf(c)
  PROVE  AnswersInv'
<1>1. UNCHANGED <<wpc, i, reqNo, tasks, containers, answers>>
  BY StepOfFrame
<1>2. ASSUME wpc \in {"collect", "collecting", "reap"},
             NEW k \in 1..Len(answers)
      PROVE  /\ answers[k] = data'[containers[k]].result
             /\ HasResult(containers[k])'
  <2>1. /\ k \in 1..Len(containers) /\ containers[k] \in Container
        /\ i \in Nat /\ Len(answers) \in Nat
        /\ wpc # "reap" => k < i
    BY <1>2, MaxTasksAssumption
       DEF AnswersInv, Inv, TypeOK, WorkerTypeOK, LoopInv
  <2>2. Position(containers[k]) = "before"
    <3>1. SeenFrom(wpc, i, containers, containers[k]) = Seen(wpc, i, k)
      BY <2>1, SeenAt DEF Inv, ContainersDistinct
    <3> QED
      BY <1>2, <2>1, <3>1 DEF Position, Seen
  <2>3. Done(containers[k]) /\ cpc[containers[k]] \notin Working
    BY <1>2, <2>1, <2>2, IdleBefore
  <2>4. /\ data'[containers[k]] = data[containers[k]]
        /\ prog'[containers[k]] = prog[containers[k]]
    <3>1. CASE containers[k] = c
      BY <2>3, <3>1, RestingKeeps DEF Done
    <3>2. CASE containers[k] # c
      BY <2>1, <3>2, StepOfOthers
    <3> QED
      BY <3>1, <3>2
  <2>5. answers[k] = data[containers[k]].result /\ HasResult(containers[k])
    BY <1>2 DEF AnswersInv
  <2>6. ASSUME NEW d \in Container, d = containers[k] PROVE HasResult(d)'
    BY <1>1, <2>4, <2>5, <2>6, ResultKept
  <2>7. HasResult(containers[k])'
    BY <1>1, <2>1, <2>6
  <2> QED
    BY <1>1, <2>4, <2>5, <2>7
<1> QED
  BY <1>1, <1>2 DEF AnswersInv

LEMMA AnswersWorker ==
  ASSUME Inv, MeetingInv, RunInv, ResultInv, AnswersInv, WorkerNext
  PROVE  AnswersInv'
<1>0. /\ i \in Nat /\ Len(tasks) \in Nat /\ answers \in Seq(Result)
      /\ containers \in Seq(Container) /\ Len(answers) \in Nat
  BY MaxTasksAssumption DEF Inv, TypeOK, WorkerTypeOK
<1>1. ASSUME answers' = answers,
             wpc' \in {"collect", "collecting", "reap"} =>
               wpc \in {"collect", "collecting", "reap"},
             UNCHANGED <<data, containers, tasks, reqNo, prog>>
      PROVE  wpc' \in {"collect", "collecting", "reap"} =>
               \A k \in 1..Len(answers') :
                 /\ answers'[k] = data'[containers'[k]].result
                 /\ HasResult(containers[k])'
  BY <1>1 DEF AnswersInv, HasResult, Current
<1>2. CASE \/ Reject \/ Collected \/ Respond \/ Stop \/ WorkerFails
           \/ WorkerSigchld /\ wpc' = "dead"
  BY <1>2 DEF Reject, Collected, Respond, Stop, WorkerFails, WorkerEnds,
       AnswersInv
<1>3. CASE \E r \in Requests : Accept(r)
  BY <1>3 DEF Accept, AnswersInv
<1>4. CASE \/ PrepareContainer \/ ResetBarrier \/ SetTask
           \/ EnterMeeting("meet", "meeting") \/ HandOver
           \/ WorkerArrives \/ WorkerStarts
           \/ NextLoop /\ wpc = "write"
  BY <1>4 DEF PrepareContainer, ResetBarrier, SetTask, EnterMeeting, HandOver,
       WorkerArrives, WorkerStarts, NextLoop, WorkerAt, AnswersInv
<1>5. CASE ClosePipes
  BY <1>5 DEF ClosePipes, WorkerAt, AnswersInv
<1>6. CASE \/ NextLoop /\ wpc = "collect"
           \/ EnterMeeting("collect", "collecting")
  <2>1. wpc = "collect" /\ wpc' \in {"collecting", "reap"} /\ answers' = answers
        /\ UNCHANGED <<data, containers, tasks, reqNo, prog>>
    BY <1>6, RunFrame DEF NextLoop, EnterMeeting, WorkerAt, WorkerNext, WorkerStep
  <2>2. Len(answers) = i - 1
    BY <2>1 DEF AnswersInv
  <2>3. /\ wpc' = "collecting" => i' = i
        /\ wpc' = "reap" => i > Len(tasks) /\ i <= Len(tasks) + 1
    BY <1>0, <1>6, <2>1 DEF NextLoop, EnterMeeting, WorkerAt, MoreTasks, Inv,
         LoopInv
  <2> QED
    BY <1>0, <1>1, <2>1, <2>2, <2>3 DEF AnswersInv
<1>7. CASE CollectResult
  <2>1. /\ wpc = "collecting" /\ wpc' = "collect" /\ i' = i + 1
        /\ answers' = Append(answers, data[containers[i]].result)
        /\ UNCHANGED <<data, containers, tasks, reqNo, prog>>
    BY <1>7, RunFrame DEF CollectResult, WorkerAt, WorkerNext, WorkerStep
  <2>2. Len(answers) = i - 1 /\ Len(answers') = i
    BY <1>0, <2>1 DEF AnswersInv
  <2>3. HasResult(containers[i])
    <3>0. containers[i] \in Container
      BY <2>1, MaxTasksAssumption DEF Inv, TypeOK, WorkerTypeOK, LoopInv
    <3>1. containers[i] \in Container /\ Position(containers[i]) = "taking"
      BY <1>7, <3>0, PositionMoves
    <3>2. Finished(containers[i])
      BY <1>7, <3>1 DEF CollectResult, Released, Finished
    <3> QED
      BY <2>1, <3>1, <3>2 DEF ResultInv
  <2>4. ASSUME NEW k \in 1..i
        PROVE  /\ answers'[k] = data[containers[k]].result
               /\ HasResult(containers[k])'
    <3>1. answers'[k] = data[containers[k]].result /\ HasResult(containers[k])
      <4>1. CASE k = i
        BY <1>0, <2>1, <2>2, <2>3, <4>1
      <4>2. CASE k # i
        <5>1. k \in 1..Len(answers) /\ answers'[k] = answers[k]
          BY <1>0, <2>1, <2>2, <4>2
        <5> QED
          BY <2>1, <5>1 DEF AnswersInv
      <4> QED
        BY <4>1, <4>2
    <3> QED
      BY <2>1, <3>1 DEF HasResult, Current
  <2> QED
    BY <1>0, <2>1, <2>2, <2>4 DEF AnswersInv
<1>8. CASE Reap
  <2>1. /\ UNCHANGED <<wpc, answers, data, containers, tasks, reqNo, prog>>
        /\ wpc = "reap"
    BY <1>8 DEF Reap, WorkerAt, slaveVars
  <2> QED
    BY <1>1, <2>1 DEF AnswersInv
<1>9. CASE WorkerSigchld /\ wpc' # "dead"
  <2>1. UNCHANGED <<wpc, i, answers, data, containers, tasks, reqNo, prog>>
    BY <1>9 DEF WorkerSigchld, WorkerEnds, slaveVars
  <2> QED
    BY <1>1, <2>1 DEF AnswersInv
<1> QED
  BY <1>2, <1>3, <1>4, <1>5, <1>6, <1>7, <1>8, <1>9
     DEF WorkerNext, WorkerStep, NextLoop, WorkerAt

LEMMA OutcomeInit == Init => OutcomeInv
<1> SUFFICES ASSUME Init PROVE OutcomeInv
  OBVIOUS
<1> USE DEF Init
<1>1. \A c \in Container : Position(c) = "before"
  BY SeenOutside DEF Position
<1> QED
  BY <1>1 DEF OutcomeInv, ResultInv, AnswersInv

LEMMA OutcomeNext ==
  Inv /\ MeetingInv /\ RunInv /\ OutcomeInv /\ [Next]_vars => OutcomeInv'
<1> SUFFICES ASSUME Inv, MeetingInv, RunInv, OutcomeInv, [Next]_vars
             PROVE  OutcomeInv'
  OBVIOUS
<1> USE DEF OutcomeInv
<1>1. CASE WorkerNext
  BY <1>1, ResultWorker, AnswersWorker
<1>2. ASSUME NEW c \in Container, StepOf(c) PROVE OutcomeInv'
  BY <1>2, ResultContainer, AnswersContainer
<1>3. CASE UNCHANGED vars
  BY <1>3 DEF vars, workerVars, containerVars, slaveVars, ResultInv, AnswersInv,
       HasResult, Current, Finished, Position
<1> QED
  BY <1>1, <1>2, <1>3, NextSplit

\* The results that the worker collects are those of the tasks at hand, in
\* their order.
THEOREM OutcomesInvariance ==
  Spec => [](Inv /\ MeetingInv /\ RunInv /\ OutcomeInv)
<1>1. Init => OutcomeInv
  BY OutcomeInit
<1>2. Inv /\ MeetingInv /\ RunInv /\ OutcomeInv /\ [Next]_vars => OutcomeInv'
  BY OutcomeNext
<1> QED
  BY <1>1, <1>2, RunsInvariance, PTL DEF Spec
-----------------------------------------------------------------------------
(* The implementation of RunTogether.                                      *)

Stages == [k \in 1..Len(tasks) |-> StageOf(k)]

Reply ==
  IF wpc = "respond" THEN [k \in 1..Len(answers) |-> answers[k].kind] ELSE <<>>

LEMMA PromiseStutters ==
  ASSUME PhaseOf(wpc)' = PhaseOf(wpc), Stages' = Stages, Reply' = Reply
  PROVE  UNCHANGED Promise!vars
BY DEF Promise!vars, Stages, Reply

LEMMA StageAdvances ==
  ASSUME PhaseOf(wpc)' = PhaseOf(wpc), Reply' = Reply,
         NEW k \in 1..Len(tasks), NEW before, NEW after,
         StageOf(k) \in before, Stages' = [Stages EXCEPT ![k] = after]
  PROVE  Promise!Advance(k, before, after) /\ k \in DOMAIN Stages
BY DEF Promise!Advance, Stages, Reply

\* A busy container runs one of the tasks.
LEMMA BusyTask ==
  ASSUME Inv, MeetingInv, RunInv, NEW c \in Container, Busy(c)
  PROVE  \E k \in 1..Len(containers) :
           containers[k] = c /\ prog[c] = <<reqNo, k>> /\ k \in 1..Len(tasks)
<1>1. PICK k \in 1..Len(containers) : containers[k] = c /\ prog[c] = <<reqNo, k>>
  BY DEF RunInv, CurrentInv, Current
<1>2. k \in 1..Len(tasks)
  BY DEF MeetingInv, KindInv, Inv, TypeOK, WorkerTypeOK
<1> QED
  BY <1>1, <1>2

\* A step of c is a step of the task that c runs, and of no other.
LEMMA StageOfOthers ==
  ASSUME Inv, NEW c \in Container, StepOf(c),
         NEW k \in 1..Len(containers), containers[k] = c, k \in 1..Len(tasks)
  PROVE  /\ Stages' = [Stages EXCEPT ![k] = StageOf(k)']
         /\ StageOf(k)' = StageOf(k) => Stages' = Stages
<1>1. UNCHANGED <<tasks, containers, reqNo>>
  BY StepOfFrame
<1>2. ASSUME NEW j \in 1..Len(tasks), j # k
      PROVE  StageOf(j)' = StageOf(j)
  <2>1. CASE j > Len(containers)
    BY <1>1, <2>1 DEF StageOf
  <2>2. CASE ~(j > Len(containers))
    <3>1. j \in 1..Len(containers) /\ containers \in Seq(Container)
      BY <2>2 DEF Inv, TypeOK, WorkerTypeOK
    <3>2. containers[j] \in Container /\ containers[j] # c
      BY <1>2, <3>1 DEF Inv, ContainersDistinct
    <3>3. /\ spc'[containers[j]] = spc[containers[j]]
          /\ prog'[containers[j]] = prog[containers[j]]
          /\ data'[containers[j]] = data[containers[j]]
      BY <3>2, StepOfOthers
    <3> QED
      BY <1>1, <3>3 DEF StageOf
  <2> QED
    BY <2>1, <2>2
<1> QED
  BY <1>1, <1>2 DEF Stages

LEMMA StagesKept ==
  ASSUME UNCHANGED <<tasks, containers, reqNo, prog, spc, data>>
  PROVE  Stages' = Stages
BY DEF Stages, StageOf

LEMMA PromiseContainer ==
  ASSUME Inv, MeetingInv, RunInv, OutcomeInv, NEW c \in Container, StepOf(c)
  PROVE  [Promise!Next]_(Promise!vars)
<1>0. /\ UNCHANGED <<wpc, tasks, containers, reqNo, answers>>
      /\ spc \in [Container -> SlavePc] /\ data \in [Container -> TaskData]
      /\ prog \in [Container -> Job \cup {NoJob}]
  BY StepOfFrame DEF Inv, TypeOK, SlaveTypeOK, SharedTypeOK
<1>1. PhaseOf(wpc)' = PhaseOf(wpc) /\ Reply' = Reply
  BY <1>0 DEF Reply
<1>2. CASE Launch(c)
  <2>1. PICK k \in 1..Len(containers) : ForTask(c, k) /\ prog'[c] = <<reqNo, k>>
    BY <1>2, ProgContainer
  <2>2. Given(c) /\ containers[k] = c /\ spc'[c] = "born" /\ k \in 1..Len(tasks)
    <3>1. k \in 1..Len(tasks)
      BY DEF MeetingInv, KindInv, Inv, TypeOK, WorkerTypeOK
    <3> QED
      BY <1>0, <1>2, <2>1, <3>1, ProgContainer DEF Launch, ForTask
  <2>3. StageOf(k) = "asked"
    <3>1. prog[c][1] < reqNo /\ prog[c][1] \in Nat /\ reqNo \in Nat
      BY <2>2, ProgType DEF RunInv, FreshInv
    <3>2. prog[c] # <<reqNo, k>>
      BY <3>1
    <3> QED
      BY <2>2, <3>2 DEF StageOf
  <2>4. StageOf(k)' = "placed"
    BY <1>0, <2>1, <2>2 DEF StageOf
  <2>5. Stages' = [Stages EXCEPT ![k] = "placed"]
    BY <2>2, <2>4, StageOfOthers
  <2>6. PhaseOf(wpc) \in {"busy", "dead"}
    <3>1. wpc \notin {"accept", "respond", "stopped"}
      BY <2>2, NotBusyBefore
    <3> QED
      BY <3>1 DEF PhaseOf
  <2>7. Promise!Place(k) /\ k \in DOMAIN Stages
    BY <1>1, <2>2, <2>3, <2>5, <2>6, StageAdvances
       DEF Promise!Place, Stages
  <2> QED
    BY <2>7 DEF Promise!Next, Stages
<1>3. CASE SlaveStarts(c)
  <2>1. spc[c] = "await" /\ spc'[c] = "setup" /\ start.leaving # {}
        /\ prog' = prog
    BY <1>0, <1>3 DEF SlaveStarts, Released
  <2>2. PICK k \in 1..Len(containers) :
          containers[k] = c /\ prog[c] = <<reqNo, k>> /\ k \in 1..Len(tasks)
    BY <2>1, BusyTask DEF Busy
  <2>3. StageOf(k) = "placed" /\ StageOf(k)' = "running"
    BY <1>0, <2>1, <2>2 DEF StageOf
  <2>4. Stages' = [Stages EXCEPT ![k] = "running"]
    BY <2>2, <2>3, StageOfOthers
  <2>5. \A j \in DOMAIN Stages : Stages[j] # "asked"
    <3>1. AllPlaced
      BY <2>1 DEF RunInv, PlacedInv
    <3>2. ASSUME NEW j \in 1..Len(tasks) PROVE StageOf(j) # "asked"
      <4>1. j \in 1..Len(containers) /\ prog[containers[j]] = <<reqNo, j>>
        BY <3>1 DEF AllPlaced
      <4>2. /\ containers[j] \in Container /\ ~(j > Len(containers))
            /\ spc[containers[j]] \in SlavePc
        BY <1>0, <4>1 DEF Inv, TypeOK, WorkerTypeOK
      <4>3. data[containers[j]].result.kind # "asked"
        BY <1>0, <4>2 DEF TaskData, Result, ResultKind
      <4> QED
        BY <4>1, <4>2, <4>3 DEF StageOf, SlavePc
    <3> QED
      BY <3>2 DEF Stages
  <2>6. Promise!Run(k) /\ k \in DOMAIN Stages
    BY <1>1, <2>2, <2>3, <2>4, <2>5, StageAdvances DEF Promise!Run, Stages
  <2> QED
    BY <2>6 DEF Promise!Next, Stages
<1>4. CASE TimeLimit(c) \/ SlaveFails(c) \/ ProgramEnds(c)
  <2>1. spc[c] \in Live /\ spc'[c] \in {"failed", "ended"} /\ prog' = prog
    BY <1>0, <1>4 DEF TimeLimit, SlaveFails, ProgramEnds, Live
  <2>2. PICK k \in 1..Len(containers) :
          containers[k] = c /\ prog[c] = <<reqNo, k>> /\ k \in 1..Len(tasks)
    BY <2>1, BusyTask DEF Busy, Live
  <2>3. StageOf(k) \in {"placed", "running"} /\ StageOf(k)' = "ended"
    BY <1>0, <2>1, <2>2 DEF StageOf, Live
  <2>4. Stages' = [Stages EXCEPT ![k] = "ended"]
    BY <2>2, <2>3, StageOfOthers
  <2>5. Promise!End(k) /\ k \in DOMAIN Stages
    BY <1>1, <2>2, <2>3, <2>4, StageAdvances
       DEF Promise!End, Stages
  <2> QED
    BY <2>5 DEF Promise!Next, Stages
<1>5. CASE Measure(c)
  <2>1. /\ spc[c] \in {"failed", "ended"} /\ spc'[c] = "absent" /\ prog' = prog
        /\ data'[c].result = OutcomeOf(c)
    BY <1>0, <1>5 DEF Measure, TaskData
  <2>2. PICK k \in 1..Len(containers) :
          containers[k] = c /\ prog[c] = <<reqNo, k>> /\ k \in 1..Len(tasks)
    BY <2>1, BusyTask DEF Busy
  <2>3. PICK outcome \in Promise!Outcome : OutcomeOf(c).kind = outcome
    BY DEF OutcomeOf, Promise!Outcome
  <2>4. StageOf(k) = "ended" /\ StageOf(k)' = outcome
    <3>1. data'[c].result.job = <<reqNo, k>> /\ data'[c].result.kind = outcome
      BY <2>1, <2>2, <2>3 DEF OutcomeOf
    <3> QED
      BY <1>0, <2>1, <2>2, <3>1 DEF StageOf
  <2>5. Stages' = [Stages EXCEPT ![k] = outcome]
    BY <2>2, <2>4, StageOfOthers
  <2>6. Promise!Record(k, outcome) /\ k \in DOMAIN Stages
    BY <1>1, <2>2, <2>4, <2>5, StageAdvances
       DEF Promise!Record, Stages
  <2> QED
    BY <2>6 DEF Promise!Next, Stages
<1>6. CASE ContainerGone(c) /\ spc[c] # "absent"
  <2>1. spc'[c] = "absent" /\ prog' = prog /\ data' = data
    BY <1>0, <1>6 DEF ContainerGone
  <2>2. PICK k \in 1..Len(containers) :
          containers[k] = c /\ prog[c] = <<reqNo, k>> /\ k \in 1..Len(tasks)
    BY <1>6, BusyTask DEF Busy
  <2>3. data[c].result.job # <<reqNo, k>>
    BY <1>6 DEF OutcomeInv, ResultInv, NoResult, NoJob
  <2>4. StageOf(k) \in {"placed", "running", "ended"} /\ StageOf(k)' = "lost"
    BY <1>0, <1>6, <2>1, <2>2, <2>3 DEF StageOf, SlavePc
  <2>5. Stages' = [Stages EXCEPT ![k] = "lost"]
    BY <2>2, <2>4, StageOfOthers
  <2>6. Promise!Lose(k) /\ k \in DOMAIN Stages
    BY <1>1, <2>2, <2>4, <2>5, StageAdvances
       DEF Promise!Lose, Stages
  <2> QED
    BY <2>6 DEF Promise!Next, Stages
<1>7. CASE SlaveArrives(c) \/ Exec(c)
  <2>1. /\ \/ spc[c] = "born" /\ spc'[c] = "await"
           \/ spc[c] = "setup" /\ spc'[c] = "run"
        /\ prog' = prog
    BY <1>0, <1>7 DEF SlaveArrives, Exec
  <2>2. PICK k \in 1..Len(containers) :
          containers[k] = c /\ prog[c] = <<reqNo, k>> /\ k \in 1..Len(tasks)
    BY <2>1, BusyTask DEF Busy
  <2>3. StageOf(k)' = StageOf(k)
    BY <1>0, <2>1, <2>2 DEF StageOf
  <2> QED
    BY <1>1, <2>2, <2>3, StageOfOthers, PromiseStutters
<1>8. CASE UNCHANGED <<prog, spc, data>>
  BY <1>0, <1>1, <1>8, StagesKept, PromiseStutters
<1>9. CASE ContainerGone(c) /\ spc[c] = "absent"
  BY <1>0, <1>8, <1>9 DEF ContainerGone
<1>10. CASE /\ ContainerStep(c)
            /\ ~Launch(c) /\ ~Measure(c) /\ ~ContainerGone(c)
  BY <1>8, <1>10 DEF ContainerStep, slaveVars, Arm, PrepareRoot, AwaitTask,
       TakeTask, ContainerArrives, ContainerStarts, Deliver, Delivered, Cleanup,
       ContainerSigchld
<1>11. CASE ContainerFails(c)
  BY <1>8, <1>11 DEF ContainerFails, slaveVars
<1> QED
  BY <1>2, <1>3, <1>4, <1>5, <1>6, <1>7, <1>9, <1>10, <1>11
     DEF StepOf, SlaveStep

\* Before the tasks are handed over, none of them has been placed.
LEMMA NotYetPlaced ==
  ASSUME Inv, MeetingInv, RunInv, PrepareContainer \/ SetTask
  PROVE  Stages' = Stages
<1>1. /\ wpc \in {"prepare", "write"} /\ UNCHANGED <<tasks, reqNo, prog>>
      /\ containers \in Seq(Container) /\ tasks \in Seq(Task)
      /\ reqNo \in Nat /\ Len(containers) \in Nat
    BY MaxRequestsAssumption
       DEF PrepareContainer, SetTask, WorkerAt, slaveVars, Inv, TypeOK,
           WorkerTypeOK
<1>2. containers' \in Seq(Container)
  <2>1. Inv'
    BY NextInv DEF Next, WorkerStep
  <2> QED
    BY <2>1 DEF Inv, TypeOK, WorkerTypeOK
<1>3. \A c \in Container : \A k \in 1..Len(tasks) : prog[c] # <<reqNo, k>>
  <2> TAKE c \in Container
  <2> TAKE k \in 1..Len(tasks)
  <2>1. prog[c][1] < reqNo /\ prog[c][1] \in Nat
    BY <1>1, ProgType DEF RunInv, FreshInv
  <2> QED
    BY <1>1, <2>1
<1>4. ASSUME NEW k \in 1..Len(tasks)
      PROVE  StageOf(k) = "asked" /\ StageOf(k)' = "asked"
  <2>1. StageOf(k) = "asked"
    <3>1. ~(k > Len(containers)) => containers[k] \in Container
      BY <1>1
    <3> QED
      BY <1>3, <3>1 DEF StageOf
  <2>2. StageOf(k)' = "asked"
    <3>1. ~(k > Len(containers')) => containers'[k] \in Container
      BY <1>1, <1>2
    <3> QED
      BY <1>1, <1>3, <3>1 DEF StageOf
  <2> QED
    BY <2>1, <2>2
<1> QED
  BY <1>1, <1>4 DEF Stages

LEMMA PromiseInit == Init => Promise!Init
BY DEF Init, Promise!Init, PhaseOf

LEMMA PromiseWorker ==
  ASSUME Inv, MeetingInv, RunInv, OutcomeInv, WorkerNext
  PROVE  [Promise!Next]_(Promise!vars)
<1>0. /\ wpc \in WorkerPc
      /\ wpc \in {"accept", "respond"} => tasks = <<>> /\ containers = <<>>
  BY DEF Inv, TypeOK, WorkerTypeOK, LoopInv
<1>1. ASSUME NEW r \in Requests, Accept(r) PROVE Promise!Next
  <2>1. /\ wpc = "accept" /\ wpc' = "prepare" /\ tasks' = r
        /\ containers' = containers
    BY <1>1 DEF Accept, WorkerAt
  <2>2. Len(r) \in 0..MaxTasks
    BY RequestsAssumption, MaxTasksAssumption
  <2>3. Stages' = [k \in 1..Len(r) |-> "asked"]
    <3>1. \A k \in 1..Len(r) : StageOf(k)' = "asked"
      BY <1>0, <2>1, <2>2 DEF StageOf
    <3> QED
      BY <2>1, <3>1 DEF Stages
  <2>4. Promise!Ask(Len(r))
    BY <2>1, <2>3 DEF Promise!Ask, Stages, PhaseOf
  <2> QED
    BY <2>2, <2>4 DEF Promise!Next
<1>2. CASE Reject
  <2>1. /\ wpc = "accept" /\ wpc' = "respond" /\ answers' = <<>>
        /\ tasks = <<>> /\ tasks' = tasks
    BY <1>0, <1>2 DEF Reject, WorkerAt
  <2>2. Promise!Refuse
    BY <2>1 DEF Promise!Refuse, PhaseOf
  <2> QED
    BY <2>2 DEF Promise!Next
<1>3. ASSUME NEW pc \in {"stopped", "dead"}, WorkerEnds(pc)
      PROVE  Stages' = Stages /\ PhaseOf(wpc)' = pc /\ Reply' = <<>>
  <2>1. wpc' = pc /\ UNCHANGED <<tasks, containers, reqNo, prog, spc, data>>
    BY <1>3 DEF WorkerEnds, slaveVars
  <2> QED
    BY <2>1, StagesKept DEF PhaseOf, Reply
<1>4. CASE Stop
  <2>1. wpc = "accept" /\ WorkerEnds("stopped")
    BY <1>4 DEF Stop, WorkerAt
  <2>2. Promise!Stop
    BY <1>3, <2>1 DEF Promise!Stop, Stages, Reply, PhaseOf
  <2> QED
    BY <2>2 DEF Promise!Next
<1>5. CASE WorkerEnds("dead") /\ wpc # "stopped"
  <2>1. Stages' = Stages /\ PhaseOf(wpc)' = "dead" /\ Reply' = <<>>
    BY <1>3, <1>5
  <2>2. CASE wpc = "dead"
    <3>1. PhaseOf(wpc)' = PhaseOf(wpc) /\ Reply' = Reply
      BY <2>1, <2>2 DEF PhaseOf, Reply
    <3> QED
      BY <2>1, <3>1, PromiseStutters
  <2>3. CASE wpc # "dead"
    <3>1. PhaseOf(wpc) \in {"idle", "busy", "answered"}
      BY <1>0, <1>5, <2>3 DEF PhaseOf, WorkerPc
    <3>2. Promise!Die
      BY <2>1, <3>1 DEF Promise!Die, Stages, Reply
    <3> QED
      BY <3>2 DEF Promise!Next
  <2> QED
    BY <2>2, <2>3
<1>6. CASE WorkerFails \/ (WorkerSigchld /\ WorkerEnds("dead"))
  <2>1. WorkerEnds("dead")
    BY <1>6 DEF WorkerFails
  <2>2. wpc # "stopped"
    BY <1>6, FaultsAssumption
       DEF WorkerFails, WorkerSigchld, MeetingInv, QuietInv
  <2> QED
    BY <1>5, <2>1, <2>2
<1>7. CASE WorkerSigchld /\ ~WorkerEnds("dead")
  <2>1. UNCHANGED <<wpc, answers, tasks, containers, reqNo, prog, spc, data>>
    BY <1>7 DEF WorkerSigchld, slaveVars
  <2> QED
    BY <2>1, StagesKept, PromiseStutters DEF Reply
<1>8. CASE Collected
  <2>1. /\ wpc = "reap" /\ wpc' = "respond" /\ tasks' = <<>>
        /\ answers' = answers
    BY <1>8 DEF Collected, WorkerAt
  <2>2. Len(answers) = Len(tasks) /\ Len(containers) = Len(tasks)
        /\ Len(tasks) \in Nat /\ containers \in Seq(Container)
    BY <2>1 DEF OutcomeInv, AnswersInv, Inv, LoopInv, TypeOK, WorkerTypeOK
  <2>3. ASSUME NEW k \in 1..Len(tasks)
        PROVE  StageOf(k) = answers[k].kind /\ StageOf(k) \in Promise!Good
    <3>1. /\ answers[k] = data[containers[k]].result
          /\ HasResult(containers[k])
      BY <2>1, <2>2, <2>3 DEF OutcomeInv, AnswersInv
    <3>2. prog[containers[k]] = <<reqNo, k>>
      BY <2>1, <2>2, <2>3 DEF RunInv, PlacedInv, AllPlaced
    <3>3. spc[containers[k]] = "absent"
      BY <2>1, <2>2, <2>3, NotBusyBefore DEF Busy
    <3>4. /\ data[containers[k]].result.job = <<reqNo, k>>
          /\ data[containers[k]].result.kind \in {"exited", "limit"}
      BY <3>1, <3>2 DEF HasResult
    <3> QED
      BY <2>2, <2>3, <3>1, <3>2, <3>3, <3>4 DEF StageOf, Promise!Good
  <2>4. Reply' = Stages
    BY <2>1, <2>2, <2>3 DEF Reply, Stages
  <2>5. Stages' = <<>>
    BY <2>1 DEF Stages
  <2>6. \A k \in DOMAIN Stages : Stages[k] \in Promise!Good
    BY <2>3 DEF Stages
  <2>7. Promise!Answer
    BY <2>1, <2>4, <2>5, <2>6 DEF Promise!Answer, Stages, Reply, PhaseOf
  <2> QED
    BY <2>7 DEF Promise!Next
<1>9. CASE Respond
  <2>1. /\ wpc = "respond" /\ wpc' = "accept"
        /\ UNCHANGED <<tasks, containers, reqNo, prog, spc, data>>
    BY <1>9 DEF Respond, WorkerAt, slaveVars
  <2>2. Stages' = Stages
    BY <2>1, StagesKept
  <2>3. Promise!Return
    BY <2>1, <2>2 DEF Promise!Return, Stages, PhaseOf
  <2> QED
    BY <2>3 DEF Promise!Next
<1>10. ASSUME wpc \notin {"accept", "respond", "stopped", "dead"},
              wpc' \notin {"accept", "respond", "stopped", "dead"},
              Stages' = Stages
       PROVE  UNCHANGED Promise!vars
  BY <1>10, PromiseStutters DEF PhaseOf, Reply
<1>11. CASE PrepareContainer \/ SetTask
  BY <1>10, <1>11, NotYetPlaced DEF PrepareContainer, SetTask, WorkerAt
<1>12. CASE /\ WorkerStep
            /\ ~PrepareContainer /\ ~SetTask /\ ~Collected /\ ~Respond
            /\ ~WorkerSigchld
  <2>1. /\ wpc \notin {"accept", "respond", "stopped", "dead"}
        /\ wpc' \notin {"accept", "respond", "stopped", "dead"}
        /\ UNCHANGED <<tasks, containers, reqNo, prog, spc, data>>
    BY <1>12 DEF WorkerStep, slaveVars, ResetBarrier, NextLoop, EnterMeeting,
         HandOver, WorkerArrives, WorkerStarts, ClosePipes, CollectResult, Reap,
         WorkerAt
  <2> QED
    BY <1>10, <2>1, StagesKept
<1> QED
  BY <1>1, <1>2, <1>4, <1>6, <1>7, <1>8, <1>9, <1>11, <1>12 DEF WorkerNext

\* The worker with its containers and slaves implements RunTogether: the tasks
\* of a request start together, none runs twice, and an answer tells of every
\* task, in order, how a run of it for this request ended.
THEOREM PromiseKept == Spec => KeepsPromise
<1>1. Inv /\ MeetingInv /\ RunInv /\ OutcomeInv /\ [Next]_vars
        => [Promise!Next]_(Promise!vars)
  <2> SUFFICES ASSUME Inv, MeetingInv, RunInv, OutcomeInv, [Next]_vars
               PROVE  [Promise!Next]_(Promise!vars)
    OBVIOUS
  <2>1. CASE WorkerNext
    BY <2>1, PromiseWorker
  <2>2. ASSUME NEW c \in Container, StepOf(c)
        PROVE  [Promise!Next]_(Promise!vars)
    BY <2>2, PromiseContainer
  <2>3. CASE UNCHANGED vars
    <3>1. UNCHANGED <<wpc, answers, tasks, containers, reqNo, prog, spc, data>>
      BY <2>3 DEF vars, workerVars, slaveVars
    <3> QED
      BY <3>1, StagesKept, PromiseStutters DEF Reply
  <2> QED
    BY <2>1, <2>2, <2>3, NextSplit
<1> QED
  BY <1>1, PromiseInit, OutcomesInvariance, PTL
     DEF Spec, KeepsPromise, Promise!Spec
-----------------------------------------------------------------------------
(* Who waits, and for whom.  A process that waits in the run start barrier *)
(* is counted there; a round that is over had every party in it; a run that *)
(* goes on, or is over, has had its start.                                 *)

\* c has not run anything since it was created for the request at hand.
Unused(c) ==
  \/ cpc[c] = "cloned"
  \/ c[1] = "temp" /\ cpc[c] \in {"armed", "ready", "waitTask", "launch"}

\* What the container and its slave know of each other, and of their waiting.
WaitAt(c) ==
  /\ cpc[c] \in {"forked", "waitStart", "watch", "killing"} => spc[c] # "absent"
  /\ cpc[c] = "waitStart" => InStart(ContainerOf(c))
  /\ spc[c] = "await" => InStart(SlaveOf(c))
  /\ cchld[c] # "none" /\ cpc[c] \notin Over => spc[c] \in {"failed", "ended"}
  /\ spc[c] = "failed" /\ cpc[c] \notin Over => cchld[c] = "bad"
  /\ cpc[c] = "exited" => c[1] = "temp"
  /\ Unused(c) => prog[c][1] < reqNo

WaitInv == \A c \in Container : WaitAt(c)

\* What the worker does to a container.
LEMMA WorkerOn ==
  ASSUME Inv, MeetingInv, WorkerNext, NEW c \in Container
  PROVE  /\ spc'[c] = spc[c] /\ prog'[c] = prog[c]
         /\ \/ cpc'[c] = cpc[c] /\ cchld'[c] = cchld[c]
            \/ /\ PrepareContainer /\ cpc[c] = "absent" /\ cpc'[c] = "cloned"
               /\ cchld'[c] = "none"
            \/ /\ Reap /\ cpc[c] \in {"exited", "dead"} /\ cpc'[c] = "absent"
               /\ cchld'[c] = cchld[c]
            \/ /\ wpc' \in {"dead", "stopped"} /\ cpc[c] \notin Over
               /\ cpc[c] # "cloned" /\ cpc'[c] = "exiting"
               /\ cchld'[c] = cchld[c]
<1>0. DOMAIN cpc = Container
  BY DEF Inv, TypeOK, ContainerTypeOK
<1>1. spc' = spc /\ prog' = prog
  BY WorkerLeaves DEF MeetingInv
<1>2. CASE PrepareContainer
  BY <1>1, <1>2, MadeAnew DEF MeetingInv
<1>3. CASE Reap
  BY <1>0, <1>1, <1>3 DEF Reap
<1>4. CASE Stop \/ WorkerEnds("dead")
  BY <1>0, <1>1, <1>4 DEF Stop, WorkerEnds
<1>5. CASE cpc' = cpc /\ cchld' = cchld
  BY <1>1, <1>5
<1>6. CASE WorkerStep /\ ~PrepareContainer /\ ~Reap /\ ~WorkerEnds("dead")
  BY <1>5, <1>6 DEF WorkerStep, containerVars, ResetBarrier, SetTask, NextLoop,
       EnterMeeting, HandOver, WorkerArrives, WorkerStarts, ClosePipes,
       CollectResult, Collected, Respond, WorkerSigchld
<1>7. CASE Reject \/ \E r \in Requests : Accept(r)
  BY <1>5, <1>7 DEF Reject, Accept, containerVars
<1> QED
  BY <1>2, <1>3, <1>4, <1>6, <1>7 DEF WorkerNext, WorkerFails

LEMMA WaitWorker ==
  ASSUME Inv, MeetingInv, RunInv, WaitInv, WorkerNext
  PROVE  WaitInv'
<1> SUFFICES ASSUME NEW c \in Container PROVE WaitAt(c)'
  BY DEF WaitInv
<1>0. WaitAt(c)
  BY DEF WaitInv
<1>1. /\ spc'[c] = spc[c]
      /\ \/ cpc'[c] = cpc[c] /\ cchld'[c] = cchld[c]
         \/ cpc'[c] = "cloned" /\ cchld'[c] = "none" /\ spc[c] = "absent"
         \/ cpc'[c] \in {"absent", "exiting"}
  <2>1. cpc[c] = "absent" => spc[c] = "absent"
    BY DEF MeetingInv, LocalInv, LocalAt
  <2> QED
    BY <2>1, WorkerOn
<1>2. /\ InStart(ContainerOf(c)) /\ cpc'[c] = "waitStart" => InStart(ContainerOf(c))'
      /\ InStart(SlaveOf(c)) /\ spc[c] = "await" => InStart(SlaveOf(c))'
  <2>1. CASE ResetBarrier
    <3>1. wpc = "prepare"
      BY <2>1 DEF ResetBarrier, WorkerAt
    <3>2. ~Busy(c)
      BY <3>1, NotBusyBefore
    <3> QED
      BY <3>2 DEF Busy
  <2>2. start \in BarrierOver(Party) /\ start.waiting \cap start.leaving = {}
    BY DEF Inv, TypeOK, SharedTypeOK, MeetingInv, StartInv
  <2>3. CASE WorkerArrives \/ WorkerStarts
    BY <2>2, <2>3, ArriveInside, LeaveInside, PartiesDiffer
       DEF WorkerArrives, WorkerStarts, InStart
  <2>4. CASE start' = start
    BY <2>4 DEF InStart
  <2>5. CASE WorkerStep /\ ~WorkerArrives /\ ~WorkerStarts /\ ~ResetBarrier
    BY <2>4, <2>5 DEF WorkerStep, PrepareContainer, SetTask, NextLoop,
         EnterMeeting, HandOver, ClosePipes, CollectResult, Reap, Collected,
         Respond, WorkerSigchld, WorkerEnds
  <2>6. CASE ~WorkerStep
    BY <2>4, <2>6 DEF WorkerNext, Accept, Reject, Stop, WorkerFails, WorkerEnds
  <2> QED
    BY <2>1, <2>3, <2>5, <2>6
<1>3. Unused(c)' => prog'[c][1] < reqNo'
  <2>1. /\ prog'[c] = prog[c] /\ prog[c][1] \in Nat /\ reqNo \in Nat
        /\ Unused(c)' => Unused(c) \/ (PrepareContainer /\ cpc[c] = "absent")
    BY WorkerOn, ProgType DEF Unused
  <2>2. CASE PrepareContainer
    BY <2>1, <2>2 DEF PrepareContainer, WorkerAt, RunInv, FreshInv
  <2>3. CASE ~PrepareContainer
    <3>1. reqNo' = reqNo \/ reqNo' = reqNo + 1
      <4>1. CASE WorkerStep
        BY <4>1 DEF WorkerStep, PrepareContainer, ResetBarrier, SetTask,
             NextLoop, EnterMeeting, HandOver, WorkerArrives, WorkerStarts,
             ClosePipes, CollectResult, Reap, Collected, Respond, WorkerSigchld,
             WorkerEnds
      <4>2. CASE ~WorkerStep
        BY <4>2 DEF WorkerNext, Accept, Reject, Stop, WorkerFails, WorkerEnds
      <4> QED
        BY <4>1, <4>2
    <3> QED
      BY <1>0, <2>1, <2>3, <3>1 DEF WaitAt
  <2> QED
    BY <2>2, <2>3
<1> QED
  BY <1>0, <1>1, <1>2, <1>3 DEF WaitAt, Over

LEMMA WaitContainer ==
  ASSUME Inv, MeetingInv, RunInv, WaitInv, NEW c \in Container, StepOf(c)
  PROVE  WaitInv'
<1>0. /\ cpc \in [Container -> ContainerPc] /\ spc \in [Container -> SlavePc]
      /\ cchld \in [Container -> {"none", "ok", "bad"}]
      /\ start \in BarrierOver(Party) /\ start.waiting \cap start.leaving = {}
      /\ prog \in [Container -> Job \cup {NoJob}] /\ reqNo' = reqNo
      /\ LocalAt(c) /\ StartAt(c) /\ WaitAt(c)
  BY ProgType, StepOfFrame
     DEF Inv, TypeOK, ContainerTypeOK, SlaveTypeOK, SharedTypeOK, LocalInv,
         MeetingInv, StartInv, WaitInv
<1>1. ASSUME NEW d \in Container, d # c PROVE WaitAt(d)'
  <2>1. /\ cpc'[d] = cpc[d] /\ spc'[d] = spc[d] /\ cchld'[d] = cchld[d]
        /\ prog'[d] = prog[d]
    BY <1>1, StepOfOthers
  <2>2. /\ InStart(ContainerOf(d))' <=> InStart(ContainerOf(d))
        /\ InStart(SlaveOf(d))' <=> InStart(SlaveOf(d))
    BY <1>1, StepOfStart, PartiesDiffer DEF ContainerOf, SlaveOf, MeetingInv
  <2> QED
    BY <1>0, <2>1, <2>2 DEF WaitInv, WaitAt, Unused
<1>2. SUFFICES WaitAt(c)'
  BY <1>1 DEF WaitInv
<1>3. Unused(c)' => prog'[c][1] < reqNo'
  <2>1. Unused(c)' => Unused(c) /\ ~Launch(c)
    <3>1. CASE ContainerStep(c)
      BY <1>0, <3>1 DEF Unused, LocalAt, ContainerAt, containerVars, Over,
           ContainerStep, Arm, PrepareRoot, AwaitTask, TakeTask, Launch,
           ContainerArrives, ContainerStarts, Measure, Deliver, Delivered,
           Cleanup, ContainerSigchld, ContainerDies, ContainerGone
    <3>2. CASE ~ContainerStep(c)
      BY <1>0, <3>2 DEF Unused, containerVars, StepOf, ContainerStep, TimeLimit,
           ContainerFails, ContainerDies, SlaveStep, SlaveArrives, SlaveStarts,
           Exec, SlaveFails, ProgramEnds
    <3> QED
      BY <3>1, <3>2
  <2>2. ~Launch(c) => prog' = prog
    BY ProgContainer
  <2> QED
    BY <1>0, <2>1, <2>2 DEF WaitAt
<1> USE DEF ContainerAt, containerVars, slaveVars
<1>4. CASE Launch(c)
  <2>1. /\ cpc[c] = "launch" /\ cpc'[c] = "forked" /\ spc'[c] = "born"
        /\ cchld'[c] = "none"
    BY <1>0, <1>4 DEF Launch
  <2> QED
    BY <1>3, <2>1 DEF WaitAt
<1>5. CASE ContainerArrives(c)
  <2>1. /\ start' = Arrive(start, ContainerOf(c)) /\ spc' = spc
        /\ cchld' = cchld /\ cpc[c] = "forked" /\ cpc'[c] = "waitStart"
        /\ cchld[c] = "none"
    BY <1>0, <1>5 DEF ContainerArrives
  <2>2. /\ InStart(ContainerOf(c))'
        /\ InStart(SlaveOf(c))' <=> InStart(SlaveOf(c))
    BY <1>0, <2>1, ArriveInside, PartiesDiffer DEF InStart
  <2> QED
    BY <1>0, <1>3, <2>1, <2>2 DEF WaitAt, Over
<1>6. CASE ContainerStarts(c)
  <2>1. /\ start' = Leave(start, ContainerOf(c)) /\ spc' = spc
        /\ cchld' = cchld /\ cpc[c] = "waitStart" /\ cpc'[c] = "watch"
        /\ Released(start, ContainerOf(c)) /\ cchld[c] = "none"
    BY <1>0, <1>6 DEF ContainerStarts
  <2>2. InStart(SlaveOf(c))' <=> InStart(SlaveOf(c))
    BY <1>0, <2>1, LeaveInside, PartiesDiffer DEF InStart
  <2> QED
    BY <1>0, <1>3, <2>1, <2>2 DEF WaitAt, Over
<1>7. CASE SlaveArrives(c)
  <2>1. /\ start' = Arrive(start, SlaveOf(c)) /\ cpc' = cpc
        /\ cchld' = cchld /\ spc[c] = "born" /\ spc'[c] = "await"
    BY <1>0, <1>7 DEF SlaveArrives
  <2>2. /\ InStart(SlaveOf(c))'
        /\ InStart(ContainerOf(c))' <=> InStart(ContainerOf(c))
    BY <1>0, <2>1, ArriveInside, PartiesDiffer DEF InStart
  <2> QED
    BY <1>0, <1>3, <2>1, <2>2 DEF WaitAt, Over
<1>8. CASE SlaveStarts(c)
  <2>1. /\ start' = Leave(start, SlaveOf(c)) /\ cpc' = cpc
        /\ cchld' = cchld /\ spc[c] = "await" /\ spc'[c] = "setup"
        /\ Released(start, SlaveOf(c))
    BY <1>0, <1>8 DEF SlaveStarts
  <2>2. InStart(ContainerOf(c))' <=> InStart(ContainerOf(c))
    BY <1>0, <2>1, LeaveInside, PartiesDiffer DEF InStart
  <2> QED
    BY <1>0, <1>3, <2>1, <2>2 DEF WaitAt, Over
<1>9. CASE Arm(c) \/ PrepareRoot(c) \/ AwaitTask(c) \/ TakeTask(c)
            \/ Deliver(c) \/ Delivered(c) \/ Cleanup(c)
  <2>1. /\ spc' = spc /\ cchld' = cchld /\ cchld[c] = "none"
        /\ cpc[c] \notin Over
        /\ cpc[c] \notin {"forked", "waitStart", "watch", "killing"}
        /\ cpc'[c] \notin {"forked", "waitStart", "watch", "killing"}
        /\ cpc'[c] = "exited" => c[1] = "temp"
    BY <1>0, <1>9 DEF Arm, PrepareRoot, AwaitTask, TakeTask, Deliver, Delivered,
                 Cleanup, Over
  <2>2. spc[c] = "absent"
    BY <1>0, <2>1 DEF LocalAt, Over
  <2> QED
    BY <1>3, <2>1, <2>2 DEF WaitAt
<1>10. CASE Measure(c)
  <2>1. /\ spc'[c] = "absent" /\ cchld' = cchld /\ cchld[c] = "none"
        /\ cpc'[c] \in {"exiting", "finish"}
    BY <1>0, <1>10 DEF Measure
  <2> QED
    BY <1>3, <2>1 DEF WaitAt
<1>11. CASE start' = start /\ spc' = spc /\ cpc'[c] = "exiting"
  BY <1>0, <1>3, <1>11 DEF WaitAt, InStart, Over
<1>12. CASE ContainerSigchld(c)
  <2>1. /\ start' = start /\ spc' = spc /\ cchld'[c] = "none"
        /\ cpc'[c] = cpc[c] \/ cpc'[c] = "exiting"
        /\ cpc[c] \notin Over
        /\ data[c].error /\ cchld[c] = "bad" => cpc'[c] = "exiting"
    BY <1>0, <1>12 DEF ContainerSigchld, ContainerDies
  <2>2. spc[c] = "failed" => cpc'[c] = "exiting"
    BY <1>0, <2>1 DEF WaitAt, StartAt
  <2> QED
    BY <1>0, <1>3, <1>11, <2>1, <2>2 DEF WaitAt, InStart, Over
<1>13. CASE ContainerFails(c)
  <2>1. start' = start /\ spc' = spc /\ cpc'[c] = "exiting"
    BY <1>0, <1>13 DEF ContainerFails, ContainerDies
  <2> QED
    BY <1>11, <2>1
<1>14. CASE ContainerGone(c)
  <2>1. spc'[c] = "absent" /\ cpc'[c] = "dead"
    BY <1>0, <1>14 DEF ContainerGone
  <2> QED
    BY <1>3, <2>1 DEF WaitAt, Over
<1>15. CASE TimeLimit(c) \/ ProgramEnds(c)
  <2>1. /\ spc'[c] = "ended" /\ start' = start
        /\ cpc'[c] = cpc[c] \/ cpc'[c] = "killing"
    BY <1>0, <1>15 DEF TimeLimit, ProgramEnds
  <2> QED
    BY <1>0, <1>3, <2>1 DEF WaitAt, InStart
<1>16. CASE Exec(c)
  <2>1. /\ spc[c] = "setup" /\ spc'[c] = "run" /\ start' = start /\ cpc' = cpc
        /\ cchld' = cchld
    BY <1>0, <1>16 DEF Exec
  <2> QED
    BY <1>0, <1>3, <2>1 DEF WaitAt, InStart
<1>17. CASE SlaveFails(c)
  <2>1. /\ spc[c] \in {"born", "setup"} /\ spc'[c] = "failed"
        /\ start' = start /\ cpc' = cpc
        /\ cchld'[c] = Report(cchld[c], "bad")
    BY <1>0, <1>17 DEF SlaveFails
  <2>2. cpc[c] \notin Over => cchld[c] = "none"
    BY <1>0, <2>1 DEF WaitAt
  <2> QED
    BY <1>0, <1>3, <2>1, <2>2 DEF WaitAt, InStart, Report
<1> QED
  BY <1>4, <1>5, <1>6, <1>7, <1>8, <1>9, <1>10, <1>12, <1>13, <1>14, <1>15,
     <1>16, <1>17 DEF StepOf, ContainerStep, SlaveStep

\* The run start barrier has been passed by the worker, or may be.
Started ==
  \/ wpc \in {"close", "collect", "collecting", "reap"}
  \/ wpc = "starting" /\ TheWorker \in start.leaving

\* The round of the request at hand is complete.
RoundOver ==
  start.leaving # {} \/ wpc \in {"close", "collect", "collecting", "reap"}

\* c or its slave is past the run start barrier.
Past(c) ==
  \/ cpc[c] \in {"watch", "killing", "finish"}
  \/ spc[c] \in {"setup", "run", "ended"}
  \/ cpc[c] = "waitResults" /\ "container" \in meet[c].waiting
  \/ c[1] = "temp" /\ cpc[c] \in {"waitResults", "exited"}

RoundInv ==
  /\ Cardinality(start.waiting) < start.need
  /\ wpc = "starting" => InStart(TheWorker)
  /\ RoundOver =>
       /\ start.waiting = {}
       /\ \A c \in Container : spc[c] # "born" /\ cpc[c] # "forked"
  /\ start.leaving # {} =>
       wpc \in {"starting", "close", "collect", "collecting", "reap", "dead"}

LEMMA EverybodyIn ==
  ASSUME Inv, CurrentInv, Begun, NEW p, CompletesRound(start, p),
         \/ p = TheWorker
         \/ \E c \in Container : Current(c) /\ p \in {ContainerOf(c), SlaveOf(c)}
  PROVE  /\ TheWorker \in start.waiting \cup {p}
         /\ \A c \in Container : Current(c) =>
              /\ ContainerOf(c) \in start.waiting \cup {p}
              /\ SlaveOf(c) \in start.waiting \cup {p}
<1>0. Len(containers) \in Nat
  BY DEF Inv, TypeOK, WorkerTypeOK
<1>1. TheWorker \in start.waiting \cup {p}
  <2>1. Len(containers) * 2 + 1 \in 1..(Len(containers) * 2 + 1)
    BY <1>0
  <2> QED
    BY <2>1, EverybodyArrived DEF StartParty
<1>2. ASSUME NEW c \in Container, Current(c)
      PROVE  /\ ContainerOf(c) \in start.waiting \cup {p}
             /\ SlaveOf(c) \in start.waiting \cup {p}
  <2>1. PICK k \in 1..Len(containers) : containers[k] = c
    BY <1>2 DEF Current
  <2>2. /\ k \in 1..(Len(containers) * 2 + 1)
        /\ k # Len(containers) * 2 + 1 /\ k <= Len(containers)
    BY <1>0
  <2>3. /\ k + Len(containers) \in 1..(Len(containers) * 2 + 1)
        /\ k + Len(containers) # Len(containers) * 2 + 1
        /\ ~(k + Len(containers) <= Len(containers))
        /\ (k + Len(containers)) - Len(containers) = k
    BY <1>0
  <2>4. StartParty(k) = ContainerOf(c)
    BY <2>1, <2>2 DEF StartParty
  <2>5. StartParty(k + Len(containers)) = SlaveOf(c)
    BY <2>1, <2>3 DEF StartParty
  <2> QED
    BY <2>2, <2>3, <2>4, <2>5, EverybodyArrived
<1> QED
  BY <1>1, <1>2

\* Whoever is still to arrive in a round that completes was in it.
LEMMA NobodyLate ==
  ASSUME Inv, MeetingInv, CurrentInv, Begun, NEW p, CompletesRound(start, p),
         \/ p = TheWorker
         \/ \E c \in Container : Current(c) /\ p \in {ContainerOf(c), SlaveOf(c)},
         NEW d \in Container
  PROVE  /\ spc[d] = "born" => p = SlaveOf(d)
         /\ cpc[d] = "forked" => p = ContainerOf(d)
<1>1. spc[d] = "born" \/ cpc[d] = "forked" => Current(d)
  BY DEF CurrentInv, Busy, Working
<1>2. StartAt(d)
  BY DEF MeetingInv, StartInv
<1>3. spc[d] = "born" => ~InStart(SlaveOf(d))
  BY <1>2 DEF StartAt
<1>4. cpc[d] = "forked" => ~InStart(ContainerOf(d))
  BY <1>2 DEF StartAt, Over
<1> QED
  BY <1>1, <1>3, <1>4, EverybodyIn DEF InStart, Inside

LEMMA PartyFinite == IsFiniteSet(Party)
<1>1. IsFiniteSet(1..MaxTasks)
  BY MaxTasksAssumption, FS_Interval
<1>2. /\ IsFiniteSet({"perm", "temp"}) /\ IsFiniteSet({"container", "slave"})
      /\ IsFiniteSet({TheWorker})
  <2>1. \A x, y : IsFiniteSet({x} \cup {y})
    BY FS_Singleton, FS_Union
  <2>2. {"perm", "temp"} = {"perm"} \cup {"temp"}
        /\ {"container", "slave"} = {"container"} \cup {"slave"}
    OBVIOUS
  <2>3. IsFiniteSet({"perm"} \cup {"temp"})
        /\ IsFiniteSet({"container"} \cup {"slave"})
    BY <2>1
  <2>4. IsFiniteSet({TheWorker})
    BY FS_Singleton
  <2> QED
    BY <2>2, <2>3, <2>4
<1>3. IsFiniteSet(Container)
  BY <1>1, <1>2, FS_Product DEF Container
<1>4. IsFiniteSet({"container", "slave"} \X Container)
  BY <1>2, <1>3, FS_Product
<1> QED
  BY <1>2, <1>4, FS_Union DEF Party

LEMMA ArriveCount ==
  ASSUME NEW b \in BarrierOver(Party), NEW p,
         Cardinality(b.waiting) < b.need
  PROVE  Cardinality(Arrive(b, p).waiting) < Arrive(b, p).need
<1>1. IsFiniteSet(b.waiting) /\ Cardinality(b.waiting) \in Nat
  BY PartyFinite, FS_Subset, FS_CardinalityType DEF BarrierOver
<1>2. b.need \in Nat \ {0} /\ Arrive(b, p).need = b.need
  BY DEF BarrierOver, Arrive
<1>3. Cardinality({}) = 0
  BY FS_EmptySet
<1>4. CASE CompletesRound(b, p)
  <2>1. Arrive(b, p).waiting = {}
    BY <1>4 DEF BarrierOver, Arrive
  <2> QED
    BY <1>2, <1>3, <2>1
<1>5. CASE ~CompletesRound(b, p)
  <2>1. Arrive(b, p).waiting = b.waiting \cup {p}
    BY <1>5 DEF BarrierOver, Arrive
  <2>2. Cardinality(b.waiting \cup {p}) # b.need
    BY <1>5 DEF CompletesRound
  <2>3. \/ Cardinality(b.waiting \cup {p}) = Cardinality(b.waiting) + 1
        \/ Cardinality(b.waiting \cup {p}) = Cardinality(b.waiting)
    BY <1>1, FS_AddElement
  <2>4. \A x, y, n \in Nat : x < n /\ y # n /\ (y = x + 1 \/ y = x) => y < n
    OBVIOUS
  <2> QED
    BY <1>1, <1>2, <2>1, <2>2, <2>3, <2>4
<1> QED
  BY <1>4, <1>5

LEMMA RoundContainer ==
  ASSUME Inv, MeetingInv, RunInv, RoundInv, NEW c \in Container, StepOf(c)
  PROVE  RoundInv'
<1>0. /\ UNCHANGED <<wpc, containers>> /\ start'.need = start.need
      /\ InStart(TheWorker)' <=> InStart(TheWorker)
      /\ start \in BarrierOver(Party)
      /\ cpc \in [Container -> ContainerPc] /\ spc \in [Container -> SlavePc]
  BY StepOfFrame, StepOfStart, PartiesDiffer
     DEF MeetingInv, Inv, TypeOK, SharedTypeOK, ContainerTypeOK, SlaveTypeOK
<1> USE DEF ContainerAt, containerVars, slaveVars
<1>1. CASE Launch(c)
  <2>1. start' = start
    BY <1>1 DEF Launch
  <2>2. PICK k \in 1..Len(containers) : Given(c) /\ ForTask(c, k)
    BY <1>1, ProgContainer
  <2>3. prog[c][1] < reqNo /\ prog[c][1] \in Nat /\ reqNo \in Nat
    BY <2>2, ProgType DEF FreshInv, RunInv
  <2>4. ASSUME RoundOver PROVE FALSE
    <3>1. prog[c] = <<reqNo, k>>
      BY <2>2, <2>4 DEF RoundOver, RunInv, PlacedInv, AllPlaced, ForTask
    <3>2. prog[c][1] = reqNo
      BY <3>1
    <3> QED
      BY <2>3, <3>2
  <2> QED
    BY <1>0, <2>1, <2>4 DEF RoundInv, RoundOver
<1>2. \A d \in Container : /\ spc'[d] = "born" /\ ~Launch(c) => spc[d] = "born"
                           /\ cpc'[d] = "forked" /\ ~Launch(c) => cpc[d] = "forked"
  <2>1. CASE ContainerStep(c) /\ ~Launch(c)
    BY <1>0, <2>1 DEF ContainerStep, Arm, PrepareRoot, AwaitTask, TakeTask,
         ContainerArrives, ContainerStarts, Measure, Deliver, Delivered, Cleanup,
         ContainerSigchld, ContainerDies, ContainerGone
  <2>2. CASE ~ContainerStep(c)
    BY <1>0, <2>2 DEF StepOf, ContainerStep, TimeLimit, ContainerFails,
         ContainerDies, SlaveStep, SlaveArrives, SlaveStarts, Exec, SlaveFails,
         ProgramEnds
  <2> QED
    BY <2>1, <2>2
<1>3. ASSUME NEW p \in {ContainerOf(c), SlaveOf(c)}, start' = Arrive(start, p),
             ~Launch(c), Busy(c), ~RoundOver,
             p = ContainerOf(c) => cpc'[c] # "forked",
             p = SlaveOf(c) => spc'[c] # "born"
      PROVE  RoundInv'
  <2>1. Cardinality(start'.waiting) < start'.need
    BY <1>0, <1>3, ArriveCount DEF RoundInv
  <2>2. Current(c) /\ Begun
    BY <1>3 DEF RunInv, CurrentInv
  <2>3. CASE CompletesRound(start, p)
    <3>1. start'.waiting = {}
      BY <1>0, <1>3, <2>3 DEF Arrive, BarrierOver
    <3>2. TheWorker \in start.waiting
      BY <1>3, <2>2, <2>3, EverybodyIn, PartiesDiffer DEF RunInv
    <3>3. wpc' \in {"starting", "dead"}
      BY <1>0, <3>2 DEF MeetingInv, StartInv, InStart, Inside
    <3>4. ASSUME NEW d \in Container
          PROVE  spc'[d] # "born" /\ cpc'[d] # "forked"
      <4>1. /\ spc[d] = "born" => p = SlaveOf(d)
            /\ cpc[d] = "forked" => p = ContainerOf(d)
        BY <1>3, <2>2, <2>3, NobodyLate DEF RunInv
      <4> QED
        BY <1>2, <1>3, <4>1, PartiesDiffer
    <3> QED
      BY <1>0, <2>1, <3>1, <3>3, <3>4 DEF RoundInv
  <2>4. CASE ~CompletesRound(start, p)
    <3>1. start'.leaving = start.leaving
      BY <1>0, <1>3, <2>4 DEF Arrive, BarrierOver
    <3> QED
      BY <1>0, <1>3, <2>1, <3>1 DEF RoundInv, RoundOver
  <2> QED
    BY <2>3, <2>4
<1>4. CASE ContainerArrives(c)
  <2>1. /\ start' = Arrive(start, ContainerOf(c)) /\ cpc[c] = "forked"
        /\ cpc'[c] = "waitStart" /\ ~Launch(c)
    BY <1>0, <1>4 DEF ContainerArrives, Launch
  <2>2. Busy(c) /\ ~RoundOver
    BY <2>1 DEF Busy, Working, RoundInv
  <2> QED
    BY <1>3, <2>1, <2>2, PartiesDiffer
<1>5. CASE SlaveArrives(c)
  <2>1. /\ start' = Arrive(start, SlaveOf(c)) /\ spc[c] = "born"
        /\ spc'[c] = "await" /\ cpc' = cpc
    BY <1>0, <1>5 DEF SlaveArrives
  <2>2. Busy(c) /\ ~RoundOver
    BY <2>1 DEF Busy, RoundInv
  <2>3. ~Launch(c)
    BY <1>0, <2>1 DEF Launch
  <2> QED
    BY <1>3, <2>1, <2>2, <2>3, PartiesDiffer
<1>6. CASE /\ ~Launch(c) /\ start'.waiting = start.waiting
           /\ start'.leaving \subseteq start.leaving
  BY <1>0, <1>2, <1>6 DEF RoundInv, RoundOver
<1>7. CASE ContainerStarts(c) \/ SlaveStarts(c)
  <2>1. ~Launch(c)
    BY <1>0, <1>7 DEF ContainerStarts, SlaveStarts, Launch
  <2>2. start'.waiting = start.waiting /\ start'.leaving \subseteq start.leaving
    BY <1>0, <1>7 DEF ContainerStarts, SlaveStarts, Leave, BarrierOver
  <2> QED
    BY <1>6, <2>1, <2>2
<1>8. CASE ~Launch(c) /\ start' = start
  BY <1>6, <1>8
<1>9. CASE ContainerStep(c) /\ ~ContainerArrives(c) /\ ~ContainerStarts(c)
  BY <1>1, <1>8, <1>9 DEF ContainerStep, Arm, PrepareRoot, AwaitTask, TakeTask,
       Measure, Deliver, Delivered, Cleanup, ContainerSigchld, ContainerGone
<1>10. CASE ~ContainerStep(c) /\ ~SlaveArrives(c) /\ ~SlaveStarts(c)
  BY <1>8, <1>10 DEF StepOf, ContainerStep, TimeLimit, ContainerFails, SlaveStep,
       Exec, SlaveFails, ProgramEnds
<1> QED
  BY <1>4, <1>5, <1>7, <1>9, <1>10

LEMMA RoundWorker ==
  ASSUME Inv, MeetingInv, RunInv, RoundInv, WorkerNext
  PROVE  RoundInv'
<1>0. /\ start \in BarrierOver(Party) /\ spc' = spc
      /\ \A d \in Container : cpc'[d] = "forked" => cpc[d] = "forked"
  <2>1. \A d \in Container : cpc'[d] = "forked" => cpc[d] = "forked"
    BY WorkerOn
  <2> QED
    BY <2>1, WorkerLeaves DEF Inv, TypeOK, SharedTypeOK, MeetingInv
<1>1. CASE WorkerArrives
  <2>1. /\ start' = Arrive(start, TheWorker) /\ wpc = "meet"
        /\ wpc' = "starting" /\ cpc' = cpc
    BY <1>1 DEF WorkerArrives, WorkerAt, containerVars
  <2>2. Begun /\ start.leaving = {}
    BY <2>1 DEF MeetingInv, BegunInv, RoundInv
  <2>3. Cardinality(start'.waiting) < start'.need /\ InStart(TheWorker)'
    BY <1>0, <2>1, ArriveCount, ArriveInside DEF RoundInv, InStart
  <2>4. CASE CompletesRound(start, TheWorker)
    <3>1. start'.waiting = {}
      BY <1>0, <2>1, <2>4 DEF Arrive, BarrierOver
    <3>2. \A d \in Container : spc'[d] # "born" /\ cpc'[d] # "forked"
      BY <1>0, <2>1, <2>2, <2>4, NobodyLate, PartiesDiffer DEF RunInv
    <3> QED
      BY <2>1, <2>3, <3>1, <3>2 DEF RoundInv
  <2>5. CASE ~CompletesRound(start, TheWorker)
    <3>1. start'.leaving = start.leaving
      BY <1>0, <2>1, <2>5 DEF Arrive, BarrierOver
    <3> QED
      BY <2>1, <2>2, <2>3, <3>1 DEF RoundInv, RoundOver
  <2> QED
    BY <2>4, <2>5
<1>2. CASE WorkerStarts
  <2>1. /\ start' = Leave(start, TheWorker) /\ wpc' = "close"
        /\ start.leaving # {}
    BY <1>2 DEF WorkerStarts, Released
  <2>2. start'.waiting = start.waiting /\ start'.need = start.need
    BY <1>0, <2>1 DEF Leave, BarrierOver
  <2> QED
    BY <1>0, <2>1, <2>2 DEF RoundInv, RoundOver
<1>3. CASE ResetBarrier
  <2>1. /\ start'.waiting = {} /\ start'.leaving = {} /\ wpc' = "write"
        /\ start'.need = StartParties(Len(containers))
    BY <1>3 DEF ResetBarrier, NewBarrier
  <2>2. 0 < StartParties(Len(containers))
    <3>1. Len(containers) \in Nat
      BY DEF Inv, TypeOK, WorkerTypeOK
    <3> QED
      BY <3>1 DEF StartParties
  <2> QED
    BY <2>1, <2>2, FS_EmptySet DEF RoundInv, RoundOver
<1>4. CASE /\ start' = start
           /\ wpc' = "starting" => wpc = "starting"
           /\ wpc' \in {"close", "collect", "collecting", "reap"} => RoundOver
           /\ \/ wpc' = wpc
              \/ wpc \in {"accept", "prepare", "write", "reap", "respond"}
              \/ wpc \in {"meet", "meeting"}
              \/ wpc' \in {"close", "collect", "collecting", "reap", "dead"}
  <2>1. start.leaving # {} =>
          wpc' \in {"starting", "close", "collect", "collecting", "reap", "dead"}
    BY <1>4, NobodyInside DEF RoundInv
  <2>2. RoundOver' => RoundOver
    BY <1>4 DEF RoundOver
  <2> QED
    BY <1>0, <1>4, <2>1, <2>2 DEF RoundInv, InStart
<1>5. CASE WorkerStep /\ ~WorkerArrives /\ ~WorkerStarts /\ ~ResetBarrier
  BY <1>4, <1>5 DEF WorkerStep, PrepareContainer, SetTask, NextLoop,
       EnterMeeting, HandOver, ClosePipes, CollectResult, Reap, Collected,
       Respond, WorkerSigchld, WorkerEnds, WorkerAt, RoundOver
<1>6. CASE ~WorkerStep
  BY <1>4, <1>6 DEF WorkerNext, Accept, Reject, Stop, WorkerFails, WorkerEnds,
       WorkerAt
<1> QED
  BY <1>1, <1>2, <1>3, <1>5, <1>6

LEMMA ArriveKeeps ==
  ASSUME NEW P, NEW b \in BarrierOver(P), NEW p
  PROVE  /\ b.leaving \subseteq Arrive(b, p).leaving
         /\ Arrive(b, p).waiting \subseteq b.waiting \cup {p}
<1>1. CASE CompletesRound(b, p)
  <2>1. /\ Arrive(b, p).leaving = b.leaving \cup b.waiting \cup {p}
        /\ Arrive(b, p).waiting = {}
    BY <1>1 DEF Arrive, BarrierOver
  <2> QED
    BY <2>1
<1>2. CASE ~CompletesRound(b, p)
  <2>1. /\ Arrive(b, p).leaving = b.leaving
        /\ Arrive(b, p).waiting = b.waiting \cup {p}
    BY <1>2 DEF Arrive, BarrierOver
  <2> QED
    BY <2>1
<1> QED
  BY <1>1, <1>2

\* No run goes on, or is over, whose start the worker has not passed.
PastInv == wpc # "dead" => \A c \in Container : Past(c) => Started

LEMMA PastContainer ==
  ASSUME Inv, MeetingInv, RoundInv, PastInv, NEW c \in Container, StepOf(c)
  PROVE  PastInv'
<1>0. /\ wpc' = wpc /\ start \in BarrierOver(Party)
      /\ cpc \in [Container -> ContainerPc] /\ spc \in [Container -> SlavePc]
      /\ DOMAIN meet = Container
  BY StepOfFrame
     DEF Inv, TypeOK, SharedTypeOK, ContainerTypeOK, SlaveTypeOK
<1> USE DEF ContainerAt, containerVars, slaveVars
<1>1. wpc # "dead" /\ start.leaving # {} => Started
  BY DEF RoundInv, RoundOver, Started, InStart, Inside
<1>2. TheWorker \in start.leaving => TheWorker \in start'.leaving
  <2>1. CASE ContainerArrives(c) \/ SlaveArrives(c)
    <3>1. \E p : start' = Arrive(start, p)
      BY <2>1 DEF ContainerArrives, SlaveArrives
    <3> QED
      BY <1>0, <3>1, ArriveKeeps
  <2>2. CASE ContainerStarts(c) \/ SlaveStarts(c)
    BY <1>0, <2>2, PartiesDiffer
       DEF ContainerStarts, SlaveStarts, Leave, BarrierOver
  <2>3. CASE ContainerStep(c) /\ ~ContainerArrives(c) /\ ~ContainerStarts(c)
    BY <2>3 DEF ContainerStep, Arm, PrepareRoot, AwaitTask, TakeTask, Launch,
         Measure, Deliver, Delivered, Cleanup, ContainerSigchld, ContainerGone
  <2>4. CASE ~ContainerStep(c) /\ ~SlaveArrives(c) /\ ~SlaveStarts(c)
    BY <2>4 DEF StepOf, ContainerStep, TimeLimit, ContainerFails, SlaveStep,
         Exec, SlaveFails, ProgramEnds
  <2> QED
    BY <2>1, <2>2, <2>3, <2>4
<1>3. ASSUME NEW d \in Container, Past(d)'
      PROVE  Past(d) \/ start.leaving # {}
  <2>1. CASE d # c
    BY <1>3, <2>1, StepOfOthers DEF Past
  <2>2. CASE d = c /\ (ContainerStarts(c) \/ SlaveStarts(c))
    BY <2>2 DEF ContainerStarts, SlaveStarts, Released
  <2>3. CASE d = c /\ (\/ Deliver(c) \/ Delivered(c) \/ Measure(c) \/ TimeLimit(c)
                       \/ ProgramEnds(c) \/ Exec(c))
    <3>1. \/ cpc[c] \in {"watch", "killing", "finish"}
          \/ spc[c] \in {"setup", "run"}
          \/ cpc[c] = "waitResults" /\ cpc'[c] = "cleanup"
          \/ cpc[c] = "waitResults" /\ c[1] = "temp"
      BY <1>0, <2>3 DEF Deliver, Delivered, Measure, TimeLimit, ProgramEnds, Exec
    <3>2. CASE cpc[c] = "waitResults" /\ cpc'[c] = "cleanup"
      <4>1. spc'[c] = spc[c]
        BY <2>3, <3>2, <1>0 DEF Deliver, Delivered, Measure, TimeLimit,
             ProgramEnds, Exec
      <4> QED
        BY <1>3, <2>3, <3>2, <4>1 DEF Past
    <3> QED
      BY <2>3, <3>1, <3>2 DEF Past
  <2>4. CASE d = c /\ (Arm(c) \/ PrepareRoot(c) \/ AwaitTask(c) \/ TakeTask(c)
                         \/ Launch(c) \/ ContainerArrives(c) \/ Cleanup(c))
    <3>1. cpc'[c] \in {"armed", "ready", "waitTask", "launch", "forked",
                       "waitStart"}
      BY <1>0, <2>4 DEF Arm, PrepareRoot, AwaitTask, TakeTask, Launch,
           ContainerArrives, Cleanup
    <3>2. spc'[c] = spc[c] \/ spc'[c] = "born"
      BY <1>0, <2>4 DEF Arm, PrepareRoot, AwaitTask, TakeTask, Launch,
           ContainerArrives, Cleanup
    <3> QED
      BY <1>3, <2>4, <3>1, <3>2 DEF Past
  <2>5. CASE d = c /\ (ContainerSigchld(c) \/ ContainerFails(c) \/ ContainerGone(c))
    <3>1. /\ cpc'[c] = cpc[c] \/ cpc'[c] \in {"exiting", "dead"}
          /\ spc'[c] = spc[c] \/ spc'[c] = "absent"
          /\ meet' = meet
      BY <1>0, <2>5 DEF ContainerSigchld, ContainerFails, ContainerDies,
           ContainerGone
    <3> QED
      BY <1>3, <2>5, <3>1 DEF Past
  <2>6. CASE d = c /\ (SlaveArrives(c) \/ SlaveFails(c))
    <3>1. cpc' = cpc /\ meet' = meet /\ spc'[c] \in {"await", "failed"}
      BY <1>0, <2>6 DEF SlaveArrives, SlaveFails
    <3> QED
      BY <1>3, <2>6, <3>1 DEF Past
  <2> QED
    BY <2>1, <2>2, <2>3, <2>4, <2>5, <2>6 DEF StepOf, ContainerStep, SlaveStep
<1> QED
  BY <1>0, <1>1, <1>2, <1>3 DEF PastInv, Started

LEMMA PastWorker ==
  ASSUME Inv, MeetingInv, RoundInv, PastInv, WorkerNext
  PROVE  PastInv'
<1> SUFFICES ASSUME wpc' # "dead", NEW c \in Container, Past(c)'
             PROVE  Started'
  BY DEF PastInv
<1>1. wpc # "dead"
  BY DEF WorkerNext, WorkerStep, PrepareContainer, ResetBarrier, SetTask,
     NextLoop, EnterMeeting, HandOver, WorkerArrives, WorkerStarts, ClosePipes,
     CollectResult, Reap, Collected, Respond, WorkerSigchld, WorkerFails,
     WorkerEnds, WorkerAt, Accept, Reject, Stop, MeetingInv, QuietInv
<1>2. Past(c)
  <2>0. /\ DOMAIN meet = Container
        /\ meet[c] \in BarrierOver({"worker", "container"})
    BY DEF Inv, TypeOK, SharedTypeOK
  <2>1. CASE "container" \in meet'[c].waiting => "container" \in meet[c].waiting
    BY <2>1, WorkerOn DEF Past
  <2>2. CASE \/ EnterMeeting("meet", "meeting")
             \/ EnterMeeting("collect", "collecting")
    <3>1. meet'[c] = meet[c] \/ meet'[c] = Arrive(meet[c], "worker")
      BY <2>0, <2>2 DEF EnterMeeting
    <3>2. Arrive(meet[c], "worker").waiting \subseteq meet[c].waiting \cup {"worker"}
      BY <2>0, ArriveKeeps
    <3>3. "container" # "worker"
      OBVIOUS
    <3> QED
      BY <2>1, <3>1, <3>2, <3>3
  <2>3. CASE HandOver \/ CollectResult
    <3>1. meet'[c] = meet[c] \/ meet'[c] = Leave(meet[c], "worker")
      BY <2>0, <2>3 DEF HandOver, CollectResult
    <3> QED
      BY <2>0, <2>1, <3>1 DEF Leave, BarrierOver
  <2>4. CASE PrepareContainer
    BY <2>1, <2>4, MadeAnew DEF MeetingInv, NewBarrier
  <2>5. CASE meet' = meet
    BY <2>1, <2>5
  <2>6. CASE \/ ResetBarrier \/ SetTask \/ NextLoop \/ WorkerArrives
             \/ WorkerStarts \/ ClosePipes \/ Reap \/ Collected \/ Respond
             \/ WorkerSigchld
    BY <2>5, <2>6 DEF ResetBarrier, SetTask, NextLoop, WorkerArrives,
         WorkerStarts, ClosePipes, Reap, Collected, Respond, WorkerSigchld,
         WorkerEnds
  <2>7. CASE ~WorkerStep
    BY <2>5, <2>7 DEF WorkerNext, Accept, Reject, Stop, WorkerFails, WorkerEnds
  <2> QED
    BY <2>2, <2>3, <2>4, <2>6, <2>7 DEF WorkerStep
<1>3. Started
  BY <1>1, <1>2 DEF PastInv
<1>4. ~Collected
  <2> SUFFICES ASSUME Collected PROVE FALSE
    OBVIOUS
  <2>1. wpc = "reap" /\ ~(i <= Len(containers)) /\ i \in Nat
        /\ Len(containers) \in Nat
    BY MaxTasksAssumption DEF Collected, WorkerAt, Inv, TypeOK, WorkerTypeOK
  <2>2. Position(c) = "before"
    BY <2>1, SeenOutside DEF Position
  <2>3. Done(c) /\ cpc[c] \notin Working /\ Match("before", cpc[c], meet[c])
    BY <1>1, <2>2, IdleBefore DEF MeetingInv, MeetInv
  <2>4. ~(cpc[c] = "waitResults" /\ "container" \in meet[c].waiting)
    BY <2>3, BarHolds DEF Match, Resting, Over
  <2>5. c[1] = "temp" => cpc[c] = "absent"
    <3> SUFFICES ASSUME c[1] = "temp", cpc[c] # "absent" PROVE FALSE
      OBVIOUS
    <3>1. PICK k \in 1..MaxTasks : c = <<"temp", k>>
      BY DEF Container
    <3>2. k <= Len(containers) /\ k >= i
      BY <2>1, <3>1 DEF MeetingInv, TempInv
    <3> QED
      BY <2>1, <3>2
  <2> QED
    BY <1>2, <2>3, <2>4, <2>5 DEF Past, Done, Working
<1>5. CASE WorkerStarts
  BY <1>5 DEF WorkerStarts, Started
<1>6. CASE start' = start
  <2>1. CASE WorkerStep
    BY <1>3, <1>4, <1>6, <2>1 DEF WorkerStep, PrepareContainer, ResetBarrier,
         SetTask, NextLoop, EnterMeeting, HandOver, WorkerArrives, WorkerStarts,
         ClosePipes, CollectResult, Reap, Respond, WorkerSigchld, WorkerEnds,
         WorkerAt, Started
  <2>2. CASE ~WorkerStep
    BY <1>3, <1>6, <2>2 DEF WorkerNext, Accept, Reject, Stop, WorkerFails,
         WorkerEnds, WorkerAt, Started
  <2> QED
    BY <2>1, <2>2
<1>7. ~WorkerArrives /\ ~ResetBarrier
  BY <1>3 DEF WorkerArrives, ResetBarrier, WorkerAt, Started
<1>8. CASE WorkerStep /\ ~WorkerStarts
  BY <1>6, <1>7, <1>8 DEF WorkerStep, PrepareContainer, SetTask, NextLoop,
       EnterMeeting, HandOver, ClosePipes, CollectResult, Reap, Collected,
       Respond, WorkerSigchld, WorkerEnds
<1>9. CASE ~WorkerStep
  BY <1>6, <1>9 DEF WorkerNext, Accept, Reject, Stop, WorkerFails, WorkerEnds
<1> QED
  BY <1>5, <1>8, <1>9

\* Where a container may be missing or over while the worker goes on: one that
\* was just made is of the request at hand, none of the request is missing
\* before it is reaped, and one that has exited was there to hand its result.
UseInv ==
  /\ wpc # "dead" => \A c \in Container : cpc[c] = "exited" =>
       \/ Position(c) = "before"
       \/ Position(c) = "taking" /\ "worker" \in meet[c].leaving
  /\ wpc \notin {"dead", "stopped"} => \A k \in 1..Len(containers) :
       cpc[containers[k]] = "absent" => wpc = "reap" /\ k < i
  /\ \A c \in Container : cpc[c] = "cloned" =>
       \E k \in 1..Len(containers) : containers[k] = c

LEMMA LeavesWithResult ==
  ASSUME NEW pos \in Positions, NEW b, Match(pos, "waitResults", b),
         "container" \in b.leaving
  PROVE  /\ pos \in {"before", "handing", "taking"}
         /\ pos = "taking" => "worker" \in b.leaving
BY BarHolds DEF Match, Resting, Working, Over, Positions

LEMMA UseContainer ==
  ASSUME Inv, MeetingInv, PastInv, UseInv, NEW c \in Container, StepOf(c)
  PROVE  UseInv'
<1>0. /\ UNCHANGED <<wpc, i, containers>>
      /\ \A d \in Container : Position(d)' = Position(d)
      /\ cpc \in [Container -> ContainerPc] /\ DOMAIN meet = Container
      /\ containers \in Seq(Container)
  BY StepOfFrame
     DEF Inv, TypeOK, ContainerTypeOK, SharedTypeOK, WorkerTypeOK
<1>1. ASSUME NEW d \in Container, cpc'[d] = "cloned" PROVE cpc[d] = "cloned"
  <2>1. CASE d # c
    BY <1>1, <2>1, StepOfOthers
  <2>2. CASE d = c /\ ContainerStep(c)
    BY <1>0, <1>1, <2>2 DEF ContainerStep, Arm, PrepareRoot, AwaitTask, TakeTask,
         Launch, ContainerArrives, ContainerStarts, Measure, Deliver, Delivered,
         Cleanup, ContainerSigchld, ContainerDies, ContainerGone
  <2>3. CASE d = c /\ ~ContainerStep(c)
    BY <1>0, <1>1, <2>3 DEF StepOf, TimeLimit, ContainerFails, ContainerDies,
         SlaveStep, SlaveArrives, SlaveStarts, Exec, SlaveFails, ProgramEnds,
         containerVars
  <2> QED
    BY <2>1, <2>2, <2>3
<1>2. ASSUME NEW d \in Container, cpc'[d] = "exited", wpc # "dead"
      PROVE  \/ Position(d) = "before"
             \/ Position(d) = "taking" /\ "worker" \in meet'[d].leaving
  <2>1. CASE d # c
    BY <1>2, <2>1, StepOfOthers DEF UseInv
  <2>2. CASE d = c /\ Delivered(c)
    <3>1. /\ cpc[c] = "waitResults" /\ "container" \in meet[c].leaving
          /\ meet'[c] = Leave(meet[c], "container") /\ c[1] = "temp"
      BY <1>0, <1>2, <2>2 DEF Delivered, ContainerAt, Released
    <3>2. PICK pos \in Positions :
            Match(pos, cpc[c], meet[c]) /\ pos = Position(c)
      BY <1>2 DEF MeetingInv, MeetInv
    <3>3. /\ pos \in {"before", "handing", "taking"}
          /\ pos = "taking" => "worker" \in meet[c].leaving
      BY <3>1, <3>2, LeavesWithResult
    <3>4. pos # "handing"
      <4>1. Started
        BY <1>2, <3>1 DEF PastInv, Past
      <4>2. wpc \notin {"meeting"}
        BY <4>1 DEF Started
      <4>3. Position(c) # "handing"
        BY <4>2 DEF Position, SeenFrom, Seen
      <4> QED
        BY <3>2, <4>3
    <3>5. "worker" \in meet[c].leaving => "worker" \in meet'[c].leaving
      BY <3>1 DEF Leave, Inv, TypeOK, SharedTypeOK, BarrierOver
    <3> QED
      BY <2>2, <3>2, <3>3, <3>4, <3>5
  <2>3. CASE d = c /\ ~Delivered(c)
    <3>1. cpc[c] = "exited" /\ meet' = meet
      <4>1. CASE ContainerStep(c)
        BY <1>0, <1>2, <2>3, <4>1 DEF ContainerStep, ContainerAt, Arm,
             PrepareRoot, AwaitTask, TakeTask, Launch, ContainerArrives,
             ContainerStarts, Measure, Deliver, Cleanup, ContainerSigchld,
             ContainerDies, ContainerGone, Over
      <4>2. CASE ~ContainerStep(c)
        BY <1>0, <1>2, <2>3, <4>2 DEF StepOf, TimeLimit, ContainerFails,
             ContainerDies, SlaveStep, SlaveArrives, SlaveStarts, Exec,
             SlaveFails, ProgramEnds, containerVars
      <4> QED
        BY <4>1, <4>2
    <3> QED
      BY <1>2, <2>3, <3>1 DEF UseInv
  <2> QED
    BY <2>1, <2>2, <2>3
<1>3. ASSUME wpc \notin {"dead", "stopped"}, NEW k \in 1..Len(containers),
             cpc'[containers[k]] = "absent"
      PROVE  wpc = "reap" /\ k < i
  <2>1. containers[k] \in Container
    BY <1>0
  <2>2. cpc[containers[k]] = "absent"
    BY <1>3, <2>1, StepOfAbsent
  <2> QED
    BY <1>3, <2>2 DEF UseInv
<1> QED
  BY <1>0, <1>1, <1>2, <1>3 DEF UseInv

LEMMA WorkerAlive ==
  ASSUME Inv, MeetingInv, WorkerNext, wpc' # "dead"
  PROVE  wpc # "dead"
BY DEF WorkerNext, WorkerStep, PrepareContainer, ResetBarrier, SetTask,
   NextLoop, EnterMeeting, HandOver, WorkerArrives, WorkerStarts, ClosePipes,
   CollectResult, Reap, Collected, Respond, WorkerSigchld, WorkerFails,
   WorkerEnds, WorkerAt, Accept, Reject, Stop, MeetingInv, QuietInv

LEMMA ExitedWorker ==
  ASSUME Inv, MeetingInv, WaitInv, PastInv, UseInv, WorkerNext, wpc' # "dead",
         NEW c \in Container, cpc'[c] = "exited"
  PROVE  \/ Position(c)' = "before"
         \/ Position(c)' = "taking" /\ "worker" \in meet'[c].leaving
<1>1. wpc # "dead"
  BY WorkerAlive
<1>2. cpc[c] = "exited"
  BY WorkerOn
<1>3. \/ Position(c) = "before"
      \/ Position(c) = "taking" /\ "worker" \in meet[c].leaving
  BY <1>1, <1>2 DEF UseInv
<1>4. c[1] = "temp" /\ Started
  BY <1>1, <1>2 DEF WaitInv, WaitAt, PastInv, Past
<1>5. DOMAIN meet = Container
  BY DEF Inv, TypeOK, SharedTypeOK
<1>6. CASE Position(c)' = Position(c) /\ meet'[c] = meet[c]
  BY <1>3, <1>6
<1>7. ~EnterMeeting("meet", "meeting")
  BY <1>4 DEF EnterMeeting, WorkerAt, Started
<1>8. CASE HandOver
  <2>1. /\ Position(containers[i]) = "handing"
        /\ Position(c)' = IF c = containers[i] THEN "away" ELSE Position(c)
    BY <1>8, PositionMoves
  <2>2. c # containers[i]
    BY <1>3, <2>1
  <2>3. meet'[c] = meet[c]
    BY <1>5, <1>8, <2>2 DEF HandOver
  <2> QED
    BY <1>6, <2>1, <2>2, <2>3
<1>9. CASE EnterMeeting("collect", "collecting")
  <2>1. /\ Position(containers[i]) = "away"
        /\ Position(c)' = IF c = containers[i] THEN "taking" ELSE Position(c)
    BY <1>9, PositionMoves
  <2>2. c # containers[i]
    BY <1>3, <2>1
  <2>3. meet'[c] = meet[c]
    BY <1>5, <1>9, <2>2 DEF EnterMeeting
  <2> QED
    BY <1>6, <2>1, <2>2, <2>3
<1>10. CASE CollectResult
  <2>1. /\ containers[i] \in Container
        /\ Position(c)' = IF c = containers[i] THEN "before" ELSE Position(c)
    BY <1>10, PositionMoves
  <2>2. c # containers[i] => meet'[c] = meet[c]
    BY <1>5, <1>10 DEF CollectResult
  <2> QED
    BY <1>6, <2>1, <2>2
<1>11. CASE PrepareContainer
  <2>1. Position(c)' = Position(c)
    BY <1>11, PositionKept
  <2>2. meet'[c] = meet[c]
    BY <1>2, <1>11, MadeAnew DEF MeetingInv
  <2> QED
    BY <1>6, <2>1, <2>2
<1>12. CASE WorkerSigchld
  <2>1. UNCHANGED <<wpc, i, containers, meet>>
    BY <1>12 DEF WorkerSigchld, WorkerEnds
  <2> QED
    BY <1>6, <2>1 DEF Position
<1>13. CASE \/ ResetBarrier \/ SetTask \/ NextLoop \/ WorkerArrives
            \/ WorkerStarts \/ ClosePipes \/ Reap \/ Collected \/ Respond
            \/ Reject \/ Stop \/ \E r \in Requests : Accept(r)
  <2>1. Position(c)' = Position(c)
    BY <1>13, PositionKept
  <2>2. meet' = meet
    BY <1>13 DEF ResetBarrier, SetTask, NextLoop, WorkerArrives, WorkerStarts,
         ClosePipes, Reap, Collected, Respond, Reject, Stop, Accept, WorkerEnds
  <2> QED
    BY <1>6, <2>1, <2>2
<1>14. ~WorkerFails
  BY DEF WorkerFails, WorkerEnds
<1> QED
  BY <1>7, <1>8, <1>9, <1>10, <1>11, <1>12, <1>13, <1>14
     DEF WorkerNext, WorkerStep

LEMMA MadeWorker ==
  ASSUME Inv, Inv', MeetingInv, UseInv, WorkerNext,
         wpc' \notin {"dead", "stopped"}, NEW k \in 1..Len(containers'),
         cpc'[containers'[k]] = "absent"
  PROVE  wpc' = "reap" /\ k < i'
<1>0. /\ containers \in Seq(Container) /\ containers' \in Seq(Container)
      /\ containers'[k] \in Container /\ DOMAIN cpc = Container
      /\ i \in Nat /\ Len(containers) \in Nat /\ k \in Nat
  BY MaxTasksAssumption DEF Inv, TypeOK, WorkerTypeOK, ContainerTypeOK
<1>1. wpc \notin {"dead", "stopped"}
  BY WorkerAlive
     DEF WorkerNext, WorkerStep, PrepareContainer, ResetBarrier, SetTask,
         NextLoop, EnterMeeting, HandOver, WorkerArrives, WorkerStarts,
         ClosePipes, CollectResult, Reap, Collected, Respond, WorkerSigchld,
         WorkerFails, WorkerEnds, WorkerAt, Accept, Reject, Stop, MeetingInv,
         QuietInv
<1>2. ASSUME NEW m \in 1..Len(containers), cpc[containers[m]] = "absent"
      PROVE  wpc = "reap" /\ m < i
  BY <1>1, <1>2 DEF UseInv
<1>3. CASE PrepareContainer
  <2> DEFINE p == ContainerFor(tasks[i], i, nextPerm)
  <2>1. /\ wpc = "prepare" /\ containers' = Append(containers, p)
        /\ \/ cpc' = [cpc EXCEPT ![p] = "cloned"]
           \/ cpc' = cpc /\ cpc[p] # "absent"
    BY <1>3 DEF PrepareContainer, WorkerAt
  <2> HIDE DEF p
  <2>2. CASE k <= Len(containers)
    <3>1. containers'[k] = containers[k] /\ k \in 1..Len(containers)
      BY <1>0, <2>1, <2>2
    <3>2. cpc[containers[k]] = "absent"
      BY <1>0, <2>1, <3>1
    <3> QED
      BY <1>2, <2>1, <3>1, <3>2
  <2>3. CASE ~(k <= Len(containers))
    <3>1. containers'[k] = p /\ p \in Container
      BY <1>0, <2>1, <2>3
    <3> QED
      BY <1>0, <2>1, <3>1
  <2> QED
    BY <2>2, <2>3
<1>4. CASE Reap
  <2>1. /\ wpc = "reap" /\ wpc' = "reap" /\ i' = i + 1
        /\ containers' = containers /\ i <= Len(containers)
        /\ cpc' = cpc \/ cpc' = [cpc EXCEPT ![containers[i]] = "absent"]
    BY <1>4 DEF Reap, WorkerAt
  <2>2. CASE k = i
    BY <1>0, <2>1, <2>2
  <2>3. CASE cpc[containers[k]] = "absent"
    BY <1>0, <1>2, <2>1, <2>3
  <2>4. CASE k # i /\ cpc[containers[k]] # "absent"
    <3>1. k \in 1..Len(containers) /\ i \in 1..Len(containers)
      BY <1>0, <2>1, MaxTasksAssumption DEF Inv, TypeOK, WorkerTypeOK
    <3>2. containers[k] # containers[i]
      BY <2>4, <3>1 DEF Inv, ContainersDistinct
    <3> QED
      BY <1>0, <2>1, <2>4, <3>2
  <2> QED
    BY <2>2, <2>3, <2>4
<1>5. ~Collected
  BY <1>0 DEF Collected
<1>6. CASE ~PrepareContainer /\ ~Reap /\ containers' = containers
  <2>1. cpc[containers[k]] = "absent" /\ k \in 1..Len(containers)
    BY <1>0, <1>6, WorkerOn
  <2>2. wpc = "reap" /\ k < i
    BY <1>2, <2>1
  <2>3. UNCHANGED <<wpc, i>>
    BY <1>5, <1>6, <2>2 DEF WorkerNext, WorkerStep, ResetBarrier, SetTask,
       NextLoop, EnterMeeting, HandOver, WorkerArrives, WorkerStarts, ClosePipes,
       CollectResult, Respond, WorkerSigchld, WorkerFails, WorkerEnds, WorkerAt,
       Accept, Reject, Stop
  <2> QED
    BY <2>2, <2>3
<1>7. containers' = containers \/ PrepareContainer \/ Collected
  BY DEF WorkerNext, WorkerStep, ResetBarrier, SetTask, NextLoop, EnterMeeting,
     HandOver, WorkerArrives, WorkerStarts, ClosePipes, CollectResult, Reap,
     Respond, WorkerSigchld, WorkerFails, WorkerEnds, Accept, Reject, Stop
<1> QED
  BY <1>3, <1>4, <1>5, <1>6, <1>7

LEMMA ClonedWorker ==
  ASSUME Inv, Inv', MeetingInv, OutcomeInv, WaitInv, UseInv, WorkerNext,
         NEW c \in Container, cpc'[c] = "cloned"
  PROVE  \E k \in 1..Len(containers') : containers'[k] = c
<1>0. /\ containers \in Seq(Container) /\ DOMAIN cpc = Container
      /\ Len(containers) \in Nat
  BY DEF Inv, TypeOK, WorkerTypeOK, ContainerTypeOK
<1>1. CASE PrepareContainer
  <2> DEFINE p == ContainerFor(tasks[i], i, nextPerm)
  <2>1. /\ containers' = Append(containers, p)
        /\ cpc' = [cpc EXCEPT ![p] = "cloned"] \/ cpc' = cpc
    BY <1>1 DEF PrepareContainer
  <2> HIDE DEF p
  <2>2. CASE c = p
    <3>1. /\ Len(containers) + 1 \in 1..Len(containers')
          /\ containers'[Len(containers) + 1] = p
      BY <1>0, <2>1
    <3> QED
      BY <2>2, <3>1
  <2>3. CASE c # p
    <3>1. cpc[c] = "cloned"
      BY <1>0, <2>1, <2>3
    <3>2. PICK k \in 1..Len(containers) : containers[k] = c
      BY <3>1 DEF UseInv
    <3>3. k \in 1..Len(containers') /\ containers'[k] = c
      BY <1>0, <2>1, <3>2
    <3> QED
      BY <3>3
  <2> QED
    BY <2>2, <2>3
<1>2. CASE ~PrepareContainer
  <2>1. cpc[c] = "cloned"
    BY <1>2, WorkerOn
  <2>2. PICK k \in 1..Len(containers) : containers[k] = c
    BY <2>1 DEF UseInv
  <2>3. ~Collected
    <3> SUFFICES ASSUME Collected PROVE FALSE
      OBVIOUS
    <3>1. wpc = "reap"
      BY DEF Collected, WorkerAt
    <3>2. Len(answers) = Len(containers)
      BY <3>1 DEF OutcomeInv, AnswersInv, Inv, LoopInv
    <3>3. HasResult(c)
      BY <2>2, <3>1, <3>2 DEF OutcomeInv, AnswersInv
    <3>4. PICK m \in 1..Len(containers) : prog[c] = <<reqNo, m>>
      BY <3>3 DEF HasResult, Current
    <3>5. prog[c][1] < reqNo
      BY <2>1 DEF WaitInv, WaitAt, Unused
    <3> QED
      BY <3>4, <3>5, ProgType
  <2>4. containers' = containers
    BY <1>2, <2>3 DEF WorkerNext, WorkerStep, ResetBarrier, SetTask, NextLoop,
       EnterMeeting, HandOver, WorkerArrives, WorkerStarts, ClosePipes,
       CollectResult, Reap, Respond, WorkerSigchld, WorkerFails, WorkerEnds,
       Accept, Reject, Stop
  <2> QED
    BY <2>2, <2>4
<1> QED
  BY <1>1, <1>2

LEMMA UseWorker ==
  ASSUME Inv, Inv', MeetingInv, OutcomeInv, WaitInv, PastInv, UseInv, WorkerNext
  PROVE  UseInv'
<1>1. wpc' # "dead" => \A c \in Container : cpc'[c] = "exited" =>
        \/ Position(c)' = "before"
        \/ Position(c)' = "taking" /\ "worker" \in meet'[c].leaving
  BY ExitedWorker
<1>2. wpc' \notin {"dead", "stopped"} => \A k \in 1..Len(containers') :
        cpc'[containers'[k]] = "absent" => wpc' = "reap" /\ k < i'
  BY MadeWorker
<1>3. \A c \in Container : cpc'[c] = "cloned" =>
        \E k \in 1..Len(containers') : containers'[k] = c
  BY ClonedWorker
<1> QED
  BY <1>1, <1>2, <1>3 DEF UseInv

\* A container that outlives the worker was cloned for a task it never gets a
\* start for: the worker is not, and will not be, in the run start barrier.
DeadInv ==
  wpc = "dead" => \A c \in Container :
    /\ cpc[c] \notin Over => start.leaving = {} /\ TheWorker \notin start.waiting
    /\ spc[c] \in {"setup", "run"} => cpc[c] = "exiting"

\* What a step of c or of its slave does to the run start barrier.
LEMMA StepAtStart ==
  ASSUME Inv, NEW c \in Container, StepOf(c)
  PROVE  \/ start' = start
         \/ /\ Busy(c)
            /\ \E p \in {ContainerOf(c), SlaveOf(c)} : start' = Arrive(start, p)
         \/ \E p : Released(start, p) /\ start' = Leave(start, p)
<1>1. CASE ContainerArrives(c)
  BY <1>1 DEF ContainerArrives, ContainerAt, Busy, Working
<1>2. CASE SlaveArrives(c)
  BY <1>2 DEF SlaveArrives, Busy
<1>3. CASE ContainerStarts(c) \/ SlaveStarts(c)
  BY <1>3 DEF ContainerStarts, SlaveStarts
<1>4. CASE ContainerStep(c) /\ ~ContainerArrives(c) /\ ~ContainerStarts(c)
  BY <1>4 DEF ContainerStep, Arm, PrepareRoot, AwaitTask, TakeTask, Launch,
       Measure, Deliver, Delivered, Cleanup, ContainerSigchld, ContainerGone
<1>5. CASE ~ContainerStep(c) /\ ~SlaveArrives(c) /\ ~SlaveStarts(c)
  BY <1>5 DEF StepOf, TimeLimit, ContainerFails, SlaveStep, Exec, SlaveFails,
       ProgramEnds
<1> QED
  BY <1>1, <1>2, <1>3, <1>4, <1>5

\* A container that is over stays so.
LEMMA OverStays ==
  ASSUME Inv, NEW c \in Container, StepOf(c), NEW d \in Container,
         cpc[d] \in Over
  PROVE  cpc'[d] \in Over
<1>0. cpc \in [Container -> ContainerPc]
  BY DEF Inv, TypeOK, ContainerTypeOK
<1>1. CASE d # c
  BY <1>1, StepOfOthers
<1>2. CASE d = c /\ ContainerStep(c)
  BY <1>0, <1>2 DEF ContainerStep, ContainerAt, Arm, PrepareRoot, AwaitTask,
       TakeTask, Launch, ContainerArrives, ContainerStarts, Measure, Deliver,
       Delivered, Cleanup, ContainerSigchld, ContainerDies, ContainerGone, Over
<1>3. CASE d = c /\ ~ContainerStep(c)
  BY <1>0, <1>3 DEF StepOf, ContainerAt, TimeLimit, ContainerFails,
       ContainerDies, SlaveStep, SlaveArrives, SlaveStarts, Exec, SlaveFails,
       ProgramEnds, containerVars, Over
<1> QED
  BY <1>1, <1>2, <1>3

LEMMA DeadContainer ==
  ASSUME Inv, MeetingInv, RunInv, DeadInv, NEW c \in Container, StepOf(c)
  PROVE  DeadInv'
<1> SUFFICES ASSUME wpc = "dead", NEW d \in Container
             PROVE  /\ cpc'[d] \notin Over =>
                         start'.leaving = {} /\ TheWorker \notin start'.waiting
                    /\ spc'[d] \in {"setup", "run"} => cpc'[d] = "exiting"
  BY StepOfFrame DEF DeadInv
<1>0. /\ start \in BarrierOver(Party)
      /\ cpc \in [Container -> ContainerPc] /\ spc \in [Container -> SlavePc]
      /\ LocalAt(d)
  BY DEF Inv, TypeOK, SharedTypeOK, ContainerTypeOK, SlaveTypeOK, MeetingInv,
         LocalInv
<1>1. ASSUME cpc'[d] \notin Over
      PROVE  start'.leaving = {} /\ TheWorker \notin start'.waiting
  <2>1. start.leaving = {} /\ TheWorker \notin start.waiting
    BY <1>1, OverStays DEF DeadInv
  <2>2. ASSUME NEW p \in {ContainerOf(c), SlaveOf(c)}, Busy(c),
               start' = Arrive(start, p)
        PROVE  start'.leaving = {} /\ TheWorker \notin start'.waiting
    <3>1. Current(c) /\ Begun
      BY <2>2 DEF RunInv, CurrentInv
    <3>2. TheWorker # p
      BY PartiesDiffer
    <3>3. ~CompletesRound(start, p)
      BY <2>1, <3>1, <3>2, EverybodyIn DEF RunInv
    <3>4. start'.leaving = start.leaving /\ start'.waiting = start.waiting \cup {p}
      BY <1>0, <2>2, <3>3 DEF Arrive, BarrierOver
    <3> QED
      BY <2>1, <3>2, <3>4
  <2>3. ~ \E p : Released(start, p)
    BY <2>1 DEF Released
  <2> QED
    BY <2>1, <2>2, <2>3, StepAtStart
<1>2. ASSUME spc'[d] \in {"setup", "run"} PROVE cpc'[d] = "exiting"
  <2>1. CASE d # c
    BY <1>2, <2>1, StepOfOthers DEF DeadInv
  <2>2. CASE d = c /\ SlaveStarts(c)
    <3>1. spc[c] = "await" /\ start.leaving # {} /\ cpc' = cpc
      BY <2>2 DEF SlaveStarts, Released, containerVars
    <3>2. cpc[c] \in Over
      BY <3>1 DEF DeadInv
    <3> QED
      BY <1>0, <2>2, <3>1, <3>2 DEF LocalAt, Over
  <2>3. CASE d = c /\ ~SlaveStarts(c)
    <3>1. spc[c] \in {"setup", "run"} /\ (cpc'[c] = cpc[c] \/ cpc'[c] = "exiting"
                                            \/ cpc[c] # "exiting")
      <4>1. CASE ContainerStep(c)
        BY <1>0, <1>2, <2>3, <4>1 DEF ContainerStep, ContainerAt, slaveVars, Arm,
             PrepareRoot, AwaitTask, TakeTask, Launch, ContainerArrives,
             ContainerStarts, Measure, Deliver, Delivered, Cleanup,
             ContainerSigchld, ContainerDies, ContainerGone
      <4>2. CASE ~ContainerStep(c)
        BY <1>0, <1>2, <2>3, <4>2 DEF StepOf, slaveVars, containerVars, TimeLimit,
             ContainerFails, ContainerDies, SlaveStep, SlaveArrives, Exec,
             SlaveFails, ProgramEnds
      <4> QED
        BY <4>1, <4>2
    <3>2. cpc[c] = "exiting"
      BY <3>1 DEF DeadInv
    <3> QED
      BY <2>3, <3>1, <3>2
  <2> QED
    BY <2>1, <2>2, <2>3
<1> QED
  BY <1>1, <1>2

LEMMA DeadWorker ==
  ASSUME Inv, MeetingInv, RunInv, WaitInv, UseInv, DeadInv, WorkerNext
  PROVE  DeadInv'
<1> SUFFICES ASSUME wpc' = "dead", NEW c \in Container
             PROVE  /\ cpc'[c] \notin Over =>
                         start'.leaving = {} /\ TheWorker \notin start'.waiting
                    /\ spc'[c] \in {"setup", "run"} => cpc'[c] = "exiting"
  BY DEF DeadInv
<1>0. /\ DOMAIN cpc = Container /\ LocalAt(c) /\ i \in Nat
      /\ Len(containers) \in Nat
  BY MaxTasksAssumption
     DEF Inv, TypeOK, WorkerTypeOK, ContainerTypeOK, MeetingInv, LocalInv
<1>1. WorkerEnds("dead")
  BY DEF WorkerNext, WorkerStep, PrepareContainer, ResetBarrier, SetTask,
     NextLoop, EnterMeeting, HandOver, WorkerArrives, WorkerStarts, ClosePipes,
     CollectResult, Reap, Collected, Respond, WorkerSigchld, WorkerFails,
     WorkerEnds, WorkerAt, Accept, Reject, Stop, MeetingInv, QuietInv
<1>2. /\ start' = start /\ spc' = spc
      /\ cpc'[c] = IF cpc[c] \in Over \cup {"cloned"} THEN cpc[c] ELSE "exiting"
  BY <1>0, <1>1 DEF WorkerEnds, slaveVars
<1>3. spc[c] \in {"setup", "run"} => cpc'[c] = "exiting"
  BY <1>0, <1>2 DEF LocalAt, Over
<1>4. ASSUME cpc'[c] \notin Over
      PROVE  start.leaving = {} /\ TheWorker \notin start.waiting
  <2>1. cpc[c] = "cloned"
    BY <1>2, <1>4 DEF Over
  <2>2. CASE wpc = "dead"
    BY <2>1, <2>2 DEF DeadInv, Over
  <2>3. CASE wpc # "dead"
    <3>1. PICK k \in 1..Len(containers) : containers[k] = c
      BY <2>1 DEF UseInv
    <3>2. prog[c][1] < reqNo
      BY <2>1 DEF WaitInv, WaitAt, Unused
    <3>3. prog[c] # <<reqNo, k>>
      BY <3>2, ProgType
    <3>4. start.leaving = {}
      BY <3>1, <3>3 DEF RunInv, PlacedInv, AllPlaced
    <3>5. wpc # "starting"
      <4> SUFFICES ASSUME wpc = "starting" PROVE FALSE
        OBVIOUS
      <4>1. Position(c) = "away"
        <5>1. SeenFrom(wpc, i, containers, containers[k]) = Seen(wpc, i, k)
          BY SeenAt DEF Inv, ContainersDistinct
        <5> QED
          BY <3>1, <5>1 DEF Position, Seen
      <4>2. Match("away", "cloned", meet[c])
        BY <2>1, <2>3, <4>1 DEF MeetingInv, MeetInv
      <4> QED
        BY <4>2 DEF Match, Working, Over
    <3>6. TheWorker \notin start.waiting
      BY <2>3, <3>5 DEF MeetingInv, StartInv, InStart, Inside
    <3> QED
      BY <3>4, <3>6
  <2> QED
    BY <2>2, <2>3
<1> QED
  BY <1>2, <1>3, <1>4

AwaitInv == WaitInv /\ RoundInv /\ PastInv /\ UseInv /\ DeadInv

LEMMA AwaitInit == Init => AwaitInv
<1> SUFFICES ASSUME Init PROVE AwaitInv
  OBVIOUS
<1> USE DEF Init
<1>1. WaitInv
  BY DEF WaitInv, WaitAt, Unused
<1>2. RoundInv
  BY FS_EmptySet DEF RoundInv, RoundOver, NewBarrier
<1>3. PastInv
  BY DEF PastInv, Past
<1>4. UseInv /\ DeadInv
  BY DEF UseInv, DeadInv
<1> QED
  BY <1>1, <1>2, <1>3, <1>4 DEF AwaitInv

LEMMA AwaitNext ==
  Inv /\ MeetingInv /\ RunInv /\ OutcomeInv /\ AwaitInv /\ [Next]_vars
    => AwaitInv'
<1> SUFFICES ASSUME Inv, MeetingInv, RunInv, OutcomeInv, AwaitInv, [Next]_vars
             PROVE  AwaitInv'
  OBVIOUS
<1> USE DEF AwaitInv
<1>1. CASE WorkerNext
  BY <1>1, NextInv, WaitWorker, RoundWorker, PastWorker, UseWorker, DeadWorker
<1>2. ASSUME NEW c \in Container, StepOf(c) PROVE AwaitInv'
  BY <1>2, WaitContainer, RoundContainer, PastContainer, UseContainer,
     DeadContainer
<1>3. CASE UNCHANGED vars
  <2> USE <1>3 DEF vars, workerVars, containerVars, slaveVars
  <2>1. WaitInv' /\ RoundInv'
    BY DEF WaitInv, WaitAt, Unused, InStart, RoundInv, RoundOver
  <2>2. PastInv' /\ UseInv' /\ DeadInv'
    BY DEF PastInv, Past, Started, UseInv, Position, DeadInv
  <2> QED
    BY <2>1, <2>2
<1> QED
  BY <1>1, <1>2, <1>3, NextSplit

\* Whoever waits is counted where it waits, and whoever it waits for is there.
THEOREM WaitsInvariance ==
  Spec => [](Inv /\ MeetingInv /\ RunInv /\ OutcomeInv /\ AwaitInv)
<1>1. Init => AwaitInv
  BY AwaitInit
<1>2. Inv /\ MeetingInv /\ RunInv /\ OutcomeInv /\ AwaitInv /\ [Next]_vars
        => AwaitInv'
  BY AwaitNext
<1> QED
  BY <1>1, <1>2, OutcomesInvariance, PTL DEF Spec

\* No program starts once the worker is dead, and one that had started goes on
\* only until the SIGKILL of its container takes effect.
THEOREM NoRunStartsAfterDeath == Spec => []NoRunAfterDeath
<1>1. AwaitInv => NoRunAfterDeath
  BY DEF AwaitInv, DeadInv, NoRunAfterDeath
<1> QED
  BY <1>1, WaitsInvariance, PTL
-----------------------------------------------------------------------------
(* Nobody waits for ever for somebody who waits.                           *)

\* Everybody waits, with a request at hand, and no container of it is dead.
AllWait ==
  /\ WorkerWaits
  /\ \A c \in Container : ContainerWaits(c) /\ SlaveWaits(c)
  /\ \A k \in 1..Len(containers) : cpc[containers[k]] # "dead"

\* Parties that are all in a barrier are as many as the parties.
LEMMA PartiesCounted ==
  ASSUME Inv, NEW W, IsFiniteSet(W),
         \A m \in 1..(Len(containers) * 2 + 1) : StartParty(m) \in W
  PROVE  Len(containers) * 2 + 1 <= Cardinality(W)
<1> DEFINE n == Len(containers)
           S == 1..(n * 2 + 1)
           f == [m \in S |-> StartParty(m)]
<1>0. /\ n \in Nat /\ containers \in Seq(Container)
      /\ \A a, b \in 1..n : a # b => containers[a] # containers[b]
  BY DEF Inv, TypeOK, WorkerTypeOK, ContainersDistinct
<1>1. IsFiniteSet(S) /\ Cardinality(S) = n * 2 + 1
  BY <1>0, FS_Interval
<1>2. ASSUME NEW a \in S, NEW b \in S, StartParty(a) = StartParty(b)
      PROVE  a = b
  <2>1. \A m \in S : /\ m \in Nat
                     /\ \/ m = n * 2 + 1 /\ StartParty(m) = TheWorker
                        \/ /\ m \in 1..n /\ containers[m] \in Container
                           /\ StartParty(m) = ContainerOf(containers[m])
                        \/ /\ m - n \in 1..n /\ containers[m - n] \in Container
                           /\ StartParty(m) = SlaveOf(containers[m - n])
    BY <1>0 DEF StartParty
  <2>2. \A c, d \in Container :
          /\ TheWorker # ContainerOf(c) /\ TheWorker # SlaveOf(c)
          /\ ContainerOf(c) # SlaveOf(d)
          /\ ContainerOf(c) = ContainerOf(d) => c = d
          /\ SlaveOf(c) = SlaveOf(d) => c = d
    BY PartiesDiffer
  <2>3. CASE a = n * 2 + 1 /\ StartParty(a) = TheWorker
    BY <1>2, <2>1, <2>2, <2>3
  <2>4. CASE /\ a \in 1..n /\ containers[a] \in Container
             /\ StartParty(a) = ContainerOf(containers[a])
    <3>1. b \in 1..n /\ StartParty(b) = ContainerOf(containers[b])
          /\ containers[b] \in Container
      BY <1>2, <2>1, <2>2, <2>4
    <3>2. containers[a] = containers[b]
      BY <1>2, <2>2, <2>4, <3>1
    <3> QED
      BY <1>0, <2>4, <3>1, <3>2
  <2>5. CASE /\ a - n \in 1..n /\ containers[a - n] \in Container
             /\ StartParty(a) = SlaveOf(containers[a - n])
    <3>1. /\ b - n \in 1..n /\ containers[b - n] \in Container
          /\ StartParty(b) = SlaveOf(containers[b - n])
      BY <1>2, <2>1, <2>2, <2>5
    <3>2. containers[a - n] = containers[b - n]
      BY <1>2, <2>2, <2>5, <3>1
    <3>3. a - n = b - n
      BY <1>0, <2>5, <3>1, <3>2
    <3>4. a \in Nat /\ b \in Nat
      BY <2>1
    <3> HIDE DEF n
    <3> QED
      BY <1>0, <3>3, <3>4
  <2> QED
    BY <2>1, <2>3, <2>4, <2>5
<1>3. f \in Injection(S, W)
  <2>1. f \in [S -> W]
    OBVIOUS
  <2>2. \A a, b \in S : f[a] = f[b] => a = b
    BY <1>2
  <2> HIDE DEF f, S
  <2> QED
    BY <2>1, <2>2 DEF Injection, IsInjective
<1>4. Cardinality(S) <= Cardinality(W)
  BY <1>1, <1>3, FS_Injection
<1> HIDE DEF S
<1> QED
  BY <1>1, <1>4

\* Where the barrier of a container lets neither go on.
LEMMA MatchWaits ==
  ASSUME NEW pos, NEW pc, NEW b, Match(pos, pc, b)
  PROVE  /\ pos \in {"handing", "taking"} /\ "worker" \notin b.leaving =>
              "worker" \in b.waiting
         /\ pos = "handing" /\ "worker" \notin b.leaving
              /\ pc \in {"waitTask", "waitResults"} => "container" \in b.leaving
         /\ pos = "handing" /\ "worker" \notin b.leaving =>
              pc \notin Working
         /\ pos = "taking" /\ "worker" \notin b.leaving
              /\ pc \in {"waitTask", "waitResults"} => "container" \in b.leaving
         /\ pos = "away" /\ pc = "waitTask" => "container" \in b.leaving
         /\ pos = "away" /\ pc = "waitResults" => "container" \in b.waiting
         /\ pos = "before" /\ pc = "waitResults" => "container" \in b.leaving
         /\ pos = "before" => pc \notin Working
<1> USE DEF Match, Working, Resting, Over
<1>1. pos = "handing" /\ "worker" \notin b.leaving =>
        /\ "worker" \in b.waiting /\ pc \notin Working
        /\ pc \in {"waitTask", "waitResults"} => "container" \in b.leaving
  BY BarHolds
<1>2. pos = "taking" /\ "worker" \notin b.leaving =>
        /\ "worker" \in b.waiting
        /\ pc \in {"waitTask", "waitResults"} => "container" \in b.leaving
  BY BarHolds
<1>3. /\ pos = "away" /\ pc = "waitTask" => "container" \in b.leaving
      /\ pos = "away" /\ pc = "waitResults" => "container" \in b.waiting
  BY BarHolds
<1>4. /\ pos = "before" /\ pc = "waitResults" => "container" \in b.leaving
      /\ pos = "before" => pc \notin Working
  BY BarHolds
<1> QED
  BY <1>1, <1>2, <1>3, <1>4

\* Where a container of the request at hand can wait when everybody does.
LEMMA WaitsWhere ==
  ASSUME Inv, MeetingInv, AwaitInv, AllWait, NEW k \in 1..Len(containers),
         ~(wpc = "reap" /\ k < i)
  PROVE  LET c == containers[k] IN
         /\ c \in Container
         /\ \/ cpc[c] = "exited"
            \/ /\ cpc[c] \in {"waitTask", "waitResults"}
               /\ "container" \notin meet[c].leaving
            \/ /\ cpc[c] = "waitStart" /\ cchld[c] = "none"
               /\ ContainerOf(c) \in start.waiting
               /\ ContainerOf(c) \notin start.leaving
            \/ /\ cpc[c] = "watch" /\ spc[c] \notin {"failed", "ended", "absent"}
               /\ ~(spc[c] \in Live /\ data[c].task.limited)
<1> DEFINE c == containers[k]
<1>1. c \in Container
  BY DEF Inv, TypeOK, WorkerTypeOK
<1> HIDE DEF c
<1>2. cpc[c] # "absent" /\ cpc[c] # "dead"
  <2>1. wpc \notin {"dead", "stopped"}
    BY DEF AllWait, WorkerWaits
  <2> QED
    BY <2>1 DEF AwaitInv, UseInv, AllWait, c
<1>3. ContainerWaits(c) /\ WaitAt(c) /\ LocalAt(c)
  BY <1>1 DEF AllWait, AwaitInv, WaitInv, MeetingInv, LocalInv
<1>4. cpc[c] = "killing" => spc[c] = "ended"
  BY <1>3 DEF LocalAt
<1>5. cpc[c] = "watch" => spc[c] # "absent"
  BY <1>3 DEF WaitAt
<1>6. cpc[c] = "waitStart" => InStart(ContainerOf(c))
  BY <1>3 DEF WaitAt
<1>7. \/ cpc[c] = "exited"
      \/ /\ cpc[c] \in {"waitTask", "waitResults"}
         /\ "container" \notin meet[c].leaving
      \/ /\ cpc[c] = "waitStart" /\ cchld[c] = "none"
         /\ ContainerOf(c) \in start.waiting
         /\ ContainerOf(c) \notin start.leaving
      \/ /\ cpc[c] = "watch" /\ spc[c] \notin {"failed", "ended", "absent"}
         /\ ~(spc[c] \in Live /\ data[c].task.limited)
  BY <1>2, <1>3, <1>4, <1>5, <1>6
     DEF ContainerWaits, Released, InStart, Inside
<1> QED
  BY <1>1, <1>7 DEF c

\* The worker cannot wait for the start of a run while all others wait: they
\* would be in the run start barrier too, which lets everybody go on then.
LEMMA StartNotWaitedFor ==
  ASSUME Inv, MeetingInv, RunInv, AwaitInv, AllWait
  PROVE  wpc # "starting"
<1> SUFFICES ASSUME wpc = "starting" PROVE FALSE
  OBVIOUS
<1>0. /\ i \in Nat /\ Len(containers) \in Nat
      /\ start \in BarrierOver(Party)
  BY MaxTasksAssumption DEF Inv, TypeOK, WorkerTypeOK, SharedTypeOK
<1>1. TheWorker \in start.waiting /\ TheWorker \notin start.leaving
  BY DEF AllWait, WorkerWaits, Released, AwaitInv, RoundInv, InStart, Inside
<1>2. start.leaving = {} /\ ~Started
  BY <1>1 DEF AwaitInv, RoundInv, RoundOver, Started
<1>3. Begun
  BY DEF MeetingInv, BegunInv
<1>4. ASSUME NEW k \in 1..Len(containers)
      PROVE  /\ containers[k] \in Container
             /\ ContainerOf(containers[k]) \in start.waiting
             /\ SlaveOf(containers[k]) \in start.waiting
  <2> DEFINE c == containers[k]
  <2>1. /\ c \in Container
        /\ \/ cpc[c] = "exited"
           \/ /\ cpc[c] \in {"waitTask", "waitResults"}
              /\ "container" \notin meet[c].leaving
           \/ /\ cpc[c] = "waitStart" /\ cchld[c] = "none"
              /\ ContainerOf(c) \in start.waiting
           \/ cpc[c] = "watch"
    BY WaitsWhere
  <2>2. Position(c) = "away"
    <3>1. SeenFrom(wpc, i, containers, containers[k]) = Seen(wpc, i, k)
      BY SeenAt DEF Inv, ContainersDistinct
    <3> QED
      BY <3>1 DEF Position, Seen
  <2> HIDE DEF c
  <2>3. Match("away", cpc[c], meet[c])
    BY <2>1, <2>2 DEF MeetingInv, MeetInv
  <2>4. ~Past(c)
    BY <1>2, <2>1 DEF AwaitInv, PastInv
  <2>5. cpc[c] # "exited"
    BY <2>1, <2>2 DEF AwaitInv, UseInv
  <2>6. cpc[c] \notin {"waitTask", "waitResults", "watch"}
    BY <2>1, <2>3, <2>4, MatchWaits DEF Past
  <2>7. /\ cpc[c] = "waitStart" /\ cchld[c] = "none"
        /\ ContainerOf(c) \in start.waiting
    BY <2>1, <2>5, <2>6
  <2>8. WaitAt(c) /\ SlaveWaits(c)
    BY <2>1 DEF AwaitInv, WaitInv, AllWait
  <2>9. spc[c] \in {"await", "run", "failed", "ended", "absent"}
    BY <2>1, <2>8 DEF SlaveWaits, Live, Inv, TypeOK, SlaveTypeOK, SlavePc
  <2>10. spc[c] = "await"
    BY <2>4, <2>7, <2>8, <2>9 DEF WaitAt, Past, Over
  <2>11. SlaveOf(c) \in start.waiting
    BY <1>2, <2>8, <2>10 DEF WaitAt, InStart, Inside
  <2> QED
    BY <2>1, <2>7, <2>11 DEF c
<1>5. ASSUME NEW m \in 1..(Len(containers) * 2 + 1)
      PROVE  StartParty(m) \in start.waiting
  <2>1. \/ m = Len(containers) * 2 + 1
        \/ m # Len(containers) * 2 + 1 /\ m \in 1..Len(containers)
             /\ m <= Len(containers)
        \/ m # Len(containers) * 2 + 1 /\ ~(m <= Len(containers))
             /\ m - Len(containers) \in 1..Len(containers)
    BY <1>0
  <2> QED
    BY <1>1, <1>4, <2>1 DEF StartParty
<1>6. IsFiniteSet(start.waiting) /\ Cardinality(start.waiting) \in Nat
  BY <1>0, PartyFinite, FS_Subset, FS_CardinalityType DEF BarrierOver
<1>7. Len(containers) * 2 + 1 <= Cardinality(start.waiting)
  BY <1>5, <1>6, PartiesCounted
<1>8. Cardinality(start.waiting) < Len(containers) * 2 + 1
  BY <1>3 DEF AwaitInv, RoundInv, Begun, StartParties
<1> QED
  BY <1>0, <1>6, <1>7, <1>8

\* In a meeting the worker waits for a program to end, and for nothing else.
LEMMA MeetingWaitedFor ==
  ASSUME Inv, MeetingInv, RunInv, AwaitInv, AllWait,
         wpc \in {"meeting", "collecting"}
  PROVE  /\ wpc = "collecting" /\ spc[containers[i]] = "run"
         /\ ~data[containers[i]].task.limited
<1> DEFINE c == containers[i]
<1>0. i \in 1..Len(containers) /\ wpc # "reap" /\ wpc # "dead"
  BY MaxTasksAssumption DEF Inv, TypeOK, WorkerTypeOK, LoopInv
<1>1. /\ c \in Container
      /\ \/ cpc[c] = "exited"
         \/ /\ cpc[c] \in {"waitTask", "waitResults"}
            /\ "container" \notin meet[c].leaving
         \/ /\ cpc[c] = "waitStart"
            /\ ContainerOf(c) \in start.waiting
            /\ ContainerOf(c) \notin start.leaving
         \/ /\ cpc[c] = "watch" /\ spc[c] \notin {"failed", "ended", "absent"}
            /\ ~(spc[c] \in Live /\ data[c].task.limited)
  BY <1>0, WaitsWhere
<1>2. /\ Position(c) = IF wpc = "meeting" THEN "handing" ELSE "taking"
      /\ "worker" \notin meet[c].leaving
  <2>1. SeenFrom(wpc, i, containers, containers[i]) = Seen(wpc, i, i)
    BY <1>0, SeenAt DEF Inv, ContainersDistinct
  <2>2. Seen(wpc, i, i) = IF wpc = "meeting" THEN "handing" ELSE "taking"
    BY <1>0 DEF Seen
  <2>3. Position(c) = SeenFrom(wpc, i, containers, containers[i])
    BY DEF Position
  <2>4. "worker" \notin meet[c].leaving
    BY DEF AllWait, WorkerWaits, Released
  <2> QED
    BY <2>1, <2>2, <2>3, <2>4
<1> HIDE DEF c
<1>3. Match(Position(c), cpc[c], meet[c])
  BY <1>0, <1>1 DEF MeetingInv, MeetInv
<1>4. cpc[c] # "exited"
  BY <1>0, <1>1, <1>2 DEF AwaitInv, UseInv
<1>5. cpc[c] \notin {"waitTask", "waitResults"}
  BY <1>1, <1>2, <1>3, MatchWaits
<1>6. cpc[c] \in Working
  BY <1>1, <1>4, <1>5 DEF Working
<1>7. wpc = "collecting"
  BY <1>2, <1>3, <1>6, MatchWaits
<1>8. /\ start.waiting = {} /\ spc[c] # "born"
  BY <1>1, <1>7 DEF AwaitInv, RoundInv, RoundOver
<1>9. cpc[c] = "watch"
  BY <1>1, <1>4, <1>5, <1>8
<1>10. WaitAt(c) /\ SlaveWaits(c)
  BY <1>1 DEF AwaitInv, WaitInv, AllWait
<1>11. spc[c] # "await"
  BY <1>8, <1>10 DEF WaitAt, SlaveWaits, Live, InStart, Inside, Released
<1>12. spc[c] = "run"
  BY <1>1, <1>8, <1>9, <1>10, <1>11
     DEF SlaveWaits, Live, Inv, TypeOK, SlaveTypeOK, SlavePc
<1>13. ~data[c].task.limited
  BY <1>1, <1>9, <1>12 DEF Live
<1> QED
  BY <1>7, <1>12, <1>13 DEF c

\* Nor does the worker wait for a temporary container that does not end.
LEMMA ReapNotWaitedFor ==
  ASSUME Inv, MeetingInv, RunInv, OutcomeInv, AwaitInv, AllWait
  PROVE  wpc # "reap"
<1> SUFFICES ASSUME wpc = "reap" PROVE FALSE
  OBVIOUS
<1> DEFINE c == containers[i]
<1>0. /\ i \in 1..Len(containers) /\ c[1] = "temp"
      /\ cpc[c] \notin {"exited", "dead"} /\ ~(i < i)
  BY MaxTasksAssumption DEF AllWait, WorkerWaits, Inv, TypeOK, WorkerTypeOK
<1>1. /\ c \in Container
      /\ \/ cpc[c] \in {"waitTask", "waitResults"}
              /\ "container" \notin meet[c].leaving
         \/ cpc[c] \in {"waitStart", "watch"}
  BY <1>0, WaitsWhere
<1> HIDE DEF c
<1>2. Position(c) = "before" /\ Match("before", cpc[c], meet[c])
  BY <1>1, SeenOutside DEF Position, MeetingInv, MeetInv
<1>3. cpc[c] = "waitTask"
  BY <1>1, <1>2, MatchWaits DEF Working
<1>4. prog[c][1] < reqNo
  BY <1>0, <1>1, <1>3 DEF AwaitInv, WaitInv, WaitAt, Unused
<1>5. HasResult(c)
  <2>1. Len(answers) = Len(containers)
    BY DEF OutcomeInv, AnswersInv, Inv, LoopInv
  <2> QED
    BY <1>0, <2>1 DEF OutcomeInv, AnswersInv, c
<1>6. PICK m \in 1..Len(containers) : prog[c] = <<reqNo, m>>
  BY <1>5 DEF HasResult, Current
<1> QED
  BY <1>1, <1>4, <1>6, ProgType

\* The worker, its containers and their slaves never all wait for each other.
THEOREM NeverDeadlocked == Spec => []NoDeadlock
<1>1. Inv /\ MeetingInv /\ RunInv /\ OutcomeInv /\ AwaitInv => NoDeadlock
  <2> SUFFICES ASSUME Inv, MeetingInv, RunInv, OutcomeInv, AwaitInv, AllWait
               PROVE  /\ wpc = "collecting" /\ spc[containers[i]] = "run"
                      /\ ~data[containers[i]].task.limited
    BY DEF NoDeadlock, AllWait
  <2>1. ~(wpc = "prepare" /\ start.leaving # {})
    BY NobodyInside
  <2>2. wpc \in {"meeting", "collecting"}
    BY <2>1, StartNotWaitedFor, ReapNotWaitedFor DEF AllWait, WorkerWaits
  <2> QED
    BY <2>2, MeetingWaitedFor
<1> QED
  BY <1>1, WaitsInvariance, PTL
-----------------------------------------------------------------------------
(* With permanent containers only no death goes unnoticed.                 *)

OnlyPermanents ==
  \A r \in Requests : \A k \in 1..Len(r) : PermanentAllowed(r[k])

\* A container that is dead was reported as such: no other child of the worker
\* ends in a way that could have come before it.
ReportedInv ==
  /\ \A k \in 1..Len(tasks) : PermanentAllowed(tasks[k])
  /\ \A c \in Container : c[1] = "temp" => cpc[c] = "absent"
  /\ wchld # "ok"
  /\ \A c \in Container :
       cpc[c] = "dead" => wchld = "bad" \/ wpc \in {"dead", "stopped"}

LEMMA ReportedContainer ==
  ASSUME Inv, ReportedInv, NEW c \in Container, StepOf(c)
  PROVE  ReportedInv'
<1>0. /\ UNCHANGED <<wpc, tasks>> /\ wchld \in {"none", "ok", "bad"}
      /\ cpc \in [Container -> ContainerPc]
  BY StepOfFrame DEF Inv, TypeOK, WorkerTypeOK, ContainerTypeOK
<1>1. \A d \in Container : d[1] = "temp" => cpc'[d] = "absent"
  BY StepOfAbsent DEF ReportedInv
<1>2. CASE ContainerGone(c)
  <2>1. \/ wchld' = "bad"
        \/ wpc \in {"dead", "stopped"} /\ wchld' = wchld
    BY <1>0, <1>2 DEF ContainerGone, Report, ReportedInv
  <2> QED
    BY <1>0, <1>1, <2>1 DEF ReportedInv
<1>3. CASE ~ContainerGone(c)
  <2>1. wchld' = wchld
    <3>1. CASE Delivered(c)
      <4>1. c[1] = "perm"
        BY <3>1 DEF Delivered, ContainerAt, ReportedInv, Container
      <4> QED
        BY <3>1, <4>1 DEF Delivered
    <3>2. CASE ContainerStep(c) /\ ~Delivered(c)
      BY <1>3, <3>2 DEF ContainerStep, workerVars, Arm, PrepareRoot, AwaitTask,
           TakeTask, Launch, ContainerArrives, ContainerStarts, Measure, Deliver,
           Cleanup, ContainerSigchld
    <3>3. CASE ~ContainerStep(c)
      BY <3>3 DEF StepOf, workerVars, TimeLimit, ContainerFails, SlaveStep,
           SlaveArrives, SlaveStarts, Exec, SlaveFails, ProgramEnds
    <3> QED
      BY <3>1, <3>2, <3>3
  <2>2. \A d \in Container : cpc'[d] = "dead" => cpc[d] = "dead"
    <3>1. CASE ContainerStep(c)
      BY <1>0, <1>3, <3>1 DEF ContainerStep, Arm, PrepareRoot, AwaitTask,
           TakeTask, Launch, ContainerArrives, ContainerStarts, Measure, Deliver,
           Delivered, Cleanup, ContainerSigchld, ContainerDies
    <3>2. CASE ~ContainerStep(c)
      BY <1>0, <3>2 DEF StepOf, containerVars, TimeLimit, ContainerFails,
           ContainerDies, SlaveStep, SlaveArrives, SlaveStarts, Exec, SlaveFails,
           ProgramEnds
    <3> QED
      BY <3>1, <3>2
  <2> QED
    BY <1>0, <1>1, <2>1, <2>2 DEF ReportedInv
<1> QED
  BY <1>2, <1>3

LEMMA ReportedWorker ==
  ASSUME OnlyPermanents, Inv, MeetingInv, ReportedInv, WorkerNext
  PROVE  ReportedInv'
<1>0. /\ DOMAIN cpc = Container /\ i \in Nat /\ Len(tasks) \in Nat
      /\ i \in 1..(MaxTasks + 1) /\ wchld \in {"none", "bad"}
  BY MaxTasksAssumption
     DEF Inv, TypeOK, WorkerTypeOK, ContainerTypeOK, ReportedInv
<1>1. ASSUME NEW c \in Container
      PROVE  /\ c[1] = "temp" => cpc'[c] = "absent"
             /\ cpc'[c] = "dead" => cpc[c] = "dead"
  <2>1. CASE PrepareContainer
    <3>1. PermanentAllowed(tasks[i])
      BY <1>0, <2>1 DEF PrepareContainer, MoreTasks, ReportedInv
    <3>2. ContainerFor(tasks[i], i, nextPerm)[1] = "perm"
      BY <3>1 DEF ContainerFor
    <3>3. \/ cpc' = cpc
          \/ cpc' = [cpc EXCEPT ![ContainerFor(tasks[i], i, nextPerm)] = "cloned"]
      BY <2>1 DEF PrepareContainer
    <3>4. cpc'[c] = cpc[c] \/ (cpc'[c] = "cloned" /\ c[1] = "perm")
      BY <1>0, <3>2, <3>3
    <3> QED
      BY <3>4 DEF ReportedInv
  <2>2. CASE ~PrepareContainer
    BY <2>2, WorkerOn DEF ReportedInv, Over
  <2> QED
    BY <2>1, <2>2
<1>2. \A k \in 1..Len(tasks') : PermanentAllowed(tasks'[k])
  <2>1. CASE \E r \in Requests : Accept(r)
    BY <2>1 DEF Accept, OnlyPermanents
  <2>2. CASE Collected
    BY <2>2 DEF Collected
  <2>3. CASE tasks' = tasks
    BY <2>3 DEF ReportedInv
  <2>4. CASE WorkerStep /\ ~Collected
    BY <2>3, <2>4 DEF WorkerStep, PrepareContainer, ResetBarrier, SetTask,
         NextLoop, EnterMeeting, HandOver, WorkerArrives, WorkerStarts,
         ClosePipes, CollectResult, Reap, Respond, WorkerSigchld, WorkerEnds
  <2>5. CASE Reject \/ Stop \/ WorkerFails
    BY <2>3, <2>5 DEF Reject, Stop, WorkerFails, WorkerEnds
  <2> QED
    BY <2>1, <2>2, <2>4, <2>5 DEF WorkerNext
<1>3. \/ wchld' = "none" /\ wpc' \in {"dead", "stopped"}
      \/ wchld' = wchld /\ (wpc \in {"dead", "stopped"} => wpc' = wpc)
  <2>1. CASE WorkerSigchld
    BY <1>0, <2>1 DEF WorkerSigchld, WorkerEnds
  <2>2. CASE WorkerStep /\ ~WorkerSigchld
    BY <2>2 DEF WorkerStep, PrepareContainer, ResetBarrier, SetTask, NextLoop,
         EnterMeeting, HandOver, WorkerArrives, WorkerStarts, ClosePipes,
         CollectResult, Reap, Collected, Respond, WorkerAt
  <2>3. CASE Reject \/ Stop \/ WorkerFails \/ \E r \in Requests : Accept(r)
    BY <2>3 DEF Reject, Stop, WorkerFails, WorkerEnds, Accept, WorkerAt
  <2> QED
    BY <2>1, <2>2, <2>3 DEF WorkerNext
<1> QED
  BY <1>0, <1>1, <1>2, <1>3 DEF ReportedInv

\* Everybody waits, with a request at hand, for a program without a limit.
StuckOnlyForProgram ==
  WorkerWaits /\ (\A c \in Container : ContainerWaits(c) /\ SlaveWaits(c)) =>
    /\ wpc = "collecting" /\ spc[containers[i]] = "run"
    /\ ~data[containers[i]].task.limited

\* When every task may run in a permanent container, the worker is never left
\* waiting for a container that is dead: its one SIGCHLD is not lost.
THEOREM PermanentsNeverStuck ==
  ASSUME OnlyPermanents
  PROVE  Spec => []StuckOnlyForProgram
<1>1. Init => ReportedInv
  BY DEF Init, ReportedInv
<1>2. Inv /\ MeetingInv /\ ReportedInv /\ [Next]_vars => ReportedInv'
  <2> SUFFICES ASSUME Inv, MeetingInv, ReportedInv, [Next]_vars
               PROVE  ReportedInv'
    OBVIOUS
  <2>1. CASE UNCHANGED vars
    BY <2>1 DEF vars, workerVars, containerVars, ReportedInv
  <2> QED
    BY <2>1, ReportedContainer, ReportedWorker, NextSplit
<1>3. Inv /\ ReportedInv /\ NoDeadlock => StuckOnlyForProgram
  <2> SUFFICES ASSUME Inv, ReportedInv, WorkerWaits
               PROVE  \A k \in 1..Len(containers) : cpc[containers[k]] # "dead"
    BY DEF NoDeadlock, StuckOnlyForProgram
  <2>1. containers \in Seq(Container)
    BY DEF Inv, TypeOK, WorkerTypeOK
  <2> QED
    BY <2>1 DEF ReportedInv, WorkerWaits
<1> QED
  BY <1>1, <1>2, <1>3, MeetingsInvariance, NeverDeadlocked, PTL DEF Spec
-----------------------------------------------------------------------------
(* Without failures and limits nobody dies.                                *)

Healthy ==
  /\ Faults = {}
  /\ \A r \in Requests : \A k \in 1..Len(r) : ~r[k].limited

\* A slave that has been started has cleared the error flag, and nothing sets
\* it again before its run is over.
HealthInv ==
  /\ wpc # "dead" /\ wchld # "bad"
  /\ \A k \in 1..Len(tasks) : ~tasks[k].limited
  /\ \A c \in Container :
       /\ wpc # "stopped" => cpc[c] \notin {"exiting", "dead"}
       /\ spc[c] # "failed"
       /\ spc[c] \in {"setup", "run", "ended"} => ~data[c].error
       /\ ~data[c].task.limited

LEMMA HealthInit ==
  ASSUME Init
  PROVE  HealthInv
BY DEF Init, HealthInv, NewTaskData, DefaultTask

\* No container and no slave has a reason to die.
LEMMA NothingFails ==
  ASSUME Healthy, Inv, RunInv, WaitInv, HealthInv, NEW c \in Container
  PROVE  /\ ~SlaveFails(c) /\ ~ContainerFails(c) /\ ~TimeLimit(c)
         /\ wpc # "stopped" => ~ContainerGone(c)
         /\ ContainerSigchld(c) => UNCHANGED <<cpc, data>>
         /\ Measure(c) => cpc' = [cpc EXCEPT ![c] = "finish"]
<1>1. ~SlaveFails(c)
  BY DEF SlaveFails, Healthy, RunInv, PipeInv
<1>2. ~ContainerFails(c) /\ ~TimeLimit(c)
  BY DEF ContainerFails, Healthy, TimeLimit, HealthInv
<1>3. wpc # "stopped" => ~ContainerGone(c)
  BY DEF ContainerGone, HealthInv
<1>4. ASSUME ContainerSigchld(c) PROVE UNCHANGED <<cpc, data>>
  <2>1. cpc[c] \notin Over /\ cchld[c] # "none"
    BY <1>4 DEF ContainerSigchld
  <2>2. ~data[c].error
    BY <2>1 DEF WaitInv, WaitAt, HealthInv
  <2> QED
    BY <1>4, <2>2 DEF ContainerSigchld
<1>5. ASSUME Measure(c) PROVE cpc' = [cpc EXCEPT ![c] = "finish"]
  <2>1. ~data[c].error
    BY <1>5 DEF Measure, HealthInv
  <2> QED
    BY <1>5, <2>1 DEF Measure
<1> QED
  BY <1>1, <1>2, <1>3, <1>4, <1>5

LEMMA HealthContainer ==
  ASSUME Healthy, Inv, MeetingInv, RunInv, WaitInv, HealthInv,
         NEW c \in Container, StepOf(c)
  PROVE  HealthInv'
<1>0. /\ UNCHANGED <<wpc, tasks>> /\ cpc \in [Container -> ContainerPc]
      /\ spc \in [Container -> SlavePc] /\ data \in [Container -> TaskData]
      /\ LocalAt(c)
  BY StepOfFrame
     DEF Inv, TypeOK, ContainerTypeOK, SlaveTypeOK, SharedTypeOK, MeetingInv,
         LocalInv
<1>1. wchld' # "bad"
  <2>1. CASE Delivered(c)
    BY <2>1 DEF Delivered, Report, HealthInv
  <2>2. CASE ContainerGone(c)
    <3>1. wpc = "stopped"
      BY <2>2, NothingFails
    <3> QED
      BY <2>2, <3>1 DEF ContainerGone, HealthInv
  <2>3. CASE ContainerStep(c) /\ ~Delivered(c) /\ ~ContainerGone(c)
    BY <2>3 DEF ContainerStep, workerVars, Arm, PrepareRoot, AwaitTask, TakeTask,
         Launch, ContainerArrives, ContainerStarts, Measure, Deliver, Cleanup,
         ContainerSigchld, HealthInv
  <2>4. CASE ~ContainerStep(c)
    BY <2>4 DEF StepOf, workerVars, TimeLimit, ContainerFails, SlaveStep,
         SlaveArrives, SlaveStarts, Exec, SlaveFails, ProgramEnds, HealthInv
  <2> QED
    BY <2>1, <2>2, <2>3, <2>4
<1>2. ASSUME NEW d \in Container, d # c
      PROVE  /\ cpc'[d] = cpc[d] /\ spc'[d] = spc[d] /\ data'[d] = data[d]
  BY <1>2, StepOfOthers
<1>3. ASSUME wpc # "stopped" PROVE cpc'[c] \notin {"exiting", "dead"}
  <2>1. cpc[c] \notin {"exiting", "dead"}
    BY <1>3 DEF HealthInv
  <2>2. CASE Measure(c) \/ ContainerSigchld(c)
    BY <1>0, <2>1, <2>2, NothingFails
  <2>3. CASE ContainerStep(c) /\ ~Measure(c) /\ ~ContainerSigchld(c)
    BY <1>0, <1>3, <2>1, <2>3, NothingFails DEF ContainerStep, Arm, PrepareRoot,
         AwaitTask, TakeTask, Launch, ContainerArrives, ContainerStarts, Deliver,
         Delivered, Cleanup
  <2>4. CASE ~ContainerStep(c)
    BY <1>0, <2>1, <2>4, NothingFails DEF StepOf, containerVars, SlaveStep,
         SlaveArrives, SlaveStarts, Exec, ProgramEnds
  <2> QED
    BY <2>2, <2>3, <2>4
<1>4. /\ spc'[c] # "failed"
      /\ spc'[c] \in {"setup", "run", "ended"} => ~data'[c].error
      /\ ~data'[c].task.limited
  <2>0. /\ spc[c] # "failed"
        /\ spc[c] \in {"setup", "run", "ended"} => ~data[c].error
        /\ ~data[c].task.limited
    BY DEF HealthInv
  <2>1. CASE SlaveStarts(c)
    BY <1>0, <2>0, <2>1 DEF SlaveStarts, TaskData
  <2>2. CASE Measure(c)
    BY <1>0, <2>0, <2>2 DEF Measure, TaskData
  <2>3. CASE Launch(c)
    BY <1>0, <2>0, <2>3 DEF Launch
  <2>4. CASE data' = data /\ spc' = spc
    BY <2>0, <2>4
  <2>5. CASE ContainerGone(c)
    BY <1>0, <2>0, <2>5 DEF ContainerGone
  <2>6. CASE \/ Arm(c) \/ PrepareRoot(c) \/ AwaitTask(c) \/ TakeTask(c)
             \/ ContainerArrives(c) \/ ContainerStarts(c) \/ Deliver(c)
             \/ Delivered(c) \/ Cleanup(c) \/ ContainerSigchld(c)
    BY <2>4, <2>6 DEF slaveVars, Arm, PrepareRoot, AwaitTask, TakeTask,
         ContainerArrives, ContainerStarts, Deliver, Delivered, Cleanup,
         ContainerSigchld
  <2>7. CASE SlaveArrives(c) \/ Exec(c) \/ ProgramEnds(c)
    BY <1>0, <2>0, <2>7 DEF SlaveArrives, Exec, ProgramEnds
  <2> QED
    BY <2>1, <2>2, <2>3, <2>5, <2>6, <2>7, NothingFails
       DEF StepOf, ContainerStep, SlaveStep
<1> QED
  BY <1>0, <1>1, <1>2, <1>3, <1>4 DEF HealthInv

LEMMA HealthWorker ==
  ASSUME Healthy, Inv, MeetingInv, RunInv, HealthInv, WorkerNext
  PROVE  HealthInv'
<1>0. /\ DOMAIN cpc = Container /\ data \in [Container -> TaskData]
      /\ i \in Nat /\ i \in 1..(MaxTasks + 1)
      /\ containers \in Seq(Container) /\ wchld \in {"none", "ok", "bad"}
      /\ Len(tasks) \in Nat
  BY MaxTasksAssumption
     DEF Inv, TypeOK, WorkerTypeOK, ContainerTypeOK, SharedTypeOK
<1>2. /\ wpc' # "dead" /\ wchld' # "bad"
  <2>1. CASE WorkerSigchld
    BY <2>1 DEF WorkerSigchld, HealthInv
  <2>2. CASE WorkerStep /\ ~WorkerSigchld
    BY <2>2 DEF WorkerStep, PrepareContainer, ResetBarrier, SetTask, NextLoop,
         EnterMeeting, HandOver, WorkerArrives, WorkerStarts, ClosePipes,
         CollectResult, Reap, Collected, Respond, WorkerAt, HealthInv
  <2>3. CASE Reject \/ Stop \/ \E r \in Requests : Accept(r)
    BY <2>3 DEF Reject, Stop, WorkerEnds, Accept, WorkerAt
  <2>4. ~WorkerFails
    BY DEF WorkerFails, Healthy
  <2> QED
    BY <2>1, <2>2, <2>3, <2>4 DEF WorkerNext
<1>3. \A k \in 1..Len(tasks') : ~tasks'[k].limited
  <2>1. CASE \E r \in Requests : Accept(r)
    BY <2>1 DEF Accept, Healthy
  <2>2. CASE Collected
    BY <2>2 DEF Collected
  <2>3. CASE tasks' = tasks
    BY <2>3 DEF HealthInv
  <2>4. CASE WorkerStep /\ ~Collected
    BY <2>3, <2>4 DEF WorkerStep, PrepareContainer, ResetBarrier, SetTask,
         NextLoop, EnterMeeting, HandOver, WorkerArrives, WorkerStarts,
         ClosePipes, CollectResult, Reap, Respond, WorkerSigchld, WorkerEnds
  <2>5. CASE Reject \/ Stop \/ WorkerFails
    BY <2>3, <2>5 DEF Reject, Stop, WorkerFails, WorkerEnds
  <2> QED
    BY <2>1, <2>2, <2>4, <2>5 DEF WorkerNext
<1>4. ASSUME NEW c \in Container
      PROVE  /\ wpc' # "stopped" => cpc'[c] \notin {"exiting", "dead"}
             /\ spc'[c] = spc[c] /\ spc'[c] # "failed"
  <2>1. wpc' # "stopped" => wpc # "stopped"
    BY DEF WorkerNext, WorkerStep, PrepareContainer, ResetBarrier, SetTask,
       NextLoop, EnterMeeting, HandOver, WorkerArrives, WorkerStarts, ClosePipes,
       CollectResult, Reap, Collected, Respond, WorkerSigchld, WorkerFails,
       WorkerAt, Accept, Reject, Stop, MeetingInv, QuietInv, Healthy
  <2> QED
    BY <1>2, <2>1, WorkerOn DEF HealthInv
<1>5. ASSUME NEW c \in Container
      PROVE  /\ spc[c] \in {"setup", "run", "ended"} => ~data'[c].error
             /\ ~data'[c].task.limited
  <2>0. /\ spc[c] \in {"setup", "run", "ended"} => ~data[c].error
        /\ ~data[c].task.limited
    BY DEF HealthInv
  <2>1. CASE PrepareContainer
    BY <2>0, <2>1, MadeAnew DEF MeetingInv, NewTaskData, DefaultTask
  <2>2. CASE SetTask
    <3>1. wpc = "write" /\ ~tasks[i].limited
      BY <1>0, <2>2 DEF SetTask, WorkerAt, MoreTasks, HealthInv
    <3>2. spc[c] = "absent"
      BY <3>1, NotBusyBefore DEF Busy
    <3>3. data'[c] = data[c] \/ data'[c].task = tasks[i]
      BY <1>0, <2>2 DEF SetTask, TaskDataFor
    <3> QED
      BY <2>0, <3>1, <3>2, <3>3
  <2>3. CASE data' = data
    BY <2>0, <2>3
  <2>4. CASE WorkerStep /\ ~PrepareContainer /\ ~SetTask
    BY <2>3, <2>4 DEF WorkerStep, ResetBarrier, NextLoop, EnterMeeting, HandOver,
         WorkerArrives, WorkerStarts, ClosePipes, CollectResult, Reap, Collected,
         Respond, WorkerSigchld, WorkerEnds
  <2>5. CASE ~WorkerStep
    BY <2>3, <2>5 DEF WorkerNext, Accept, Reject, Stop, WorkerFails, WorkerEnds
  <2> QED
    BY <2>1, <2>2, <2>4, <2>5
<1> QED
  BY <1>2, <1>3, <1>4, <1>5 DEF HealthInv

\* With no limited task and no failing system call everybody is at work.
LEMMA HealthKept ==
  ASSUME Healthy
  PROVE  Spec => []HealthInv
<1>1. Init => HealthInv
  BY HealthInit
<1>2. Inv /\ MeetingInv /\ RunInv /\ AwaitInv /\ HealthInv /\ [Next]_vars
        => HealthInv'
  <2> SUFFICES ASSUME Inv, MeetingInv, RunInv, AwaitInv, HealthInv, [Next]_vars
               PROVE  HealthInv'
    OBVIOUS
  <2>1. CASE UNCHANGED vars
    BY <2>1 DEF vars, workerVars, containerVars, slaveVars, HealthInv
  <2> QED
    BY <2>1, HealthContainer, HealthWorker, NextSplit DEF AwaitInv
<1> QED
  BY <1>1, <1>2, WaitsInvariance, PTL DEF Spec

\* Without failing system calls and without limits no error ends the worker:
\* what a limit does to it is all that stands against the promise.
THEOREM HealthyServiceAlwaysUp ==
  ASSUME Healthy
  PROVE  Spec => []HealthyServiceStaysUp
<1>1. HealthInv => HealthyServiceStaysUp
  BY DEF HealthInv, HealthyServiceStaysUp
<1> QED
  BY <1>1, HealthKept, PTL

\* In such a service, whatever containers it uses, the worker and everybody
\* else wait at the same time for nothing but a program without a limit.
THEOREM HealthyNeverStuck ==
  ASSUME Healthy
  PROVE  Spec => []StuckOnlyForProgram
<1>1. Inv /\ HealthInv /\ NoDeadlock => StuckOnlyForProgram
  <2> SUFFICES ASSUME Inv, HealthInv, WorkerWaits
               PROVE  \A k \in 1..Len(containers) : cpc[containers[k]] # "dead"
    BY DEF NoDeadlock, StuckOnlyForProgram
  <2>1. containers \in Seq(Container)
    BY DEF Inv, TypeOK, WorkerTypeOK
  <2>2. wpc # "stopped"
    BY DEF WorkerWaits
  <2> QED
    BY <2>1, <2>2 DEF HealthInv
<1> QED
  BY <1>1, HealthKept, NeverDeadlocked, WaitsInvariance, PTL
=============================================================================
