--------------------------- MODULE Sandbox_proofs ---------------------------
(***************************************************************************)
(* What holds of Sandbox for any requests, any number of tasks and any     *)
(* faults.                                                                 *)
(***************************************************************************)
EXTENDS Sandbox, TLAPS

\* The loops of the worker: where i may be, and how many containers there
\* are; and which containers the loop of prepare_containers() has used.
LoopInv ==
  /\ wpc \notin {"accept", "stopped", "dead"} => reqNo # 0
  /\ wpc \in {"accept", "respond"} => tasks = <<>> /\ containers = <<>>
  /\ wpc = "prepare" =>
       i <= Len(tasks) + 1 /\ Len(containers) = i - 1 /\ nextPerm <= i - 1
  /\ wpc \in {"write", "meet", "meeting", "starting", "close", "collect",
              "collecting", "reap"} =>
       i <= Len(tasks) + 1 /\ Len(containers) = Len(tasks)
  /\ wpc \in {"meeting", "collecting"} => i <= Len(tasks)

\* Permanent containers are taken in their order, and a temporary container
\* has the number of its task.
TakenInv ==
  \A k \in 1..Len(containers) :
    /\ containers[k][1] = "perm" => containers[k][2] <= nextPerm
    /\ containers[k][1] = "temp" => containers[k][2] = k

Inv == TypeOK /\ LoopInv /\ TakenInv /\ ContainersDistinct
-----------------------------------------------------------------------------
(* Barriers and other values.                                              *)

LEMMA NewBarrierType ==
  ASSUME NEW P, NEW n \in Nat \ {0}
  PROVE  NewBarrier(n) \in BarrierOver(P)
BY DEF NewBarrier, BarrierOver

LEMMA ArriveType ==
  ASSUME NEW P, NEW b \in BarrierOver(P), NEW p \in P
  PROVE  Arrive(b, p) \in BarrierOver(P)
BY DEF Arrive, BarrierOver

LEMMA LeaveType ==
  ASSUME NEW P, NEW b \in BarrierOver(P), NEW p \in P
  PROVE  Leave(b, p) \in BarrierOver(P)
BY DEF Leave, BarrierOver

LEMMA PartyType ==
  /\ TheWorker \in Party
  /\ \A c \in Container : ContainerOf(c) \in Party /\ SlaveOf(c) \in Party
BY DEF TheWorker, Party, ContainerOf, SlaveOf

LEMMA NewTaskDataType == NewTaskData \in TaskData
BY DEF NewTaskData, TaskData, DefaultTask, Task, Result, NoResult, ResultKind

LEMMA ReportType ==
  ASSUME NEW slot \in {"none", "ok", "bad"}, NEW outcome \in {"ok", "bad"}
  PROVE  Report(slot, outcome) \in {"ok", "bad"}
BY DEF Report

LEMMA InitInv == Init => Inv
<1> SUFFICES ASSUME Init PROVE Inv
  OBVIOUS
<1> USE DEF Init
<1>1. WorkerTypeOK
  BY MaxTasksAssumption, MaxRequestsAssumption DEF WorkerTypeOK, WorkerPc
<1>2. ContainerTypeOK
  BY DEF ContainerTypeOK, ContainerPc
<1>3. SlaveTypeOK
  BY DEF SlaveTypeOK, SlavePc
<1>4. SharedTypeOK
  <2>1. start \in BarrierOver(Party)
    BY DEF NewBarrier, BarrierOver
  <2>2. NewBarrier(2) \in BarrierOver({"worker", "container"})
    BY DEF NewBarrier, BarrierOver
  <2> QED
    BY <2>1, <2>2, NewTaskDataType DEF SharedTypeOK
<1>5. LoopInv /\ TakenInv /\ ContainersDistinct
  BY DEF LoopInv, TakenInv, ContainersDistinct
<1> QED
  BY <1>1, <1>2, <1>3, <1>4, <1>5 DEF Inv, TypeOK
-----------------------------------------------------------------------------
(* The steps of the worker.                                                *)

LEMMA WorkerEndsInv ==
  ASSUME Inv, NEW p \in {"stopped", "dead"}, WorkerEnds(p)
  PROVE  Inv'
<1> USE DEF WorkerEnds, slaveVars
<1>1. WorkerTypeOK'
  BY DEF Inv, TypeOK, WorkerTypeOK, WorkerPc
<1>2. ContainerTypeOK'
  BY DEF Inv, TypeOK, ContainerTypeOK, ContainerPc
<1>3. SlaveTypeOK' /\ SharedTypeOK'
  BY DEF Inv, TypeOK, SlaveTypeOK, SharedTypeOK
<1>4. LoopInv' /\ TakenInv' /\ ContainersDistinct'
  BY DEF Inv, LoopInv, TakenInv, ContainersDistinct
<1> QED
  BY <1>1, <1>2, <1>3, <1>4 DEF Inv, TypeOK

LEMMA AcceptInv ==
  ASSUME Inv, NEW r \in Requests, Accept(r)
  PROVE  Inv'
<1> USE DEF Accept, WorkerAt, containerVars, slaveVars
<1>1. WorkerTypeOK' /\ tasks' \in Seq(Task) /\ reqNo' # 0
  BY RequestsAssumption, MaxTasksAssumption, MaxRequestsAssumption
     DEF Inv, TypeOK, WorkerTypeOK, WorkerPc
<1>2. ContainerTypeOK' /\ SlaveTypeOK' /\ SharedTypeOK'
  BY DEF Inv, TypeOK, ContainerTypeOK, SlaveTypeOK, SharedTypeOK
<1>3. containers' = <<>>
  BY DEF Inv, LoopInv
<1>4. LoopInv' /\ TakenInv' /\ ContainersDistinct'
  BY <1>1, <1>3 DEF LoopInv, TakenInv, ContainersDistinct
<1> QED
  BY <1>1, <1>2, <1>4 DEF Inv, TypeOK

LEMMA RejectInv == Inv /\ Reject => Inv'
<1> SUFFICES ASSUME Inv, Reject PROVE Inv'
  OBVIOUS
<1> USE DEF Reject, WorkerAt, containerVars, slaveVars
<1>1. WorkerTypeOK'
  BY MaxRequestsAssumption DEF Inv, TypeOK, WorkerTypeOK, WorkerPc
<1>2. ContainerTypeOK' /\ SlaveTypeOK' /\ SharedTypeOK'
  BY DEF Inv, TypeOK, ContainerTypeOK, SlaveTypeOK, SharedTypeOK
<1>3. LoopInv' /\ TakenInv' /\ ContainersDistinct'
  BY DEF Inv, TypeOK, WorkerTypeOK, LoopInv, TakenInv, ContainersDistinct
<1> QED
  BY <1>1, <1>2, <1>3 DEF Inv, TypeOK

LEMMA PrepareContainerInv == Inv /\ PrepareContainer => Inv'
<1> SUFFICES ASSUME Inv, PrepareContainer PROVE Inv'
  OBVIOUS
<1> USE DEF WorkerAt, MoreTasks
<1> DEFINE permanent == PermanentAllowed(tasks[i])
           c == IF permanent THEN <<"perm", nextPerm + 1>> ELSE <<"temp", i>>
<1>1. /\ wpc = "prepare" /\ wpc' = wpc /\ tasks' = tasks /\ i' = i + 1
      /\ reqNo' = reqNo /\ answers' = answers /\ wchld' = wchld
      /\ containers' = Append(containers, c)
      /\ nextPerm' = IF permanent THEN nextPerm + 1 ELSE nextPerm
      /\ i <= Len(tasks)
  BY DEF PrepareContainer, ContainerFor
<1>2. /\ i \in 1..MaxTasks /\ Len(tasks) \in Nat /\ Len(tasks) <= MaxTasks
      /\ Len(containers) = i - 1 /\ nextPerm \in Nat /\ nextPerm <= i - 1
  BY <1>1, MaxTasksAssumption DEF Inv, TypeOK, WorkerTypeOK, LoopInv
<1>3. c \in Container
  BY <1>2, MaxTasksAssumption DEF Container
<1>4. containers \in Seq(Container) /\ containers' \in Seq(Container)
  BY <1>1, <1>3 DEF Inv, TypeOK, WorkerTypeOK
<1>5. /\ Len(containers') = i
      /\ \A k \in 1..(i - 1) : containers'[k] = containers[k]
      /\ containers'[i] = c
  BY <1>1, <1>2, <1>3, <1>4
<1> HIDE DEF c, permanent
<1>6. WorkerTypeOK'
  BY <1>1, <1>2, <1>4, <1>5, MaxTasksAssumption
     DEF Inv, TypeOK, WorkerTypeOK, WorkerPc
<1>7. ContainerTypeOK'
  BY <1>3 DEF PrepareContainer, Inv, TypeOK, ContainerTypeOK, ContainerPc, c,
              permanent, ContainerFor
<1>8. SlaveTypeOK'
  BY DEF PrepareContainer, Inv, TypeOK, SlaveTypeOK, slaveVars
<1>9. SharedTypeOK'
  BY <1>3, NewTaskDataType
     DEF PrepareContainer, Inv, TypeOK, SharedTypeOK, c, permanent,
         ContainerFor, NewBarrier, BarrierOver
<1>10. LoopInv'
  BY <1>1, <1>2, <1>5 DEF Inv, LoopInv
<1>11. TakenInv'
  <2>1. \A k \in 1..(i - 1) :
          containers[k] \in Container /\ containers[k][2] \in Nat
    BY <1>2, <1>4, MaxTasksAssumption DEF Container
  <2>2. nextPerm <= nextPerm' /\ nextPerm' \in Nat
    BY <1>1, <1>2
  <2>3. \A k \in 1..(i - 1) :
          /\ containers[k][1] = "perm" => containers[k][2] <= nextPerm
          /\ containers[k][1] = "temp" => containers[k][2] = k
    BY <1>2 DEF Inv, TakenInv
  <2>4. /\ c[1] = "perm" => c[2] <= nextPerm'
        /\ c[1] = "temp" => c[2] = i
    BY <1>1, <1>2 DEF c
  <2>5. \A k \in 1..(i - 1) : containers[k][1] = "perm" =>
          containers[k][2] <= nextPerm'
    BY <1>2, <2>1, <2>2, <2>3
  <2>6. \A k \in 1..Len(containers') : k \in 1..(i - 1) \/ k = i
    BY <1>2, <1>5
  <2> QED
    BY <1>5, <2>3, <2>4, <2>5, <2>6 DEF TakenInv
<1>12. ContainersDistinct'
  <2>1. \A k \in 1..(i - 1) : containers[k] # c
    BY <1>2 DEF Inv, TakenInv, c
  <2> QED
    BY <1>2, <1>5, <2>1 DEF Inv, ContainersDistinct
<1> QED
  BY <1>6, <1>7, <1>8, <1>9, <1>10, <1>11, <1>12 DEF Inv, TypeOK
LEMMA ResetBarrierInv ==
  ASSUME Inv, ResetBarrier
  PROVE  Inv'
<1> USE DEF ResetBarrier, WorkerAt, MoreTasks, containerVars, slaveVars
<1>1. WorkerTypeOK'
  BY MaxTasksAssumption DEF Inv, TypeOK, WorkerTypeOK, WorkerPc
<1>2. ContainerTypeOK' /\ SlaveTypeOK'
  BY DEF Inv, TypeOK, ContainerTypeOK, SlaveTypeOK
<1>3. SharedTypeOK'
  <2>1. StartParties(Len(containers)) \in Nat \ {0}
    BY DEF StartParties, Inv, TypeOK, WorkerTypeOK
  <2> QED
    BY <2>1, NewBarrierType DEF Inv, TypeOK, SharedTypeOK
<1>4. LoopInv'
  BY DEF Inv, TypeOK, WorkerTypeOK, LoopInv
<1>5. TakenInv' /\ ContainersDistinct'
  BY DEF Inv, TakenInv, ContainersDistinct
<1> QED
  BY <1>1, <1>2, <1>3, <1>4, <1>5 DEF Inv, TypeOK

LEMMA SetTaskInv ==
  ASSUME Inv, SetTask
  PROVE  Inv'
<1> USE DEF SetTask, WorkerAt, MoreTasks, containerVars, slaveVars
<1>0. /\ i \in 1..Len(tasks) /\ i \in 1..MaxTasks
      /\ tasks[i] \in Task /\ <<reqNo, i>> \in Job \cup {NoJob}
  BY MaxTasksAssumption, MaxRequestsAssumption
     DEF Inv, TypeOK, WorkerTypeOK, LoopInv, Job
<1>1. WorkerTypeOK'
  BY <1>0, MaxTasksAssumption DEF Inv, TypeOK, WorkerTypeOK, WorkerPc
<1>2. ContainerTypeOK' /\ SlaveTypeOK'
  BY DEF Inv, TypeOK, ContainerTypeOK, SlaveTypeOK
<1>3. SharedTypeOK'
  <2>1. TaskDataFor(<<reqNo, i>>, tasks[i]) \in TaskData
    BY <1>0 DEF TaskDataFor, TaskData, Result, NoResult, ResultKind
  <2>2. tasks[i].pipe \in BOOLEAN
    BY <1>0 DEF Task
  <2> QED
    BY <2>1, <2>2 DEF Inv, TypeOK, SharedTypeOK
<1>4. LoopInv'
  BY <1>0 DEF Inv, TypeOK, WorkerTypeOK, LoopInv
<1>5. TakenInv' /\ ContainersDistinct'
  BY DEF Inv, TakenInv, ContainersDistinct
<1> QED
  BY <1>1, <1>2, <1>3, <1>4, <1>5 DEF Inv, TypeOK

LEMMA NextLoopInv ==
  ASSUME Inv, NextLoop
  PROVE  Inv'
<1> USE DEF NextLoop, WorkerAt, MoreTasks, containerVars, slaveVars
<1>1. WorkerTypeOK'
  BY MaxTasksAssumption
     DEF Inv, TypeOK, WorkerTypeOK, WorkerPc, LoopInv
<1>2. ContainerTypeOK' /\ SlaveTypeOK'
  BY DEF Inv, TypeOK, ContainerTypeOK, SlaveTypeOK
<1>3. SharedTypeOK'
  BY DEF Inv, TypeOK, SharedTypeOK
<1>4. LoopInv'
  BY MaxTasksAssumption DEF Inv, TypeOK, WorkerTypeOK, LoopInv
<1>5. TakenInv' /\ ContainersDistinct'
  BY DEF Inv, LoopInv, TakenInv, ContainersDistinct
<1> QED
  BY <1>1, <1>2, <1>3, <1>4, <1>5 DEF Inv, TypeOK

LEMMA EnterMeetingInv ==
  ASSUME Inv,
         NEW before, NEW inside, EnterMeeting(before, inside),
         <<before, inside>> \in {<<"meet", "meeting">>, <<"collect", "collecting">>}
  PROVE  Inv'
<1> USE DEF EnterMeeting, WorkerAt, MoreTasks, containerVars, slaveVars
<1>0. i \in 1..Len(tasks) /\ i \in 1..MaxTasks /\ containers[i] \in Container
  BY MaxTasksAssumption DEF Inv, TypeOK, WorkerTypeOK, LoopInv
<1>1. WorkerTypeOK'
  BY <1>0, MaxTasksAssumption
     DEF Inv, TypeOK, WorkerTypeOK, WorkerPc, LoopInv
<1>2. ContainerTypeOK' /\ SlaveTypeOK'
  BY DEF Inv, TypeOK, ContainerTypeOK, SlaveTypeOK
<1>3. SharedTypeOK'
  <2>1. meet' \in [Container -> BarrierOver({"worker", "container"})]
    BY <1>0, ArriveType DEF Inv, TypeOK, SharedTypeOK
  <2> QED
    BY <2>1 DEF Inv, TypeOK, SharedTypeOK
<1>4. LoopInv'
  BY <1>0, MaxTasksAssumption DEF Inv, TypeOK, WorkerTypeOK, LoopInv
<1>5. TakenInv' /\ ContainersDistinct'
  BY DEF Inv, LoopInv, TakenInv, ContainersDistinct
<1> QED
  BY <1>1, <1>2, <1>3, <1>4, <1>5 DEF Inv, TypeOK

LEMMA HandOverInv ==
  ASSUME Inv, HandOver
  PROVE  Inv'
<1> USE DEF HandOver, WorkerAt, MoreTasks, containerVars, slaveVars
<1>0. i \in 1..Len(tasks) /\ i \in 1..MaxTasks /\ containers[i] \in Container
  BY MaxTasksAssumption DEF Inv, TypeOK, WorkerTypeOK, LoopInv
<1>1. WorkerTypeOK'
  BY <1>0, MaxTasksAssumption
     DEF Inv, TypeOK, WorkerTypeOK, WorkerPc, LoopInv
<1>2. ContainerTypeOK' /\ SlaveTypeOK'
  BY DEF Inv, TypeOK, ContainerTypeOK, SlaveTypeOK
<1>3. SharedTypeOK'
  <2>1. meet' \in [Container -> BarrierOver({"worker", "container"})]
    BY <1>0, LeaveType DEF Inv, TypeOK, SharedTypeOK
  <2> QED
    BY <2>1 DEF Inv, TypeOK, SharedTypeOK
<1>4. LoopInv'
  BY <1>0, MaxTasksAssumption DEF Inv, TypeOK, WorkerTypeOK, LoopInv
<1>5. TakenInv' /\ ContainersDistinct'
  BY DEF Inv, LoopInv, TakenInv, ContainersDistinct
<1> QED
  BY <1>1, <1>2, <1>3, <1>4, <1>5 DEF Inv, TypeOK

LEMMA WorkerArrivesInv ==
  ASSUME Inv, WorkerArrives
  PROVE  Inv'
<1> USE DEF WorkerArrives, WorkerAt, MoreTasks, containerVars, slaveVars
<1>1. WorkerTypeOK'
  BY MaxTasksAssumption
     DEF Inv, TypeOK, WorkerTypeOK, WorkerPc, LoopInv
<1>2. ContainerTypeOK' /\ SlaveTypeOK'
  BY DEF Inv, TypeOK, ContainerTypeOK, SlaveTypeOK
<1>3. SharedTypeOK'
  <2>1. start' \in BarrierOver(Party)
    BY ArriveType, PartyType DEF Inv, TypeOK, SharedTypeOK
  <2> QED
    BY <2>1 DEF Inv, TypeOK, SharedTypeOK
<1>4. LoopInv'
  BY MaxTasksAssumption DEF Inv, TypeOK, WorkerTypeOK, LoopInv
<1>5. TakenInv' /\ ContainersDistinct'
  BY DEF Inv, LoopInv, TakenInv, ContainersDistinct
<1> QED
  BY <1>1, <1>2, <1>3, <1>4, <1>5 DEF Inv, TypeOK

LEMMA WorkerStartsInv ==
  ASSUME Inv, WorkerStarts
  PROVE  Inv'
<1> USE DEF WorkerStarts, WorkerAt, MoreTasks, containerVars, slaveVars
<1>1. WorkerTypeOK'
  BY MaxTasksAssumption
     DEF Inv, TypeOK, WorkerTypeOK, WorkerPc, LoopInv
<1>2. ContainerTypeOK' /\ SlaveTypeOK'
  BY DEF Inv, TypeOK, ContainerTypeOK, SlaveTypeOK
<1>3. SharedTypeOK'
  <2>1. start' \in BarrierOver(Party)
    BY LeaveType, PartyType DEF Inv, TypeOK, SharedTypeOK
  <2> QED
    BY <2>1 DEF Inv, TypeOK, SharedTypeOK
<1>4. LoopInv'
  BY MaxTasksAssumption DEF Inv, TypeOK, WorkerTypeOK, LoopInv
<1>5. TakenInv' /\ ContainersDistinct'
  BY DEF Inv, LoopInv, TakenInv, ContainersDistinct
<1> QED
  BY <1>1, <1>2, <1>3, <1>4, <1>5 DEF Inv, TypeOK

LEMMA ClosePipesInv ==
  ASSUME Inv, ClosePipes
  PROVE  Inv'
<1> USE DEF ClosePipes, WorkerAt, MoreTasks, containerVars, slaveVars
<1>1. WorkerTypeOK'
  BY MaxTasksAssumption
     DEF Inv, TypeOK, WorkerTypeOK, WorkerPc, LoopInv
<1>2. ContainerTypeOK' /\ SlaveTypeOK'
  BY DEF Inv, TypeOK, ContainerTypeOK, SlaveTypeOK
<1>3. SharedTypeOK'
  BY DEF Inv, TypeOK, SharedTypeOK
<1>4. LoopInv'
  BY MaxTasksAssumption DEF Inv, TypeOK, WorkerTypeOK, LoopInv
<1>5. TakenInv' /\ ContainersDistinct'
  BY DEF Inv, LoopInv, TakenInv, ContainersDistinct
<1> QED
  BY <1>1, <1>2, <1>3, <1>4, <1>5 DEF Inv, TypeOK

LEMMA CollectResultInv ==
  ASSUME Inv, CollectResult
  PROVE  Inv'
<1> USE DEF CollectResult, WorkerAt, MoreTasks, containerVars, slaveVars
<1>0. i \in 1..Len(tasks) /\ i \in 1..MaxTasks /\ containers[i] \in Container
  BY MaxTasksAssumption DEF Inv, TypeOK, WorkerTypeOK, LoopInv
<1>a. data[containers[i]].result \in Result
  BY <1>0 DEF Inv, TypeOK, SharedTypeOK, TaskData
<1>1. WorkerTypeOK'
  BY <1>0, <1>a, MaxTasksAssumption
     DEF Inv, TypeOK, WorkerTypeOK, WorkerPc, LoopInv
<1>2. ContainerTypeOK' /\ SlaveTypeOK'
  BY DEF Inv, TypeOK, ContainerTypeOK, SlaveTypeOK
<1>3. SharedTypeOK'
  <2>1. meet' \in [Container -> BarrierOver({"worker", "container"})]
    BY <1>0, LeaveType DEF Inv, TypeOK, SharedTypeOK
  <2> QED
    BY <2>1 DEF Inv, TypeOK, SharedTypeOK
<1>4. LoopInv'
  BY <1>0, <1>a, MaxTasksAssumption DEF Inv, TypeOK, WorkerTypeOK, LoopInv
<1>5. TakenInv' /\ ContainersDistinct'
  BY DEF Inv, LoopInv, TakenInv, ContainersDistinct
<1> QED
  BY <1>1, <1>2, <1>3, <1>4, <1>5 DEF Inv, TypeOK

LEMMA ReapInv ==
  ASSUME Inv, Reap
  PROVE  Inv'
<1> USE DEF Reap, WorkerAt, MoreTasks, containerVars, slaveVars
<1>1. WorkerTypeOK'
  BY MaxTasksAssumption
     DEF Inv, TypeOK, WorkerTypeOK, WorkerPc, LoopInv
<1>2. ContainerTypeOK' /\ SlaveTypeOK'
  BY DEF Inv, TypeOK, ContainerTypeOK, SlaveTypeOK, ContainerPc
<1>3. SharedTypeOK'
  BY DEF Inv, TypeOK, SharedTypeOK
<1>4. LoopInv'
  BY MaxTasksAssumption DEF Inv, TypeOK, WorkerTypeOK, LoopInv
<1>5. TakenInv' /\ ContainersDistinct'
  BY DEF Inv, LoopInv, TakenInv, ContainersDistinct
<1> QED
  BY <1>1, <1>2, <1>3, <1>4, <1>5 DEF Inv, TypeOK

LEMMA CollectedInv ==
  ASSUME Inv, Collected
  PROVE  Inv'
<1> USE DEF Collected, WorkerAt, MoreTasks, containerVars, slaveVars
<1>1. WorkerTypeOK'
  BY MaxTasksAssumption
     DEF Inv, TypeOK, WorkerTypeOK, WorkerPc, LoopInv
<1>2. ContainerTypeOK' /\ SlaveTypeOK'
  BY DEF Inv, TypeOK, ContainerTypeOK, SlaveTypeOK
<1>3. SharedTypeOK'
  BY DEF Inv, TypeOK, SharedTypeOK
<1>4. LoopInv'
  BY MaxTasksAssumption DEF Inv, TypeOK, WorkerTypeOK, LoopInv
<1>5. TakenInv' /\ ContainersDistinct'
  BY DEF Inv, LoopInv, TakenInv, ContainersDistinct
<1> QED
  BY <1>1, <1>2, <1>3, <1>4, <1>5 DEF Inv, TypeOK

LEMMA RespondInv ==
  ASSUME Inv, Respond
  PROVE  Inv'
<1> USE DEF Respond, WorkerAt, MoreTasks, containerVars, slaveVars
<1>1. WorkerTypeOK'
  BY MaxTasksAssumption
     DEF Inv, TypeOK, WorkerTypeOK, WorkerPc, LoopInv
<1>2. ContainerTypeOK' /\ SlaveTypeOK'
  BY DEF Inv, TypeOK, ContainerTypeOK, SlaveTypeOK
<1>3. SharedTypeOK'
  BY DEF Inv, TypeOK, SharedTypeOK
<1>4. LoopInv'
  BY MaxTasksAssumption DEF Inv, TypeOK, WorkerTypeOK, LoopInv
<1>5. TakenInv' /\ ContainersDistinct'
  BY DEF Inv, LoopInv, TakenInv, ContainersDistinct
<1> QED
  BY <1>1, <1>2, <1>3, <1>4, <1>5 DEF Inv, TypeOK

LEMMA WorkerSigchldInv ==
  ASSUME Inv, WorkerSigchld
  PROVE  Inv'
<1>1. CASE wchld = "bad" /\ WorkerEnds("dead")
  BY <1>1, WorkerEndsInv
<1>2. CASE wchld = "ok" /\ ~WorkerEnds("dead")
  <2> USE <1>2 DEF WorkerSigchld, containerVars, slaveVars
  <2>1. WorkerTypeOK'
    BY DEF Inv, TypeOK, WorkerTypeOK
  <2>2. ContainerTypeOK' /\ SlaveTypeOK' /\ SharedTypeOK'
    BY DEF Inv, TypeOK, ContainerTypeOK, SlaveTypeOK, SharedTypeOK
  <2>3. LoopInv' /\ TakenInv' /\ ContainersDistinct'
    BY DEF Inv, LoopInv, TakenInv, ContainersDistinct
  <2> QED
    BY <2>1, <2>2, <2>3 DEF Inv, TypeOK
<1>3. CASE wchld = "ok" /\ WorkerEnds("dead")
  BY <1>3, WorkerEndsInv
<1> QED
  BY <1>1, <1>2, <1>3 DEF WorkerSigchld

LEMMA WorkerStepInv == Inv /\ WorkerStep => Inv'
BY PrepareContainerInv, ResetBarrierInv, SetTaskInv, NextLoopInv,
   EnterMeetingInv, HandOverInv, WorkerArrivesInv, WorkerStartsInv,
   ClosePipesInv, CollectResultInv, ReapInv, CollectedInv, RespondInv,
   WorkerSigchldInv DEF WorkerStep
-----------------------------------------------------------------------------
(* The steps of the containers and of the slaves.                          *)

LEMMA SameRequest ==
  ASSUME Inv, wchld' \in {"none", "ok", "bad"},
         UNCHANGED <<wpc, i, reqNo, tasks, containers, nextPerm, answers>>
  PROVE  WorkerTypeOK' /\ LoopInv' /\ TakenInv' /\ ContainersDistinct'
<1>1. WorkerTypeOK'
  BY DEF Inv, TypeOK, WorkerTypeOK
<1>2. LoopInv' /\ TakenInv' /\ ContainersDistinct'
  BY DEF Inv, LoopInv, TakenInv, ContainersDistinct
<1> QED
  BY <1>1, <1>2

LEMMA ArmInv ==
  ASSUME Inv, NEW c \in Container, Arm(c)
  PROVE  Inv'
<1> USE DEF Arm, ContainerAt, workerVars, containerVars, slaveVars
<1>1. WorkerTypeOK' /\ LoopInv' /\ TakenInv' /\ ContainersDistinct'
  BY SameRequest DEF Inv, TypeOK, WorkerTypeOK
<1>2. ContainerTypeOK'
  BY DEF Inv, TypeOK, ContainerTypeOK, ContainerPc, Report
<1>3. SlaveTypeOK'
  BY DEF Inv, TypeOK, SlaveTypeOK, SlavePc, SharedTypeOK, TaskData
<1>4. SharedTypeOK'
  BY DEF Inv, TypeOK, SharedTypeOK
<1> QED
  BY <1>1, <1>2, <1>3, <1>4 DEF Inv, TypeOK

LEMMA PrepareRootInv ==
  ASSUME Inv, NEW c \in Container, PrepareRoot(c)
  PROVE  Inv'
<1> USE DEF PrepareRoot, ContainerAt, workerVars, containerVars, slaveVars
<1>1. WorkerTypeOK' /\ LoopInv' /\ TakenInv' /\ ContainersDistinct'
  BY SameRequest DEF Inv, TypeOK, WorkerTypeOK
<1>2. ContainerTypeOK'
  BY DEF Inv, TypeOK, ContainerTypeOK, ContainerPc, Report
<1>3. SlaveTypeOK'
  BY DEF Inv, TypeOK, SlaveTypeOK, SlavePc, SharedTypeOK, TaskData
<1>4. SharedTypeOK'
  BY DEF Inv, TypeOK, SharedTypeOK
<1> QED
  BY <1>1, <1>2, <1>3, <1>4 DEF Inv, TypeOK

LEMMA AwaitTaskInv ==
  ASSUME Inv, NEW c \in Container, AwaitTask(c)
  PROVE  Inv'
<1> USE DEF AwaitTask, ContainerAt, workerVars, containerVars, slaveVars
<1>1. WorkerTypeOK' /\ LoopInv' /\ TakenInv' /\ ContainersDistinct'
  BY SameRequest DEF Inv, TypeOK, WorkerTypeOK
<1>2. ContainerTypeOK'
  BY DEF Inv, TypeOK, ContainerTypeOK, ContainerPc, Report
<1>3. SlaveTypeOK'
  BY DEF Inv, TypeOK, SlaveTypeOK, SlavePc, SharedTypeOK, TaskData
<1>4. SharedTypeOK'
  <2>1. meet' \in [Container -> BarrierOver({"worker", "container"})]
    BY ArriveType DEF Inv, TypeOK, SharedTypeOK
  <2> QED
    BY <2>1 DEF Inv, TypeOK, SharedTypeOK
<1> QED
  BY <1>1, <1>2, <1>3, <1>4 DEF Inv, TypeOK

LEMMA TakeTaskInv ==
  ASSUME Inv, NEW c \in Container, TakeTask(c)
  PROVE  Inv'
<1> USE DEF TakeTask, ContainerAt, workerVars, containerVars, slaveVars
<1>1. WorkerTypeOK' /\ LoopInv' /\ TakenInv' /\ ContainersDistinct'
  BY SameRequest DEF Inv, TypeOK, WorkerTypeOK
<1>2. ContainerTypeOK'
  BY DEF Inv, TypeOK, ContainerTypeOK, ContainerPc, Report
<1>3. SlaveTypeOK'
  BY DEF Inv, TypeOK, SlaveTypeOK, SlavePc, SharedTypeOK, TaskData
<1>4. SharedTypeOK'
  <2>1. meet' \in [Container -> BarrierOver({"worker", "container"})]
    BY LeaveType DEF Inv, TypeOK, SharedTypeOK
  <2> QED
    BY <2>1 DEF Inv, TypeOK, SharedTypeOK
<1> QED
  BY <1>1, <1>2, <1>3, <1>4 DEF Inv, TypeOK

LEMMA LaunchInv ==
  ASSUME Inv, NEW c \in Container, Launch(c)
  PROVE  Inv'
<1> USE DEF Launch, ContainerAt, workerVars, containerVars, slaveVars
<1>1. WorkerTypeOK' /\ LoopInv' /\ TakenInv' /\ ContainersDistinct'
  BY SameRequest DEF Inv, TypeOK, WorkerTypeOK
<1>2. ContainerTypeOK'
  BY DEF Inv, TypeOK, ContainerTypeOK, ContainerPc, Report
<1>3. SlaveTypeOK'
  BY DEF Inv, TypeOK, SlaveTypeOK, SlavePc, SharedTypeOK, TaskData
<1>4. SharedTypeOK'
  BY DEF Inv, TypeOK, SharedTypeOK
<1> QED
  BY <1>1, <1>2, <1>3, <1>4 DEF Inv, TypeOK

LEMMA ContainerArrivesInv ==
  ASSUME Inv, NEW c \in Container, ContainerArrives(c)
  PROVE  Inv'
<1> USE DEF ContainerArrives, ContainerAt, workerVars, containerVars, slaveVars
<1>1. WorkerTypeOK' /\ LoopInv' /\ TakenInv' /\ ContainersDistinct'
  BY SameRequest DEF Inv, TypeOK, WorkerTypeOK
<1>2. ContainerTypeOK'
  BY DEF Inv, TypeOK, ContainerTypeOK, ContainerPc, Report
<1>3. SlaveTypeOK'
  BY DEF Inv, TypeOK, SlaveTypeOK, SlavePc, SharedTypeOK, TaskData
<1>4. SharedTypeOK'
  <2>1. start' \in BarrierOver(Party)
    BY ArriveType, PartyType DEF Inv, TypeOK, SharedTypeOK
  <2> QED
    BY <2>1 DEF Inv, TypeOK, SharedTypeOK
<1> QED
  BY <1>1, <1>2, <1>3, <1>4 DEF Inv, TypeOK

LEMMA ContainerStartsInv ==
  ASSUME Inv, NEW c \in Container, ContainerStarts(c)
  PROVE  Inv'
<1> USE DEF ContainerStarts, ContainerAt, workerVars, containerVars, slaveVars
<1>1. WorkerTypeOK' /\ LoopInv' /\ TakenInv' /\ ContainersDistinct'
  BY SameRequest DEF Inv, TypeOK, WorkerTypeOK
<1>2. ContainerTypeOK'
  BY DEF Inv, TypeOK, ContainerTypeOK, ContainerPc, Report
<1>3. SlaveTypeOK'
  BY DEF Inv, TypeOK, SlaveTypeOK, SlavePc, SharedTypeOK, TaskData
<1>4. SharedTypeOK'
  <2>1. start' \in BarrierOver(Party)
    BY LeaveType, PartyType DEF Inv, TypeOK, SharedTypeOK
  <2> QED
    BY <2>1 DEF Inv, TypeOK, SharedTypeOK
<1> QED
  BY <1>1, <1>2, <1>3, <1>4 DEF Inv, TypeOK

LEMMA TimeLimitInv ==
  ASSUME Inv, NEW c \in Container, TimeLimit(c)
  PROVE  Inv'
<1> USE DEF TimeLimit, ContainerAt, workerVars, containerVars, slaveVars
<1>1. WorkerTypeOK' /\ LoopInv' /\ TakenInv' /\ ContainersDistinct'
  BY SameRequest DEF Inv, TypeOK, WorkerTypeOK
<1>2. ContainerTypeOK'
  BY DEF Inv, TypeOK, ContainerTypeOK, ContainerPc, Report
<1>3. SlaveTypeOK'
  BY DEF Inv, TypeOK, SlaveTypeOK, SlavePc, SharedTypeOK, TaskData
<1>4. SharedTypeOK'
  BY DEF Inv, TypeOK, SharedTypeOK
<1> QED
  BY <1>1, <1>2, <1>3, <1>4 DEF Inv, TypeOK

LEMMA MeasureInv ==
  ASSUME Inv, NEW c \in Container, Measure(c)
  PROVE  Inv'
<1> USE DEF Measure, ContainerAt, workerVars, containerVars, slaveVars
<1>1. WorkerTypeOK' /\ LoopInv' /\ TakenInv' /\ ContainersDistinct'
  BY SameRequest DEF Inv, TypeOK, WorkerTypeOK
<1>2. ContainerTypeOK'
  BY DEF Inv, TypeOK, ContainerTypeOK, ContainerPc, Report
<1>3. SlaveTypeOK'
  BY DEF Inv, TypeOK, SlaveTypeOK, SlavePc, SharedTypeOK, TaskData
<1>4. SharedTypeOK'
  <2>1. OutcomeOf(c) \in Result
    BY DEF OutcomeOf, Inv, TypeOK, SlaveTypeOK, Result, ResultKind
  <2>2. data' \in [Container -> TaskData]
    BY <2>1 DEF Inv, TypeOK, SharedTypeOK, TaskData
  <2> QED
    BY <2>2 DEF Inv, TypeOK, SharedTypeOK
<1> QED
  BY <1>1, <1>2, <1>3, <1>4 DEF Inv, TypeOK

LEMMA DeliverInv ==
  ASSUME Inv, NEW c \in Container, Deliver(c)
  PROVE  Inv'
<1> USE DEF Deliver, ContainerAt, workerVars, containerVars, slaveVars
<1>1. WorkerTypeOK' /\ LoopInv' /\ TakenInv' /\ ContainersDistinct'
  BY SameRequest DEF Inv, TypeOK, WorkerTypeOK
<1>2. ContainerTypeOK'
  BY DEF Inv, TypeOK, ContainerTypeOK, ContainerPc, Report
<1>3. SlaveTypeOK'
  BY DEF Inv, TypeOK, SlaveTypeOK, SlavePc, SharedTypeOK, TaskData
<1>4. SharedTypeOK'
  <2>1. meet' \in [Container -> BarrierOver({"worker", "container"})]
    BY ArriveType DEF Inv, TypeOK, SharedTypeOK
  <2> QED
    BY <2>1 DEF Inv, TypeOK, SharedTypeOK
<1> QED
  BY <1>1, <1>2, <1>3, <1>4 DEF Inv, TypeOK

LEMMA DeliveredInv ==
  ASSUME Inv, NEW c \in Container, Delivered(c)
  PROVE  Inv'
<1> USE DEF Delivered, ContainerAt, workerVars, containerVars, slaveVars
<1>1. WorkerTypeOK' /\ LoopInv' /\ TakenInv' /\ ContainersDistinct'
  <2>1. wchld' \in {"none", "ok", "bad"}
    BY DEF Inv, TypeOK, WorkerTypeOK, Report
  <2> QED
    BY <2>1, SameRequest
<1>2. ContainerTypeOK'
  BY DEF Inv, TypeOK, ContainerTypeOK, ContainerPc, Report
<1>3. SlaveTypeOK'
  BY DEF Inv, TypeOK, SlaveTypeOK, SlavePc, SharedTypeOK, TaskData
<1>4. SharedTypeOK'
  <2>1. meet' \in [Container -> BarrierOver({"worker", "container"})]
    BY LeaveType DEF Inv, TypeOK, SharedTypeOK
  <2> QED
    BY <2>1 DEF Inv, TypeOK, SharedTypeOK
<1> QED
  BY <1>1, <1>2, <1>3, <1>4 DEF Inv, TypeOK

LEMMA CleanupInv ==
  ASSUME Inv, NEW c \in Container, Cleanup(c)
  PROVE  Inv'
<1> USE DEF Cleanup, ContainerAt, workerVars, containerVars, slaveVars
<1>1. WorkerTypeOK' /\ LoopInv' /\ TakenInv' /\ ContainersDistinct'
  BY SameRequest DEF Inv, TypeOK, WorkerTypeOK
<1>2. ContainerTypeOK'
  BY DEF Inv, TypeOK, ContainerTypeOK, ContainerPc, Report
<1>3. SlaveTypeOK'
  BY DEF Inv, TypeOK, SlaveTypeOK, SlavePc, SharedTypeOK, TaskData
<1>4. SharedTypeOK'
  BY DEF Inv, TypeOK, SharedTypeOK
<1> QED
  BY <1>1, <1>2, <1>3, <1>4 DEF Inv, TypeOK

LEMMA ContainerSigchldInv ==
  ASSUME Inv, NEW c \in Container, ContainerSigchld(c)
  PROVE  Inv'
<1> USE DEF ContainerSigchld, ContainerAt, workerVars, containerVars, slaveVars, ContainerDies
<1>1. WorkerTypeOK' /\ LoopInv' /\ TakenInv' /\ ContainersDistinct'
  BY SameRequest DEF Inv, TypeOK, WorkerTypeOK
<1>2. ContainerTypeOK'
  BY DEF Inv, TypeOK, ContainerTypeOK, ContainerPc, Report
<1>3. SlaveTypeOK'
  BY DEF Inv, TypeOK, SlaveTypeOK, SlavePc, SharedTypeOK, TaskData
<1>4. SharedTypeOK'
  BY DEF Inv, TypeOK, SharedTypeOK
<1> QED
  BY <1>1, <1>2, <1>3, <1>4 DEF Inv, TypeOK

LEMMA ContainerFailsInv ==
  ASSUME Inv, NEW c \in Container, ContainerFails(c)
  PROVE  Inv'
<1> USE DEF ContainerFails, ContainerAt, workerVars, containerVars, slaveVars, ContainerDies
<1>1. WorkerTypeOK' /\ LoopInv' /\ TakenInv' /\ ContainersDistinct'
  BY SameRequest DEF Inv, TypeOK, WorkerTypeOK
<1>2. ContainerTypeOK'
  BY DEF Inv, TypeOK, ContainerTypeOK, ContainerPc, Report
<1>3. SlaveTypeOK'
  BY DEF Inv, TypeOK, SlaveTypeOK, SlavePc, SharedTypeOK, TaskData
<1>4. SharedTypeOK'
  BY DEF Inv, TypeOK, SharedTypeOK
<1> QED
  BY <1>1, <1>2, <1>3, <1>4 DEF Inv, TypeOK

LEMMA ContainerGoneInv ==
  ASSUME Inv, NEW c \in Container, ContainerGone(c)
  PROVE  Inv'
<1> USE DEF ContainerGone, ContainerAt, workerVars, containerVars, slaveVars
<1>1. WorkerTypeOK' /\ LoopInv' /\ TakenInv' /\ ContainersDistinct'
  <2>1. wchld' \in {"none", "ok", "bad"}
    BY DEF Inv, TypeOK, WorkerTypeOK, Report
  <2> QED
    BY <2>1, SameRequest
<1>2. ContainerTypeOK'
  BY DEF Inv, TypeOK, ContainerTypeOK, ContainerPc, Report
<1>3. SlaveTypeOK'
  BY DEF Inv, TypeOK, SlaveTypeOK, SlavePc, SharedTypeOK, TaskData
<1>4. SharedTypeOK'
  BY DEF Inv, TypeOK, SharedTypeOK
<1> QED
  BY <1>1, <1>2, <1>3, <1>4 DEF Inv, TypeOK

LEMMA SlaveArrivesInv ==
  ASSUME Inv, NEW c \in Container, SlaveArrives(c)
  PROVE  Inv'
<1> USE DEF SlaveArrives, ContainerAt, workerVars, containerVars, slaveVars
<1>1. WorkerTypeOK' /\ LoopInv' /\ TakenInv' /\ ContainersDistinct'
  BY SameRequest DEF Inv, TypeOK, WorkerTypeOK
<1>2. ContainerTypeOK'
  BY DEF Inv, TypeOK, ContainerTypeOK, ContainerPc, Report
<1>3. SlaveTypeOK'
  BY DEF Inv, TypeOK, SlaveTypeOK, SlavePc, SharedTypeOK, TaskData
<1>4. SharedTypeOK'
  <2>1. start' \in BarrierOver(Party)
    BY ArriveType, PartyType DEF Inv, TypeOK, SharedTypeOK
  <2> QED
    BY <2>1 DEF Inv, TypeOK, SharedTypeOK
<1> QED
  BY <1>1, <1>2, <1>3, <1>4 DEF Inv, TypeOK

LEMMA SlaveStartsInv ==
  ASSUME Inv, NEW c \in Container, SlaveStarts(c)
  PROVE  Inv'
<1> USE DEF SlaveStarts, ContainerAt, workerVars, containerVars, slaveVars
<1>1. WorkerTypeOK' /\ LoopInv' /\ TakenInv' /\ ContainersDistinct'
  BY SameRequest DEF Inv, TypeOK, WorkerTypeOK
<1>2. ContainerTypeOK'
  BY DEF Inv, TypeOK, ContainerTypeOK, ContainerPc, Report
<1>3. SlaveTypeOK'
  BY DEF Inv, TypeOK, SlaveTypeOK, SlavePc, SharedTypeOK, TaskData
<1>4. SharedTypeOK'
  <2>1. start' \in BarrierOver(Party)
    BY LeaveType, PartyType DEF Inv, TypeOK, SharedTypeOK
  <2>2. data' \in [Container -> TaskData]
    BY DEF Inv, TypeOK, SharedTypeOK, TaskData
  <2> QED
    BY <2>1, <2>2 DEF Inv, TypeOK, SharedTypeOK
<1> QED
  BY <1>1, <1>2, <1>3, <1>4 DEF Inv, TypeOK

LEMMA ExecInv ==
  ASSUME Inv, NEW c \in Container, Exec(c)
  PROVE  Inv'
<1> USE DEF Exec, ContainerAt, workerVars, containerVars, slaveVars
<1>1. WorkerTypeOK' /\ LoopInv' /\ TakenInv' /\ ContainersDistinct'
  BY SameRequest DEF Inv, TypeOK, WorkerTypeOK
<1>2. ContainerTypeOK'
  BY DEF Inv, TypeOK, ContainerTypeOK, ContainerPc, Report
<1>3. SlaveTypeOK'
  BY DEF Inv, TypeOK, SlaveTypeOK, SlavePc, SharedTypeOK, TaskData
<1>4. SharedTypeOK'
  BY DEF Inv, TypeOK, SharedTypeOK
<1> QED
  BY <1>1, <1>2, <1>3, <1>4 DEF Inv, TypeOK

LEMMA SlaveFailsInv ==
  ASSUME Inv, NEW c \in Container, SlaveFails(c)
  PROVE  Inv'
<1> USE DEF SlaveFails, ContainerAt, workerVars, containerVars, slaveVars
<1>1. WorkerTypeOK' /\ LoopInv' /\ TakenInv' /\ ContainersDistinct'
  BY SameRequest DEF Inv, TypeOK, WorkerTypeOK
<1>2. ContainerTypeOK'
  BY DEF Inv, TypeOK, ContainerTypeOK, ContainerPc, Report
<1>3. SlaveTypeOK'
  BY DEF Inv, TypeOK, SlaveTypeOK, SlavePc, SharedTypeOK, TaskData
<1>4. SharedTypeOK'
  <2>1. data' \in [Container -> TaskData]
    BY DEF Inv, TypeOK, SharedTypeOK, TaskData
  <2> QED
    BY <2>1 DEF Inv, TypeOK, SharedTypeOK
<1> QED
  BY <1>1, <1>2, <1>3, <1>4 DEF Inv, TypeOK

LEMMA ProgramEndsInv ==
  ASSUME Inv, NEW c \in Container, ProgramEnds(c)
  PROVE  Inv'
<1> USE DEF ProgramEnds, ContainerAt, workerVars, containerVars, slaveVars
<1>1. WorkerTypeOK' /\ LoopInv' /\ TakenInv' /\ ContainersDistinct'
  BY SameRequest DEF Inv, TypeOK, WorkerTypeOK
<1>2. ContainerTypeOK'
  BY DEF Inv, TypeOK, ContainerTypeOK, ContainerPc, Report
<1>3. SlaveTypeOK'
  BY DEF Inv, TypeOK, SlaveTypeOK, SlavePc, SharedTypeOK, TaskData
<1>4. SharedTypeOK'
  BY DEF Inv, TypeOK, SharedTypeOK
<1> QED
  BY <1>1, <1>2, <1>3, <1>4 DEF Inv, TypeOK

LEMMA NextInv == Inv /\ [Next]_vars => Inv'
<1> SUFFICES ASSUME Inv, [Next]_vars PROVE Inv'
  OBVIOUS
<1>1. CASE UNCHANGED vars
  <2> USE <1>1 DEF vars, workerVars, containerVars, slaveVars
  <2>1. WorkerTypeOK' /\ LoopInv' /\ TakenInv' /\ ContainersDistinct'
    BY SameRequest DEF Inv, TypeOK, WorkerTypeOK
  <2>2. ContainerTypeOK' /\ SlaveTypeOK' /\ SharedTypeOK'
    BY DEF Inv, TypeOK, ContainerTypeOK, SlaveTypeOK, SharedTypeOK
  <2> QED
    BY <2>1, <2>2 DEF Inv, TypeOK
<1>2. CASE WorkerStep
  BY <1>2, WorkerStepInv
<1>3. ASSUME NEW r \in Requests, Accept(r) PROVE Inv'
  BY <1>3, AcceptInv
<1>4. CASE Reject
  BY <1>4, RejectInv
<1>5. CASE Stop \/ WorkerFails
  BY <1>5, WorkerEndsInv DEF Stop, WorkerFails
<1>6. ASSUME NEW c \in Container, ContainerStep(c) PROVE Inv'
  BY <1>6, ArmInv, PrepareRootInv, AwaitTaskInv, TakeTaskInv, LaunchInv,
     ContainerArrivesInv, ContainerStartsInv, MeasureInv, DeliverInv,
     DeliveredInv, CleanupInv, ContainerSigchldInv, ContainerGoneInv
     DEF ContainerStep
<1>7. ASSUME NEW c \in Container,
             \/ TimeLimit(c) \/ ContainerFails(c)
             \/ SlaveStep(c) \/ SlaveFails(c) \/ ProgramEnds(c)
      PROVE  Inv'
  BY <1>7, TimeLimitInv, ContainerFailsInv, SlaveArrivesInv, SlaveStartsInv,
     ExecInv, SlaveFailsInv, ProgramEndsInv DEF SlaveStep
<1> QED
  BY <1>1, <1>2, <1>3, <1>4, <1>5, <1>6, <1>7 DEF Next

THEOREM Invariance == Spec => []Inv
BY InitInv, NextInv, PTL DEF Spec
-----------------------------------------------------------------------------
\* Type correctness of the worker, its containers and their slaves.
THEOREM TypeCorrect == Spec => []TypeOK
<1>1. Inv => TypeOK
  BY DEF Inv
<1> QED
  BY <1>1, Invariance, PTL

\* No container ever serves two tasks of one request.
THEOREM OneContainerPerTask == Spec => []ContainersDistinct
<1>1. Inv => ContainersDistinct
  BY DEF Inv
<1> QED
  BY <1>1, Invariance, PTL
=============================================================================
