------------------------------ MODULE Sandbox ------------------------------
(***************************************************************************)
(* How one worker of libsboxd runs the tasks of a request: the worker      *)
(* (src/src/worker.cpp), the containers it clones and the slaves they fork *)
(* (src/src/container.cpp), the two kinds of barrier they meet at, the     *)
(* task data in shared memory, and the signals that tell a parent of a     *)
(* child's end.                                                            *)
(*                                                                         *)
(* Each process is a program counter and takes the steps of its code; a    *)
(* step ends where another process can see or disturb what it did.  A      *)
(* process with a pending SIGCHLD runs the handler before anything else.   *)
(* A pending SIGCHLD is one slot: a second one is lost, as for every       *)
(* standard signal.                                                        *)
(***************************************************************************)
EXTENDS SharedBarrier, Sequences, Integers

CONSTANTS
  Requests,     \* the requests a client may send: sequences of tasks
  MaxTasks,     \* bound on the tasks of a request
  MaxRequests,  \* bound on the requests the worker accepts
  Faults        \* the program points whose system calls may fail

\* What the run of a task depends on: need_ipc, use_standard_binds, whether
\* it has a time or a wall time limit, whether a stream of it is a pipe.
Task == [ipc : BOOLEAN, std : BOOLEAN, limited : BOOLEAN, pipe : BOOLEAN]

ASSUME MaxTasksAssumption == MaxTasks \in Nat
ASSUME MaxRequestsAssumption == MaxRequests \in Nat
ASSUME RequestsAssumption ==
  \A r \in Requests : r \in Seq(Task) /\ Len(r) <= MaxTasks
\* A worker that has stopped makes no system call any more.
ASSUME FaultsAssumption == "stopped" \notin Faults

\* <<"perm", k>> is the k-th permanent container of the worker, <<"temp", k>>
\* the temporary container that task k of the current request gets.
Container == {"perm", "temp"} \X (1..MaxTasks)

\* A job is the run of one task of one request.
Job == (1..MaxRequests) \X (1..MaxTasks)
NoJob == <<0, 0>>

\* Who takes part in the run start barrier.
TheWorker == <<"worker", <<"none", 0>>>>
ContainerOf(c) == <<"container", c>>
SlaveOf(c) == <<"slave", c>>
Party == {TheWorker} \cup ({"container", "slave"} \X Container)

\* struct TaskData as its constructor leaves it.
DefaultTask == [ipc |-> FALSE, std |-> TRUE, limited |-> FALSE, pipe |-> FALSE]
NoResult == [job |-> NoJob, kind |-> "none"]
NewTaskData ==
  [job |-> NoJob, task |-> DefaultTask, error |-> FALSE, result |-> NoResult]

\* How the run of a job may end: the slave was reaped after it had executed
\* the program or after it had died in its preparations, or the container
\* killed it at a limit.
ResultKind == {"none", "exited", "failed", "limit"}
Result == [job : Job \cup {NoJob}, kind : ResultKind]

WorkerPc ==
  {"accept", "prepare", "write", "meet", "meeting", "starting", "close",
   "collect", "collecting", "reap", "respond", "stopped", "dead"}

ContainerPc ==
  {"absent", "cloned", "armed", "ready", "waitTask", "launch", "forked",
   "waitStart", "watch", "killing", "finish", "waitResults", "cleanup",
   "exiting", "exited", "dead"}

\* A container without a process, or whose process only has to disappear.
Over == {"absent", "exiting", "exited", "dead"}

SlavePc == {"absent", "born", "await", "setup", "run", "failed", "ended"}

\* The slave's process is still executing.
Live == {"born", "await", "setup", "run"}

VARIABLES
  wpc,         \* the worker's program counter
  i,           \* the index of the loop the worker is in
  reqNo,       \* the number of the current request
  tasks,       \* tasks_: the tasks of the current request
  containers,  \* containers_: the container of each task prepared so far
  nextPerm,    \* next_permanent_container of prepare_containers()
  answers,     \* the results collected for the response
  pipes,       \* pipes_ is not empty: the shared descriptor table has them
  start,       \* run_start_barrier_
  wchld,       \* the worker's pending SIGCHLD: "none", "ok" or "bad"
  cpc,         \* the program counter of each container
  cchld,       \* the pending SIGCHLD of each container
  meet,        \* barrier_ of each container
  data,        \* task_data_ of each container
  box,         \* what the root and the namespaces of each container hold
  cgroups,     \* the containers whose cgroup directories exist
  spc,         \* the program counter of each container's slave
  prog,        \* the job for which the container last forked a slave
  fds          \* the slaves that inherited the ends of the pipes

workerVars == <<wpc, i, reqNo, tasks, containers, nextPerm, answers, wchld>>
containerVars == <<cpc, cchld, box, cgroups>>
slaveVars == <<spc, prog, fds>>
vars == <<workerVars, containerVars, slaveVars, pipes, start, meet, data>>

WorkerTypeOK ==
  /\ wpc \in WorkerPc
  /\ i \in 1..(MaxTasks + 1)
  /\ reqNo \in 0..MaxRequests
  /\ tasks \in Seq(Task) /\ Len(tasks) <= MaxTasks
  /\ containers \in Seq(Container) /\ Len(containers) <= MaxTasks
  /\ nextPerm \in 0..MaxTasks
  /\ answers \in Seq(Result)
  /\ wchld \in {"none", "ok", "bad"}

ContainerTypeOK ==
  /\ cpc \in [Container -> ContainerPc]
  /\ cchld \in [Container -> {"none", "ok", "bad"}]
  /\ box \in [Container -> SUBSET {"standard", "ipc", "task", "files"}]
  /\ cgroups \subseteq Container

SlaveTypeOK ==
  /\ spc \in [Container -> SlavePc]
  /\ prog \in [Container -> Job \cup {NoJob}]
  /\ fds \subseteq Container

TaskData ==
  [job : Job \cup {NoJob}, task : Task, error : BOOLEAN, result : Result]

SharedTypeOK ==
  /\ pipes \in BOOLEAN
  /\ start \in BarrierOver(Party)
  /\ meet \in [Container -> BarrierOver({"worker", "container"})]
  /\ data \in [Container -> TaskData]

TypeOK == WorkerTypeOK /\ ContainerTypeOK /\ SlaveTypeOK /\ SharedTypeOK

Init ==
  /\ wpc = "accept" /\ i = 1 /\ reqNo = 0
  /\ tasks = <<>> /\ containers = <<>> /\ nextPerm = 0 /\ answers = <<>>
  /\ pipes = FALSE
  /\ start = NewBarrier(1)
  /\ wchld = "none"
  /\ cpc = [c \in Container |-> "absent"]
  /\ cchld = [c \in Container |-> "none"]
  /\ meet = [c \in Container |-> NewBarrier(2)]
  /\ data = [c \in Container |-> NewTaskData]
  /\ box = [c \in Container |-> {}]
  /\ cgroups = {}
  /\ spc = [c \in Container |-> "absent"]
  /\ prog = [c \in Container |-> NoJob]
  /\ fds = {}

\* A child's end is reported in the slot, unless one is pending already.
Report(slot, outcome) == IF slot = "none" THEN outcome ELSE slot
-----------------------------------------------------------------------------
(* The worker.                                                             *)

\* The worker is at pc and has no signal to handle first.
WorkerAt(pc) == wpc = pc /\ wchld = "none"

\* The loop over the tasks at hand has a next one.
MoreTasks == i <= Len(tasks)

\* Mutant: the containers have no parent death signal.
WorkerEndsAlone(pc) ==
  /\ wpc' = pc
  /\ wchld' = "none"
  /\ UNCHANGED <<i, reqNo, tasks, containers, nextPerm, answers, containerVars,
                 slaveVars, pipes, start, meet, data>>

\* The worker exits.  Every container that has set its parent death signal
\* gets SIGKILL; one that has not set it yet is left alone.
WorkerEnds(pc) ==
  /\ wpc' = pc
  /\ wchld' = "none"
  /\ cpc' = [c \in Container |-> IF cpc[c] \in Over \cup {"cloned"}
                                 THEN cpc[c] ELSE "exiting"]
  /\ UNCHANGED <<i, reqNo, tasks, containers, nextPerm, answers, cchld, box,
                 cgroups, slaveVars, pipes, start, meet, data>>

\* serve(): a connection is accepted and its request is a valid one.
Accept(r) ==
  /\ WorkerAt("accept")
  /\ reqNo < MaxRequests
  /\ reqNo' = reqNo + 1
  /\ tasks' = r
  /\ nextPerm' = 0
  /\ answers' = <<>>
  /\ i' = 1
  /\ wpc' = "prepare"
  /\ UNCHANGED <<containers, wchld, containerVars, slaveVars, pipes, start,
                 meet, data>>

\* serve(): the request does not parse or validate: the response is an error.
Reject ==
  /\ WorkerAt("accept")
  /\ reqNo < MaxRequests
  /\ reqNo' = reqNo + 1
  /\ answers' = <<>>
  /\ wpc' = "respond"
  /\ UNCHANGED <<i, tasks, containers, nextPerm, wchld, containerVars,
                 slaveVars, pipes, start, meet, data>>

\* serve(): terminated_ was set, and the worker leaves its loop.
Stop == WorkerAt("accept") /\ WorkerEnds("stopped")

\* A permanent container will do for the task.
PermanentAllowed(t) == ~t.ipc /\ t.std

\* Mutant: the next permanent container is always the first.
ContainerForSame(t, k, n) ==
  IF PermanentAllowed(t) THEN <<"perm", 1>> ELSE <<"temp", k>>

\* The container of task k, when n permanent ones are in use already.
ContainerFor(t, k, n) ==
  IF PermanentAllowed(t) THEN <<"perm", n + 1>> ELSE <<"temp", k>>

\* One round of the loop of prepare_containers(): the task gets the next
\* permanent container, created when the worker has no more of them, or a
\* new temporary one.
PrepareContainer ==
  /\ WorkerAt("prepare") /\ MoreTasks
  /\ LET permanent == PermanentAllowed(tasks[i])
         c == ContainerFor(tasks[i], i, nextPerm)
         create == ~permanent \/ cpc[c] = "absent"
     IN  /\ containers' = Append(containers, c)
         /\ nextPerm' = IF permanent THEN nextPerm + 1 ELSE nextPerm
         /\ cpc' = IF create THEN [cpc EXCEPT ![c] = "cloned"] ELSE cpc
         /\ cchld' = IF create THEN [cchld EXCEPT ![c] = "none"] ELSE cchld
         /\ meet' = IF create THEN [meet EXCEPT ![c] = NewBarrier(2)] ELSE meet
         /\ data' = IF create THEN [data EXCEPT ![c] = NewTaskData] ELSE data
         /\ box' = IF create THEN [box EXCEPT ![c] = {}] ELSE box
  /\ i' = i + 1
  /\ UNCHANGED <<wpc, reqNo, tasks, answers, wchld, cgroups, slaveVars, pipes,
                 start>>

\* Mutant: the slaves do not count.
StartPartiesNoSlaves(n) == n + 1

\* Who waits for the start of a run of n tasks: the worker, n containers and
\* n slaves.
StartParties(n) == n * 2 + 1

\* process(): the run start barrier is made anew for this request.  Its
\* destruction first waits for the processes still inside the last round.
ResetBarrier ==
  /\ WorkerAt("prepare") /\ ~MoreTasks
  /\ start.leaving = {}
  /\ start' = NewBarrier(StartParties(Len(containers)))
  /\ wpc' = "write" /\ i' = 1
  /\ UNCHANGED <<reqNo, tasks, containers, nextPerm, answers, wchld,
                 containerVars, slaveVars, pipes, meet, data>>

\* Mutant: the error flag is not set.
TaskDataForUnflagged(j, t) ==
  [job |-> j, task |-> t, error |-> FALSE, result |-> NoResult]

\* What set_task() leaves in the task data for the task t of job j.
TaskDataFor(j, t) ==
  [job |-> j, task |-> t, error |-> TRUE, result |-> NoResult]

\* One round of write_tasks(): set_task(), which creates the pipes it names.
SetTask ==
  /\ WorkerAt("write") /\ MoreTasks
  /\ data' = [data EXCEPT ![containers[i]] =
                TaskDataFor(<<reqNo, i>>, tasks[i])]
  /\ pipes' = (pipes \/ tasks[i].pipe)
  /\ i' = i + 1
  /\ UNCHANGED <<wpc, reqNo, tasks, containers, nextPerm, answers, wchld,
                 containerVars, slaveVars, start, meet>>

\* The loops of write_tasks() and of collect_results() end.
NextLoop ==
  /\ \/ WorkerAt("write") /\ ~MoreTasks /\ wpc' = "meet"
     \/ WorkerAt("collect") /\ ~MoreTasks /\ wpc' = "reap"
  /\ i' = 1
  /\ UNCHANGED <<reqNo, tasks, containers, nextPerm, answers, wchld,
                 containerVars, slaveVars, pipes, start, meet, data>>

\* run_tasks() and collect_results(): the worker enters the barrier of the
\* i-th container.
EnterMeeting(before, inside) ==
  /\ WorkerAt(before) /\ MoreTasks
  /\ meet' = [meet EXCEPT ![containers[i]] = Arrive(@, "worker")]
  /\ wpc' = inside
  /\ UNCHANGED <<i, reqNo, tasks, containers, nextPerm, answers, wchld,
                 containerVars, slaveVars, pipes, start, data>>

\* run_tasks(): the i-th container has come for its task.
HandOver ==
  /\ WorkerAt("meeting")
  /\ Released(meet[containers[i]], "worker")
  /\ meet' = [meet EXCEPT ![containers[i]] = Leave(@, "worker")]
  /\ wpc' = "meet" /\ i' = i + 1
  /\ UNCHANGED <<reqNo, tasks, containers, nextPerm, answers, wchld,
                 containerVars, slaveVars, pipes, start, data>>

\* run_tasks(): the worker enters the run start barrier.
WorkerArrives ==
  /\ WorkerAt("meet") /\ ~MoreTasks
  /\ start' = Arrive(start, TheWorker)
  /\ wpc' = "starting"
  /\ UNCHANGED <<i, reqNo, tasks, containers, nextPerm, answers, wchld,
                 containerVars, slaveVars, pipes, meet, data>>

\* Mutant: the worker does not wait for the start.
WorkerStartsAtOnce ==
  /\ WorkerAt("starting")
  /\ start' = Leave(start, TheWorker)
  /\ wpc' = "close"
  /\ UNCHANGED <<i, reqNo, tasks, containers, nextPerm, answers, wchld,
                 containerVars, slaveVars, pipes, meet, data>>

WorkerStarts ==
  /\ WorkerAt("starting")
  /\ Released(start, TheWorker)
  /\ start' = Leave(start, TheWorker)
  /\ wpc' = "close"
  /\ UNCHANGED <<i, reqNo, tasks, containers, nextPerm, answers, wchld,
                 containerVars, slaveVars, pipes, meet, data>>

ClosePipes ==
  /\ WorkerAt("close")
  /\ pipes' = FALSE
  /\ wpc' = "collect" /\ i' = 1
  /\ UNCHANGED <<reqNo, tasks, containers, nextPerm, answers, wchld,
                 containerVars, slaveVars, start, meet, data>>

\* Mutant: the worker takes the result without waiting for the container.
CollectResultAtOnce ==
  /\ WorkerAt("collecting")
  /\ meet' = [meet EXCEPT ![containers[i]] = Leave(@, "worker")]
  /\ answers' = Append(answers, data[containers[i]].result)
  /\ wpc' = "collect" /\ i' = i + 1
  /\ UNCHANGED <<reqNo, tasks, containers, nextPerm, wchld, containerVars,
                 slaveVars, pipes, start, data>>

\* collect_results(): the i-th container has delivered; put_results().
CollectResult ==
  /\ WorkerAt("collecting")
  /\ Released(meet[containers[i]], "worker")
  /\ meet' = [meet EXCEPT ![containers[i]] = Leave(@, "worker")]
  /\ answers' = Append(answers, data[containers[i]].result)
  /\ wpc' = "collect" /\ i' = i + 1
  /\ UNCHANGED <<reqNo, tasks, containers, nextPerm, wchld, containerVars,
                 slaveVars, pipes, start, data>>

\* collect_results(): the next temporary container is waited for.  Its id
\* goes back to the pool here too: see SharedIdGetter.
Reap ==
  /\ WorkerAt("reap") /\ i <= Len(containers)
  /\ LET c == containers[i] IN
       \/ /\ c[1] = "perm"
          /\ UNCHANGED cpc
       \/ /\ c[1] = "temp"
          /\ cpc[c] \in {"exited", "dead"}
          /\ cpc' = [cpc EXCEPT ![c] = "absent"]
  /\ i' = i + 1
  /\ UNCHANGED <<wpc, reqNo, tasks, containers, nextPerm, answers, wchld,
                 cchld, box, cgroups, slaveVars, pipes, start, meet, data>>

\* Mutant: containers_ is not cleared.
CollectedKeepsContainers ==
  /\ WorkerAt("reap") /\ i > Len(containers)
  /\ tasks' = <<>>
  /\ wpc' = "respond"
  /\ UNCHANGED <<i, reqNo, containers, nextPerm, answers, wchld, containerVars,
                 slaveVars, pipes, start, meet, data>>

\* collect_results() returns.
Collected ==
  /\ WorkerAt("reap") /\ i > Len(containers)
  /\ tasks' = <<>> /\ containers' = <<>>
  /\ wpc' = "respond"
  /\ UNCHANGED <<i, reqNo, nextPerm, answers, wchld, containerVars, slaveVars,
                 pipes, start, meet, data>>

\* serve(): the response is written and the connection closed.
Respond ==
  /\ WorkerAt("respond")
  /\ wpc' = "accept"
  /\ UNCHANGED <<i, reqNo, tasks, containers, nextPerm, answers, wchld,
                 containerVars, slaveVars, pipes, start, meet, data>>

\* Mutant: the worker ignores how a container ended.
WorkerSigchldIgnored ==
  /\ wchld # "none"
  /\ wchld' = "none"
  /\ UNCHANGED <<wpc, i, reqNo, tasks, containers, nextPerm, answers,
                 containerVars, slaveVars, pipes, start, meet, data>>

\* sigchld_action(): the worker dies unless the container exited with 0.
WorkerSigchld ==
  /\ wchld # "none"
  /\ \/ wchld = "bad" /\ WorkerEnds("dead")
     \/ wchld = "ok" /\ wchld' = "none"
        /\ UNCHANGED <<wpc, i, reqNo, tasks, containers, nextPerm, answers,
                       containerVars, slaveVars, pipes, start, meet, data>>

\* A system call, or a check of the request's size, fails: die().
WorkerFails == wpc \in Faults /\ wchld = "none" /\ WorkerEnds("dead")

WorkerStep ==
  \/ PrepareContainer \/ ResetBarrier \/ SetTask \/ NextLoop
  \/ EnterMeeting("meet", "meeting") \/ HandOver
  \/ WorkerArrives \/ WorkerStarts \/ ClosePipes
  \/ EnterMeeting("collect", "collecting") \/ CollectResult
  \/ Reap \/ Collected \/ Respond \/ WorkerSigchld
-----------------------------------------------------------------------------
(* The containers.                                                         *)

\* Container c is at pc and has no signal to handle first.
ContainerAt(c, pc) == cpc[c] = pc /\ cchld[c] = "none"

\* prepare(): the parent death signal is set, the handlers are in place.
Arm(c) ==
  /\ ContainerAt(c, "cloned")
  /\ cpc' = [cpc EXCEPT ![c] = "armed"]
  /\ UNCHANGED <<workerVars, cchld, box, cgroups, slaveVars, pipes, start,
                 meet, data>>

\* prepare_root() and disable_ipcs(): a permanent container gets no IPC, and
\* the standard binds depend on the task data of now.
PrepareRoot(c) ==
  /\ ContainerAt(c, "armed")
  /\ box' = [box EXCEPT ![c] = (IF data[c].task.std THEN {"standard"} ELSE {})
                                 \cup (IF c[1] = "perm" THEN {} ELSE {"ipc"})]
  /\ cpc' = [cpc EXCEPT ![c] = "ready"]
  /\ UNCHANGED <<workerVars, cchld, cgroups, slaveVars, pipes, start, meet,
                 data>>

\* serve(): the container waits for a task.
AwaitTask(c) ==
  /\ ContainerAt(c, "ready")
  /\ meet' = [meet EXCEPT ![c] = Arrive(@, "container")]
  /\ cpc' = [cpc EXCEPT ![c] = "waitTask"]
  /\ UNCHANGED <<workerVars, cchld, box, cgroups, slaveVars, pipes, start,
                 data>>

TakeTask(c) ==
  /\ ContainerAt(c, "waitTask")
  /\ Released(meet[c], "container")
  /\ meet' = [meet EXCEPT ![c] = Leave(@, "container")]
  /\ cpc' = [cpc EXCEPT ![c] = "launch"]
  /\ UNCHANGED <<workerVars, cchld, box, cgroups, slaveVars, pipes, start,
                 data>>

\* serve(): the binds of the task, the cgroups, and fork().
Launch(c) ==
  /\ ContainerAt(c, "launch")
  /\ box' = [box EXCEPT ![c] = @ \cup {"task"}]
  /\ cgroups' = cgroups \cup {c}
  /\ spc' = [spc EXCEPT ![c] = "born"]
  /\ prog' = [prog EXCEPT ![c] = data[c].job]
  /\ fds' = IF pipes THEN fds \cup {c} ELSE fds \ {c}
  /\ cpc' = [cpc EXCEPT ![c] = "forked"]
  /\ UNCHANGED <<workerVars, cchld, pipes, start, meet, data>>

ContainerArrives(c) ==
  /\ ContainerAt(c, "forked")
  /\ start' = Arrive(start, ContainerOf(c))
  /\ cpc' = [cpc EXCEPT ![c] = "waitStart"]
  /\ UNCHANGED <<workerVars, cchld, box, cgroups, slaveVars, pipes, meet,
                 data>>

ContainerStarts(c) ==
  /\ ContainerAt(c, "waitStart")
  /\ Released(start, ContainerOf(c))
  /\ start' = Leave(start, ContainerOf(c))
  /\ cpc' = [cpc EXCEPT ![c] = "watch"]
  /\ UNCHANGED <<workerVars, cchld, box, cgroups, slaveVars, pipes, meet,
                 data>>

\* wait_for_slave(): the timer finds a limit exceeded; kill_all().
TimeLimit(c) ==
  /\ ContainerAt(c, "watch")
  /\ data[c].task.limited
  /\ spc[c] \in Live
  /\ spc' = [spc EXCEPT ![c] = "ended"]
  /\ box' = IF spc[c] = "run" THEN [box EXCEPT ![c] = @ \cup {"files"}] ELSE box
  /\ cchld' = [cchld EXCEPT ![c] = Report(@, "bad")]
  /\ cpc' = [cpc EXCEPT ![c] = "killing"]
  /\ UNCHANGED <<workerVars, cgroups, prog, fds, pipes, start, meet, data>>

\* How the run of c's slave ended, as the container records it.
OutcomeOf(c) ==
  [job |-> prog[c],
   kind |-> IF cpc[c] = "killing" THEN "limit"
            ELSE IF spc[c] = "failed" THEN "failed" ELSE "exited"]

\* wait_for_slave(): the slave is reaped, its run measured, and the
\* container dies if the slave had not cleared the error flag.
Measure(c) ==
  /\ ContainerAt(c, "watch") \/ ContainerAt(c, "killing")
  /\ spc[c] \in {"failed", "ended"}
  /\ spc' = [spc EXCEPT ![c] = "absent"]
  /\ data' = [data EXCEPT ![c].result = OutcomeOf(c)]
  /\ cpc' = [cpc EXCEPT ![c] = IF data[c].error THEN "exiting" ELSE "finish"]
  /\ cgroups' = IF data[c].error THEN cgroups \ {c} ELSE cgroups
  /\ UNCHANGED <<workerVars, cchld, box, prog, fds, pipes, start, meet>>

\* Mutant: the cgroup controllers are not deleted.
DeliverKeepsCgroups(c) ==
  /\ ContainerAt(c, "finish")
  /\ box' = [box EXCEPT ![c] = @ \ {"task"}]
  /\ meet' = [meet EXCEPT ![c] = Arrive(@, "container")]
  /\ cpc' = [cpc EXCEPT ![c] = "waitResults"]
  /\ UNCHANGED <<workerVars, cchld, cgroups, slaveVars, pipes, start, data>>

\* serve(): the binds are unmounted, the cgroups deleted, and the results
\* offered to the worker.
Deliver(c) ==
  /\ ContainerAt(c, "finish")
  /\ box' = [box EXCEPT ![c] = @ \ {"task"}]
  /\ cgroups' = cgroups \ {c}
  /\ meet' = [meet EXCEPT ![c] = Arrive(@, "container")]
  /\ cpc' = [cpc EXCEPT ![c] = "waitResults"]
  /\ UNCHANGED <<workerVars, cchld, slaveVars, pipes, start, data>>

\* serve(): the worker has come for the results.  A temporary container is
\* done: it exits with 0.
Delivered(c) ==
  /\ ContainerAt(c, "waitResults")
  /\ Released(meet[c], "container")
  /\ meet' = [meet EXCEPT ![c] = Leave(@, "container")]
  /\ \/ /\ c[1] = "perm"
        /\ cpc' = [cpc EXCEPT ![c] = "cleanup"]
        /\ UNCHANGED wchld
     \/ /\ c[1] = "temp"
        /\ cpc' = [cpc EXCEPT ![c] = "exited"]
        /\ wchld' = IF wpc \in {"dead", "stopped"} THEN wchld
                    ELSE Report(wchld, "ok")
  /\ UNCHANGED <<wpc, i, reqNo, tasks, containers, nextPerm, answers, cchld,
                 box, cgroups, slaveVars, pipes, start, data>>

\* Mutant: the root is cleaned for nobody.
CleanupSkipped(c) ==
  /\ ContainerAt(c, "cleanup")
  /\ cpc' = [cpc EXCEPT ![c] = "ready"]
  /\ UNCHANGED <<workerVars, cchld, box, cgroups, slaveVars, pipes, start, meet,
                 data>>

\* cleanup_root(): what the last program left behind is removed.
Cleanup(c) ==
  /\ ContainerAt(c, "cleanup")
  /\ box' = [box EXCEPT ![c] = @ \ {"files"}]
  /\ cpc' = [cpc EXCEPT ![c] = "ready"]
  /\ UNCHANGED <<workerVars, cchld, cgroups, slaveVars, pipes, start, meet,
                 data>>

\* _die() of a container: its cgroups are removed, which fails while its
\* slave is in them, and it exits with 1.
ContainerDies(c) ==
  /\ cpc' = [cpc EXCEPT ![c] = "exiting"]
  /\ cgroups' = IF spc[c] = "run" THEN cgroups ELSE cgroups \ {c}

\* sigchld_action(): a child's failure is fatal while the error flag is set.
ContainerSigchld(c) ==
  /\ cpc[c] \notin Over
  /\ cchld[c] # "none"
  /\ cchld' = [cchld EXCEPT ![c] = "none"]
  /\ IF data[c].error /\ cchld[c] = "bad"
     THEN ContainerDies(c)
     ELSE UNCHANGED <<cpc, cgroups>>
  /\ UNCHANGED <<workerVars, box, slaveVars, pipes, start, meet, data>>

\* A system call of the container fails: die().
ContainerFails(c) ==
  /\ cpc[c] \in Faults \ Over
  /\ cchld[c] = "none"
  /\ ContainerDies(c)
  /\ UNCHANGED <<workerVars, cchld, box, slaveVars, pipes, start, meet, data>>

\* The kernel ends the process of c and, with its pid namespace, the slave;
\* then the worker is told.
ContainerGone(c) ==
  /\ cpc[c] = "exiting"
  /\ cpc' = [cpc EXCEPT ![c] = "dead"]
  /\ spc' = [spc EXCEPT ![c] = "absent"]
  /\ wchld' = IF wpc \in {"dead", "stopped"} THEN wchld
              ELSE Report(wchld, "bad")
  /\ UNCHANGED <<wpc, i, reqNo, tasks, containers, nextPerm, answers, cchld,
                 box, cgroups, prog, fds, pipes, start, meet, data>>

ContainerStep(c) ==
  \/ Arm(c) \/ PrepareRoot(c) \/ AwaitTask(c) \/ TakeTask(c) \/ Launch(c)
  \/ ContainerArrives(c) \/ ContainerStarts(c) \/ Measure(c) \/ Deliver(c)
  \/ Delivered(c) \/ Cleanup(c) \/ ContainerSigchld(c) \/ ContainerGone(c)
-----------------------------------------------------------------------------
(* The slaves.                                                             *)

SlaveArrives(c) ==
  /\ spc[c] = "born"
  /\ start' = Arrive(start, SlaveOf(c))
  /\ spc' = [spc EXCEPT ![c] = "await"]
  /\ UNCHANGED <<workerVars, containerVars, prog, fds, pipes, meet, data>>

\* slave(): the run has started; the error flag is cleared.
SlaveStarts(c) ==
  /\ spc[c] = "await"
  /\ Released(start, SlaveOf(c))
  /\ start' = Leave(start, SlaveOf(c))
  /\ data' = [data EXCEPT ![c].error = FALSE]
  /\ spc' = [spc EXCEPT ![c] = "setup"]
  /\ UNCHANGED <<workerVars, containerVars, prog, fds, pipes, meet>>

\* slave(): the streams are in place, the cgroups entered, execvpe() done.
Exec(c) ==
  /\ spc[c] = "setup"
  /\ data[c].task.pipe => c \in fds
  /\ spc' = [spc EXCEPT ![c] = "run"]
  /\ UNCHANGED <<workerVars, containerVars, prog, fds, pipes, start, meet,
                 data>>

\* Mutant: a slave that dies does not set the error flag.
SlaveFailsSilently(c) ==
  /\ \/ spc[c] \in {"born", "setup"} \cap Faults
     \/ spc[c] = "setup" /\ data[c].task.pipe /\ c \notin fds
  /\ spc' = [spc EXCEPT ![c] = "failed"]
  /\ cchld' = [cchld EXCEPT ![c] = Report(@, "bad")]
  /\ UNCHANGED <<workerVars, cpc, box, cgroups, prog, fds, pipes, start, meet,
                 data>>

\* _die() of a slave: the error flag is set again, and it exits with 1.
SlaveFails(c) ==
  /\ \/ spc[c] \in {"born", "setup"} \cap Faults
     \/ spc[c] = "setup" /\ data[c].task.pipe /\ c \notin fds
  /\ data' = [data EXCEPT ![c].error = TRUE]
  /\ spc' = [spc EXCEPT ![c] = "failed"]
  /\ cchld' = [cchld EXCEPT ![c] = Report(@, "bad")]
  /\ UNCHANGED <<workerVars, cpc, box, cgroups, prog, fds, pipes, start, meet>>

\* The program exits, or a signal or the lack of memory ends it.
ProgramEnds(c) ==
  /\ spc[c] = "run"
  /\ spc' = [spc EXCEPT ![c] = "ended"]
  /\ box' = [box EXCEPT ![c] = @ \cup {"files"}]
  /\ \E outcome \in {"ok", "bad"} :
       cchld' = [cchld EXCEPT ![c] = Report(@, outcome)]
  /\ UNCHANGED <<workerVars, cpc, cgroups, prog, fds, pipes, start, meet, data>>

SlaveStep(c) == SlaveArrives(c) \/ SlaveStarts(c) \/ Exec(c)
-----------------------------------------------------------------------------
Next ==
  \/ WorkerStep
  \/ \E r \in Requests : Accept(r)
  \/ Reject
  \/ Stop
  \/ WorkerFails
  \/ \E c \in Container :
       \/ ContainerStep(c) \/ TimeLimit(c) \/ ContainerFails(c)
       \/ SlaveStep(c) \/ SlaveFails(c) \/ ProgramEnds(c)

Spec == Init /\ [][Next]_vars

(* Every process that can go on does: the kernel schedules it.  A limited  *)
(* run reaches its limit: its clocks advance.  Nothing obliges a client to *)
(* send a request, a program to end, or a system call to fail.             *)
Fairness ==
  /\ WF_vars(WorkerStep)
  /\ \A c \in Container :
       /\ WF_vars(ContainerStep(c))
       /\ WF_vars(SlaveStep(c) \/ SlaveFails(c))
       /\ WF_vars(TimeLimit(c))

FairSpec == Spec /\ Fairness
-----------------------------------------------------------------------------
(* Properties.                                                             *)

\* No container serves two tasks of a request, whether the containers of
\* earlier requests are taken again or new ones are made.
ContainersDistinct ==
  \A j, k \in 1..Len(containers) : j # k => containers[j] # containers[k]

\* A slave whose task uses a pipe was forked while the worker still held the
\* pipe open: close_pipes() never comes before the last fork().
PipesInherited ==
  \A c \in Container : spc[c] \in Live /\ data[c].task.pipe => c \in fds

\* set_task() never overwrites the task data of a container that still works
\* on its last task, nor of one whose slave may still read it.  A container
\* may be as late as in the return from its last barrier.
TaskDataStable ==
  [][\A c \in Container : data'[c].job # data[c].job =>
       \/ cpc[c] \in Over
       \/ /\ spc[c] = "absent"
          /\ \/ cpc[c] \in {"cloned", "armed", "ready", "waitTask", "cleanup"}
             \/ cpc[c] = "waitResults" /\ Released(meet[c], "container")]_vars

\* A program runs where the binds of its task are mounted, where it has IPC
\* if its task needs that, and where no file of an earlier program is left;
\* and cleanup_root() never runs while the binds of a task are mounted, when
\* it would delete files outside of the box.
BoxIsClean ==
  \A c \in Container :
    /\ spc[c] \in {"setup", "run"} /\ cpc[c] # "exiting" =>
         /\ "task" \in box[c] /\ "files" \notin box[c]
         /\ data[c].task.ipc => "ipc" \in box[c]
    /\ cpc[c] = "cleanup" => "task" \notin box[c]

\* When the worker makes the run start barrier anew nobody is inside it: the
\* destruction of a barrier in use is undefined or waits forever.
ResetIsSafe ==
  WorkerAt("prepare") /\ ~MoreTasks =>
    start.waiting = {} /\ start.leaving = {}

\* A worker that stops because it was told to leaves no program running and
\* no cgroup directory behind.
GracefulStopLeavesNothing ==
  wpc = "stopped" =>
    cgroups = {} /\ \A c \in Container : spc[c] = "absent"

\* Without faults and limits no error ends the worker.
HealthyServiceStaysUp == wpc # "dead"

\* A worker that has accepted a request answers it or dies, unless a program
\* that has no limit runs on and on.
RequestAnsweredOrDead ==
  \/ \E c \in Container :
       <>[](spc[c] = "run" /\ cpc[c] = "watch" /\ ~data[c].task.limited)
  \/ (wpc \notin {"accept", "stopped", "dead"}) ~> (wpc \in {"accept", "dead"})

\* Once the worker is dead, no program goes on running, and none starts.
WorkerDeathStopsPrograms ==
  (wpc = "dead") ~> [](\A c \in Container : spc[c] \notin {"setup", "run"})

\* Once the worker is dead no run starts: a program goes on only where the
\* container has got its SIGKILL, whatever containers are left alone.
NoRunAfterDeath ==
  wpc = "dead" =>
    \A c \in Container : spc[c] \in {"setup", "run"} => cpc[c] = "exiting"

\* Who can go on only when somebody else has done something: the worker with
\* a request at hand, a container, a slave.
WorkerWaits ==
  /\ wchld = "none"
  /\ \/ wpc = "prepare" /\ ~MoreTasks /\ start.leaving # {}
     \/ wpc \in {"meeting", "collecting"}
          /\ ~Released(meet[containers[i]], "worker")
     \/ wpc = "starting" /\ ~Released(start, TheWorker)
     \/ wpc = "reap" /\ i <= Len(containers)
          /\ containers[i][1] = "temp"
          /\ cpc[containers[i]] \notin {"exited", "dead"}

ContainerWaits(c) ==
  \/ cpc[c] \in {"absent", "exited", "dead"}
  \/ /\ cchld[c] = "none"
     /\ \/ cpc[c] \in {"waitTask", "waitResults"}
            /\ ~Released(meet[c], "container")
        \/ cpc[c] = "waitStart" /\ ~Released(start, ContainerOf(c))
        \/ cpc[c] \in {"watch", "killing"} /\ spc[c] \notin {"failed", "ended"}
             /\ ~(cpc[c] = "watch" /\ spc[c] \in Live /\ data[c].task.limited)

SlaveWaits(c) ==
  \/ spc[c] \notin Live \ {"run"}
  \/ spc[c] = "await" /\ ~Released(start, SlaveOf(c))

\* When everybody waits, with a request at hand, it is for the program of the
\* task whose result the worker is to collect, which has no limit; or a
\* container of the request is dead and the worker was not told, because the
\* one SIGCHLD it saw was for another.
NoDeadlock ==
  WorkerWaits /\ (\A c \in Container : ContainerWaits(c) /\ SlaveWaits(c)) =>
    \/ wpc = "collecting" /\ spc[containers[i]] = "run"
         /\ ~data[containers[i]].task.limited
    \/ \E k \in 1..Len(containers) : cpc[containers[k]] = "dead"

\* The root of a program has the standard binds if and only if its task asks
\* for them ("Container waits for worker to write task data",
\* src/src/libsboxd.cpp:76).
StandardBindsAsAsked ==
  \A c \in Container :
    spc[c] = "run" => (("standard" \in box[c]) <=> data[c].task.std)

\* How far the k-th task of the request at hand has come.
StageOf(k) ==
  IF k > Len(containers) \/ prog[containers[k]] # <<reqNo, k>> THEN "asked"
  ELSE LET c == containers[k] IN
    CASE spc[c] \in {"born", "await"} -> "placed"
      [] spc[c] \in {"setup", "run"} -> "running"
      [] spc[c] \in {"failed", "ended"} -> "ended"
      [] spc[c] = "absent" -> IF data[c].result.job = <<reqNo, k>>
                              THEN data[c].result.kind ELSE "lost"

PhaseOf(pc) ==
  CASE pc = "accept" -> "idle"
    [] pc = "respond" -> "answered"
    [] pc \in {"stopped", "dead"} -> pc
    [] OTHER -> "busy"

Promise == INSTANCE RunTogether WITH
  phase <- PhaseOf(wpc),
  stage <- [k \in 1..Len(tasks) |-> StageOf(k)],
  reply <- IF wpc = "respond" THEN [k \in 1..Len(answers) |-> answers[k].kind]
           ELSE <<>>

\* The worker with its containers and slaves keeps the promise of
\* run_together(): the tasks start together, none runs twice, and an answer
\* tells of every task of the request in order, of none that failed or was
\* lost, and of no task of another request.
KeepsPromise == Promise!Spec
=============================================================================
