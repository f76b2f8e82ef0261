# A formal model of libsboxd

libsboxd runs programs in sandboxes: a client sends a request with one or more
tasks, the service runs all of them at the same time, each in a container, and
answers with their exit status and resource usage. This directory holds TLA+
modules that model the service, the TLC runs that check them on small
instances, and proofs that TLAPS checks for instances of every size.

Paths such as `src/src/worker.cpp` name the repository's files, `src/` being
its root.

## The system

| Component | Source | State | Operations |
|---|---|---|---|
| Daemon | `daemon.cpp` | `terminated_`, the workers, the listening socket, the pid file | prepare, spawn the workers, wait for a signal or a worker's end, stop or die |
| Worker | `worker.cpp` | `tasks_`, `containers_`, permanent and temporary containers, `pipes_`, `run_start_barrier_`, `terminated_` | accept, parse, prepare containers, hand over the tasks, start, collect, respond; SIGCHLD handler; SIGTERM handler |
| Container | `container.cpp` | shared `task_data_` and `barrier_`, its root, its cgroup controllers, `slave_pid_` | prepare, wait for a task, mount, fork the slave, start, watch it, deliver, clean; SIGCHLD handler |
| Slave | `container.cpp`, `slave()` | the `error` flag of the task data | wait for the start, enter the box, execute the program |
| Barriers | `shared_barrier.cpp` | a process-shared pthread barrier | init, wait, reset |
| User id pool | `shared_id_getter.cpp`, `shared_mutex.cpp` | a stack in shared memory and a process-shared mutex | get, put |
| Task data | `task_data.h`, `plain_*.h` | parameters, results, fixed-size strings and vectors | set_task, put_results |
| Cgroup controllers | `cgroup_controller.cpp` | the directories of a container, the delayed descriptor | init, create, enter, remove |
| Binds | `bind.cpp` | whether a rule is mounted | mount, umount |
| Signals | `signals.cpp` | dispositions, `timer_interrupt` | set the handlers, start and stop the timer |
| Requests | `schema_validator.cpp`, `schema/*.json`, `libsbox.cpp` | none | validate, deserialize, serialize |
| Client | `libsbox.cpp`, `run_together()` | none | connect, send, receive, parse |
| Command line | `libsboxd.cpp` | none | `stop`, `kill`, `killall` with the pid file |
| Rest | `logger`, `config`, `utils`, `error`, `context_manager`, `shared_memory*`, `shared_cond` | none that matters | formatting, files, `mmap()`; `SharedCond` is used nowhere |

How they interact: the daemon forks the workers, which accept on one socket
that they inherited. A worker clones its containers with new pid, mount, IPC
and network namespaces, but with the worker's *descriptor table* (so that
pipes made later are seen in the containers). A container forks its slave,
which executes the program. Worker and container meet twice per task at the
container's own barrier: to hand over the task, to hand over the results. The
worker, all containers of the request and all their slaves meet once at the
run start barrier. Task data and barriers are in shared memory. A parent
learns of a child's end by SIGCHLD; the children of a dead parent get SIGKILL
(PR_SET_PDEATHSIG), and the end of a container, the first process of its pid
namespace, takes its slave along. All workers share the pool of user ids.

What is hard: the interleavings of three kinds of processes at two kinds of
barriers; a barrier that is destroyed and made anew for each request; a process
that dies before a barrier others are waiting at; SIGCHLD, which is not queued;
task data written, read and overwritten without a lock; a shared descriptor
table; deaths between `clone()` and `prctl()`, or with a mutex locked; signals
that arrive between a test and the call they should interrupt; files and
directories that outlive the service; mounts, mount points and files that
outlive a task in a container that is used again; messages that arrive in
pieces, between callers and workers either of which may be gone.

What makes each component correct:

* worker: every accepted request is answered with the results of its own
  tasks, or the worker dies; distinct tasks get distinct containers; pipes stay
  open until every slave has inherited them; no request ends a worker except in
  ways one can name;
* client: what a call returns is the answer to its own request, and it does return;
* barriers: the programs of a request start together; nobody is inside a
  barrier that is made anew;
* container: a program runs in a root that has the binds of its task and no
  file of an earlier program; an error of the slave is never taken for the
  program's exit code; nothing goes on after a death;
* task data and binds: what the limits of `libsbox.h` allow fits; no mount and no
  file of a task is met by the next one, and nothing outside the box is changed;
* id pool: ids in use are unique, none is lost, the stack never overflows;
* cgroups: no directory is left by a service that stops;
* daemon: it stops when told to and its requests have ended, and a new one can then be started.

## The modules

| Module | Models | |
|---|---|---|
| `SharedBarrier` | `shared_barrier.cpp` | a barrier as a value: `Arrive` and `Leave` are the two halves of `wait()`, `NewBarrier` is construction and `reset()` |
| `Sandbox` | `worker.cpp`, `container.cpp` | one worker with its containers and slaves over several requests; it uses `SharedBarrier` |
| `RunTogether` | what `Sandbox` promises to its client | the abstract specification of one worker's requests: asked, placed, running, ended, answered in order, or the worker is dead. `Sandbox` implements it |
| `Exchange` | `run_together()` in `libsbox.cpp`; `serve()`, `process()` in `worker.cpp`; the schema | several callers and several workers on one socket: messages in pieces, refusals, deaths, callers that leave |
| `TaskBox` | `set_task()`, `cleanup_root()`, `slave()` in `container.cpp`; `bind.cpp`, `plain_*.h` | one permanent container that is given task after task: the task data, the mount table, what is in the root of the box |
| `SharedIdGetter` | `shared_id_getter.cpp`, its use in `worker.cpp` | the pool of user ids, its mutex, and workers that die |
| `DaemonLifecycle` | `daemon.cpp`, the frame of `serve()` in `worker.cpp` | one daemon and its workers: spawning, SIGTERM, stopping, deaths |
| `DaemonRestart` | `prepare()` and the ends in `daemon.cpp`, `libsboxd.cpp`, `cgroup_controller.cpp` | several daemons and the commands: pid file, socket, cgroup directories |
| `WaitForSlave` | `wait_for_slave()` and `kill_all()` in `container.cpp`, `signals.cpp` | one container that watches its runs: timer, limits, the processes of the box |
| `MC*` | | each of them with small constants for TLC |
| `*_proofs` | | theorems about each of them but `SharedBarrier` and `RunTogether`; about `Sandbox` in two modules, of which `SandboxRun_proofs` has the deeper ones and the refinement |

The modules are about different scales of the same system. What one of them
models as a step is what another one takes apart: `Sandbox` has two
steps (`TimeLimit`, `Measure`) for the watch over a run, which is all of `WaitForSlave`;
`DaemonLifecycle` has one step (`EndRequest`) for a request, which is most of
`Sandbox`; `Exchange` has three (`Begin`, `Collect`, `BoxFails`), and takes the rest of `serve()` apart;
the sets of marks that `Sandbox` keeps for a box are mount tables and files in `TaskBox`; a daemon of `DaemonRestart` is all of `DaemonLifecycle`.

### Sandbox

State. `wpc`, `cpc[c]` and `spc[c]` are where the worker, container `c` and the
slave of `c` are. `i` is the index of whichever loop the worker is in. `tasks`,
`containers`, `pipes` and `start` are `tasks_`, `containers_`, `pipes_` and
`run_start_barrier_`; `meet[c]` and `data[c]` are the container's `barrier_` and
`task_data_`. `wchld` and `cchld[c]` are the pending SIGCHLD of the worker and of
the container: one slot each, as a standard signal has. `box[c]` says what the
root and the namespaces of `c` hold: the standard binds, IPC, the binds of the
task, files that a program left. `cgroups` are the containers whose cgroup
directories exist, `fds` the slaves that inherited the ends of the pipes.
`prog[c]` remembers for which job (request and task) `c` last forked a slave.

A container is `<<"perm", k>>`, the k-th permanent container of the worker, or
`<<"temp", k>>`, the temporary one of task k. A temporary container's name is
used again in the next request, for a process made anew.

A task is what its run depends on: `need_ipc`, `use_standard_binds`, whether it
has a limit, whether a stream is a pipe. A result is the job it came from and how
the run ended; exit codes and usages are left out.

Steps. Each action is the code between two points where another process can
see or disturb the process. `wait()` on a barrier is two actions, because
processes return from a completed round in any order. Loops over tasks are one
action per round. A handler of SIGCHLD is an action that comes before anything
else the process does. `die()` is an action of its own (`WorkerFails`,
`ContainerFails`, `SlaveFails`) at the program points in `Faults`, and does all
that `_die()` does. The table of the worker:

| Code | Actions |
|---|---|
| `serve()` | `Accept`, `Reject`, `Stop`, `Respond` |
| `prepare_containers()` | `PrepareContainer` per task |
| `run_start_barrier_.reset()` | `ResetBarrier` |
| `write_tasks()`, `set_task()` | `SetTask` per task |
| `run_tasks()` | `EnterMeeting`, `HandOver` per container; `WorkerArrives`, `WorkerStarts` |
| `close_pipes()` | `ClosePipes` |
| `collect_results()` | `EnterMeeting`, `CollectResult` per container; `Reap` per temporary one; `Collected` |
| `sigchld_action()` | `WorkerSigchld` |

of the container:

| Code | Actions |
|---|---|
| `prepare()`, `prepare_root()`, `disable_ipcs()` | `Arm`, `PrepareRoot` |
| first `barrier_.wait()` | `AwaitTask`, `TakeTask` |
| binds, cgroups, `fork()` | `Launch` |
| run start | `ContainerArrives`, `ContainerStarts` |
| `wait_for_slave()` | `TimeLimit`, `Measure` |
| unmounts, second `barrier_.wait()` | `Deliver`, `Delivered` |
| `cleanup_root()` | `Cleanup` |
| `sigchld_action()`, `_die()`, the end of the process | `ContainerSigchld`, `ContainerFails`, `ContainerGone` |

and of the slave: `SlaveArrives`, `SlaveStarts`, `Exec`, `SlaveFails`,
`ProgramEnds`.

Abstractions. `Stop` stands for SIGTERM, which the worker honours only in
`accept()`. Entering the cgroups and `execvpe()` are one step. `wait_for_slave()`
has one step for a limit found by the timer and one for what it records;
the timer itself is left out. What a killed container leaves of its root is
nobody's: the mount namespace goes with it.

### RunTogether

`phase` is what the worker is doing, `stage[k]` how far task k of the request at
hand has come, `reply` the answer that is being given. There are no containers,
barriers or signals in it: a request is asked (`Ask`), its tasks are placed (`Place`),
run (`Run`, once all are placed), end (`End`), are recorded (`Record`) or lost (`Lose`); an
`Answer` tells of every task in order, and is possible only when each of them
exited or was ended at a limit; the worker may `Die` at any time.

`Sandbox` implements it: `Promise` in `Sandbox` is the instance under the mapping `PhaseOf`
of the worker's program counter and `StageOf`, which finds the stage of task k in
the program counter of the slave of the k-th container, in the job this slave
was forked for, and in the job and kind of the result in the container's task data.
`KeepsPromise` is `Promise!Spec`: the run `Sandbox_safety` checks it, and `PromiseKept` proves it.

### Exchange

`cpc[c]` is where caller `c` of `run_together()` is, `asked[c]` its request, `sent[c]` how
much of it has been sent, `got[c]` the pieces received, `result[c]` what the call has
returned. `backlog` are the connections nobody has accepted, `up` and `down` the pieces on
their way. `wpc[w]`, `conn[w]`, `request[w]` and `out[w]` are where worker `w` is, its
`socket_fd_`, what it has read and what it still has to write. `boxes[w]` says whether the worker has
containers, and whether all of them have set their parent death signal: they share its
descriptors, so its end of a connection is open as long as one of them lives (`TableOpen`).
`hurt` are the workers whose containers have been given a task they may fail of.

| Code | Actions |
|---|---|
| `run_together()`: `connect()`, `send()`, `recv()` | `Connect`, `Send`, `Receive`; `Finish`, with `ResultOf` for what it makes of the pieces; `CallFails` |
| `serve()`: `accept()`, `recv()`, `write()`, `close()` | `Accept`, `Recv`, `RecvEof`, `Write`, `WriteFails`, `Close` |
| `process()`: `parse_and_validate()` | `Refuse`, or `DecodeFails` for what the schema lets pass and the code does not find |
| `prepare_containers()`, `write_tasks()`, `collect_results()` | `Begin`, `SetTaskFails`, `Collect` |
| `sigchld_action()`: a container has died, of its own or of its slave's error | `BoxFails` |
| `Container::prepare()`; the death of worker and containers; the daemon's reaction | `Arm`, `BoxesGone`, `Killed` |
| the caller's process ends | `Leave` |

A piece is as much as one `recv()` returns, and carries whose message it is part
of, which no part of the program can see: only the properties use it. A request is described by
which members are missing, of another type than `serialize_request()` writes, or integers beyond
their C++ type, which the schema does not bound; by whether its tasks keep to the limits (`fits`); and by
whether no container can fail of it (`safe`). Most requests the schema accepts are not safe: "Currently all errors lead to
libsboxd shutdown" (`src/src/libsboxd.cpp:113`), and a missing executable, file or source, a bind
that cannot be made or undone, or a limit that comes before the program has begun (`Sandbox_limit`) is such an
error. A container may fail of an unsafe task at any time, also when the answer is being
written, or not at all. The JSON parser is left out, and so are system calls that fail for want of
resources, which may end any worker at any time. `Arm` may come at any time, which is
how a container that has not yet called `prctl()` outlives its worker. The callers are those of the library:
one that connects and sends nothing keeps a worker in `recv()`, which has no timeout.

### TaskBox

`task` is the task at hand; `argv` and `env` are the sizes of the two vectors of each
`PlainStringVector`; `mounted` are the rules whose `mounted_` is set, `k` is the index of
the loops over them; `table` is the mount table of the container, `points` what there is
in the tmpfs that is its root: mount points made by `Bind::mount()` and files made by
programs. `replaced` are the directories in `/tmp` for which a program has put something else, and
`touched` the sources outside the box that the container itself has written to.

| Code | Actions |
|---|---|
| `set_task()` | `SetTask`, `SetTaskFails` |
| `Bind::mount()` per rule | `MountBind`, `SkipBind`, `MountFails`; `Strays` |
| `fork()`, `slave()` up to `execvpe()`, the program, its end | `StartSlave`, `Execute`, `Program` and `Replace`, `Ended` |
| `Bind::umount_if_mounted()` per rule | `Umount`, `UmountFails`; `Strays` |
| the results, `cleanup_root()` | `ResultsReady`, `Cleanup`, `CleanupFails` |

A path is the sequence of its names, a bind leads from a source to such a path. `Reach` is the
mount a path leads to; `CanMake` and `MakePoint` are `create_directories()` and `open()` there, in the root of
the box or in what is bound over it; `CanUmount` is when `umount()` succeeds. Flags of mounts, lengths
of paths (`BindData`) and the other standard directories are left out.

The code takes a path as it is (`src/src/bind.cpp:26`). Three things may then lead it elsewhere:

* a `..` in the path of a rule. Paths are without it, and `Out` stands for one that has it and leads to the root
  or out of the box; one that leads back into the box is the path it leads to;
* a path through a mount above it, where there may be a symbolic link. In both cases the container may make its
  mount point, truncate a file or mount anywhere: that is `Strays`, after which (`pc = "lost"`) nothing is said;
* a program that renames or replaces a directory above a mount point. `/tmp` of the box has mode 0777 and is
  not sticky (`src/src/container.cpp:347`), so it may do that to any directory there (`Replace`), but not to
  a mount point, nor in `/work` or in a directory that `create_directories()` has made in `/tmp`. `umount()` of a rule
  that has moved so (`Moved`) fails, or hits some other mount of the box, or one that is none of
  the box's; what the last of these does outside is left out. `cleanup_root()` then goes into what is still
  mounted and removes what it finds, and ends the container, as a mount point cannot be removed (`CleanupFails`).

### SharedIdGetter

`ids` and `head` are the stack in shared memory, `lock` the holder of the mutex.
`get()` is `EnterGet`, `Pop`, `Take`; `put()` is `EnterPut`, `Store`, `Push`: every
access to the stack is a step. `held[w]` are the ids a worker has taken, `live[w]`
those under which a container of it still exists, `temps[w]` those of the
temporary containers it has still to wait for: `collect_results()` puts an id
back and only then waits for the container (`WaitFor`). A worker may die
anywhere (`Dies`), and the mutex stays locked: from then on nobody gets an id, and
the daemon, which dies with its first worker, is what ends this. Because of the order in
`collect_results()` two containers may exist with one id; `SharedIdsAreLate` says how far
this goes.

### DaemonLifecycle

`dpc` is where the daemon is, `wpc[w]` where worker `w` is; `terminated` and
`stop[w]` are their `terminated_`; `told` and `reaped` are how far the daemon's two
loops over `workers_` are; `linked` says whether the socket's path exists,
`backlog` counts connections that nobody has accepted. `armed` are the workers
that have called `prctl(PR_SET_PDEATHSIG)`, `restart` those that have SA_RESTART
set for SIGTERM. `missed` is history: whose SIGTERM came when nothing could
notice it.

| Code | Actions |
|---|---|
| `Daemon::run()`: spawn, first `wait()` | `Spawn`, `EnterWait`, `WorkerLost` |
| SIGTERM at the daemon | `Sigterm` |
| unlink, close; `kill()` per worker; `wait()` per worker; exit | `Unlink`, `Tell`, `Reap`, `Stopped` |
| `Daemon::_die()`, SIGKILL | `DaemonFails`, `DaemonKilled` |
| `Worker::serve()` up to the loop | `SetContext`, `Arm`, `CheckParent` |
| the loop | `TestFlag`, `EnterAccept`, `Accept` or `Interrupted`, `BeginRequest`, `EndRequest` |
| SIGTERM at a worker | `Hear`, part of `Tell` |
| `Worker::_die()` | `WorkerFails` |

A signal takes effect at once: the handler of the context that is set at this
moment sets its flag, and the call in which the process sleeps fails unless
SA_RESTART is set. A worker that has not yet set its context runs the handler with the
daemon's context, in its own copy of the memory. A request is one step, and all
calls in it are restarted. It need not end: its client may send nothing, its program may have no limit,
or the worker may be stuck as in `Sandbox_coalesced`.

### DaemonRestart

`pidfile` says which daemon created the file and whether its pid is in it,
`socket` whose socket is at the path, `dirs` whose containers have directories in the
cgroups. A daemon is one process here: its workers end with it. Each shell runs
one command at a time: `Give` is the `cat` of `stop` and `kill` or the `rm` of `killall`,
`Signal` the `kill` or `killall`, `Rm` the last `rm`.

| Code | Actions |
|---|---|
| `prepare()` | `Open`, `WritePid`, `SetHandlers`, `InitCgroups`, `FreeSocket`, `Bind` |
| `run()` after SIGTERM | `UnlinkSocket`, `Reap` |
| `_die()` | `Die`, part of `InitCgroups`, `Bind`, `UnlinkSocket`, `Terminate` and `Fail` |
| `main()` | `Launch`, `Give`, `Signal`, `Rm` |

`libsboxd stop` does not wait for the daemon's end, and nothing but their names
tells the files of one daemon from those of another. Daemons are started and commands are given at any
time. `hasty` remembers what somebody has not waited for: a daemon was started while a
command was being executed, or a command was given while a daemon was between its start and the writing of its pid
(`"command"`); a daemon was started while one that had got a signal was still running (`"stopping"`).

The properties say what holds as long as nobody has been hasty. After a hasty start none of
them holds, and TLC finds within a few steps: the first daemon runs a task when it is told to stop; the
stop command removes the pid file and returns; a second daemon starts beside the first, cannot remove the
cgroup directory because those of the task's container are in it (`src/src/cgroup_controller.cpp:59`), and dies. Or there is no
task, and it comes to serve beside the first one; a second SIGTERM, or an error, then makes the first
one remove the other's socket and pid file (`src/src/daemon.cpp:120`), and the second one serves where no client and no
command finds it. The repository's own `src/tests/run.py:75-79` is hasty: it runs `libsboxd stop`, starts a daemon at once, and
asserts after a second that it lives. It succeeds when the old daemon is idle and ends in time.

### WaitForSlave

`alive`, `zombie` and `parent` are the processes of the box, which adopts orphans;
`doomed` have got SIGKILL. `timer` says whether the interval timer is armed, `flag` is
`timer_interrupt`, `restart` the SA_RESTART of SIGALRM, `began` is `run_start_`. `cpu` is
`cpuacct.usage`, `clock` the wall clock, which `gettimeofday()` reads and which may be
set back (`SetBack`).

| Code | Actions |
|---|---|
| `start_timer()`, `run_start_` | `Start` |
| the loop of `wait_for_slave()` | `SlaveEnded`, `Interrupted`, `CheckTime`, `CheckWall` |
| `kill_all()` | `KillAll`, `WaitOne`, `AllWaited` |
| the rest of `wait_for_slave()` | `Measure` |
| SIGALRM | `Alarm` |
| the next `set_task()` and `fork()` | `NextRun` |
| programs, kernel, administrator | `Fork`, `End`, `WaitedFor`, `Run`, `Pass`, `SetBack`, `Killed` |

Usages of memory, and exit codes and signal numbers beyond their kind, are left
out. The timer's interval is a constant: `start_timer()` passes its microseconds to
`setitimer()`, which refuses a second or more, and an interval of 0 disarms the
timer (`TimerRuns`).

## What is checked

`CHECK_DEADLOCK FALSE` is in every configuration, because services stop or
die, and because the numbers of requests, signals, commands and runs are bounded.

| Run | Result | What it shows |
|---|---|---|
| `Sandbox_safety` | pass | The safety properties of `Sandbox`, and that it implements `RunTogether`, for two requests out of: two tasks joined by a pipe of which one needs a temporary container; two limited tasks in permanent ones; no task at all. Every call may fail at every listed point. |
| `Sandbox_liveness` | pass | `RequestAnsweredOrDead` and `WorkerDeathStopsPrograms` with permanent containers, under fairness and with all failures |
| `Sandbox_limit` | violation | a limit that comes before the slave has cleared the error flag ends the worker |
| `Sandbox_coalesced` | violation | two SIGCHLD merge, and the worker waits forever |
| `Sandbox_binds` | violation | the standard binds are mounted for a task that refused them |
| `Exchange` | pass | every call gets the answer to its own request, and returns if its run ends and a worker is left; no worker is ended by requests that decode, fit and are safe |
| `TaskBox` | pass | what a task leaves in its container: no mount, nothing that stops a later task, no source written to but in four cases; the task data hold what they should |
| `SharedIdGetter` | pass | `UniqueIds`, `IdsConserved`, `SharedIdsAreLate` |
| `DaemonLifecycle` | pass | a stop that is reported is complete and ends no request; if requests end, it ends, unless a SIGTERM came at one of two moments; a dead worker ends the service |
| `DaemonLifecycle_deaf` | violation | SIGTERM between the test of the flag and `accept()` is never heard, though requests end |
| `DaemonRestart` | pass | while nobody is hasty: one daemon at a time, which is reachable, starts over what others left, and removes no file of another |
| `WaitForSlave` | pass | limits are enforced, boxes emptied, results explained, and no signal makes a call fail |

The properties of `Sandbox`:

* `KeepsPromise`: the worker with its containers and slaves implements `RunTogether`. No slave is
  past the start barrier before every container of the request has forked its slave
  for this request; no task runs twice; the k-th answer is the result of task k of this request, from a
  run that got as far as the program;
* `PipesInherited`: pipes are never closed before the last `fork()`;
* `TaskDataStable`: `set_task()` never touches the data of a container that is still
  at its last task;
* `BoxIsClean`: a program has its binds and IPC and finds no file of an earlier one;
  the root is never cleaned with binds mounted;
* `ResetIsSafe`: nobody is inside the start barrier when it is made anew;
* `NoDeadlock`: worker, containers and slaves wait for one another at two kinds of barriers, at `waitpid()` and in
  the destructor of a barrier. When all of them wait at once, with a request at hand, it is for a program without a limit, or a
  container of the request has died and the worker was not told;
* `NoRunAfterDeath`: once the worker is dead, a slave past the start barrier belongs to a container
  that has got SIGKILL. It is the invariant behind `WorkerDeathStopsPrograms`;
* `GracefulStopLeavesNothing`: after SIGTERM no program and no cgroup is left;
* `RequestAnsweredOrDead`: no barrier is waited at for ever;
* `WorkerDeathStopsPrograms`: after a worker's death no program goes on or starts.

`RequestAnsweredOrDead` is checked for requests that permanent containers serve,
a program without any limit among them. It does not hold with two temporary
containers (`Sandbox_coalesced`): one's end with 0 is no failure, and hides the
other's. `HealthyServiceStaysUp`, that without failures nobody dies, is stated only for
`Sandbox_limit`, the smallest case in which it fails.

Of `SharedIdGetter`: `UniqueIds` (no id is held twice, or held and free), `IdsConserved`
(outside of critical sections every id is free or held; `get()` finds the stack empty only if all are held, and `put()`
never finds it full). That an id in use is never given to another container would be
more, and does not hold; `SharedIdsAreLate` is what does: if two containers exist with one id, one
of them belongs to a worker that has its results and is about to wait for its end, or that died
before it could.

Of `Exchange`: `AnswerIsOwn` (a call returns tasks for its own request, which is valid, or the refusal of
its own request, which is not; it breaks off only after a worker has died), `DeathIsExplained`
(a worker dies only after a caller has left before its answer, or with a request that the schema accepts
and that cannot be decoded, does not fit, or is of a kind a container may fail of; so that neither what the schema refuses
nor the order of the messages ever ends one), `CallReturns` (a call returns if its own request is not run for
ever, `RunEnds`, and some worker is left that does not run one request for ever, `WorkerLeft`; also when workers
die, unless a container outlives its worker and holds the connection open). With two callers and two workers `WorkerLeft`
follows from `RunEnds` of the caller concerned: a third caller would be needed to occupy the second worker.

Of `TaskBox`: `NoMountOutlivesTask` (the mount table is that of `prepare_root()` whenever the container waits for a
task, whatever programs did, and whenever the box is emptied, unless the program has replaced a directory above a
bind), `SourcesKept` (neither mount points nor `cleanup_root()` change anything outside the box, with four exceptions: a path
that leads out of the box; a bind below a standard mount; one at or below another bind; a bind that is not
undone, because the program replaced a directory above one), `DeathIsOfItsOwn` (a task with binds in `/work` and `/tmp` ends its container, or
leads it astray, only by what it asks for itself or by what its own program does to a directory above a bind, never by what earlier tasks and
their programs left), `TaskDataFits` (an
environment within the limits of `include/libsbox.h` has room for the PATH that is added).

Of `DaemonLifecycle`: `StoppedMeansAllStopped`, `RequestsSurviveStop`,
`DeadWorkerEndsService`, `StopEndsUnlessMissed`. A stop may hang for a request that does not end: it is
meant to wait for it. `StopEndsUnlessMissed` says that, if no worker serves one request for ever (`RequestsEnd`), it ends, unless some worker's
SIGTERM came before it had set its context or between the test of the flag and
`accept()`, and it sleeps in `accept()` now. This is how far the divergence of `DaemonLifecycle_deaf` goes, whose
property `WorkersHearSigterm` has the same condition.

Of `DaemonRestart`, all as long as nobody has been hasty: `OneDaemon`, `ServiceIsReachable` (the path leads to the socket of the
daemon that serves, and the pid file names it), `StartSucceeds` (who has created the pid file
comes to serve, whatever sockets others have left), `OnlyOwnFiles` (no daemon removes files of another, neither by its
own steps nor when a second SIGTERM makes it die).
`StartSucceeds` excludes one thing more: directories of containers that a death or
SIGKILL left in the cgroups. `CgroupController::init()` cannot remove the directory above
them, and no daemon starts any more until somebody else removes them.

Of `WaitForSlave`: `BoxIsEmptied`, `EndIsExplained` (a result without a status has an
exceeded limit, unless the wall clock was ever set back), `NeverDies`,
`LimitIsEnforced`, `SlaveEndEndsRun`.

The four divergences between the code and its documentation are listed under
`findings` in `PROJECT.json` with the lines they are about.

### Bounds

* `Sandbox`, `MaxTasks = 2`: every hazard here needs at most two containers (one that fails
  and one that ends well; one that is late and one that is early); the start
  barrier then has five parties.
* `MaxRequests = 2`: a second request takes the permanent
  containers again, and makes the barrier anew; nothing but the containers,
  the barrier and the task data survives a request.
* `SharedIdGetter`: two workers and three ids, enough for a stack that is
  empty, full and in between, and for ids that change hands.
* `Exchange`: two callers, one of which may leave, and two workers: one connection waits or is served by another worker while
  the first is answered, and one worker lives when the other dies. Messages of two pieces, sockets that take one: every
  message is cut, and senders wait. Six requests: as the library writes them, without a member the schema asks for,
  without `env`, for which it does not, with an integer beyond its type, too large, and one a container may fail of.
* `TaskBox`: tasks with up to two binds at nine paths (the same one, one below the other, in `/work`, in two directories in `/tmp`, outside
  of both, in a standard mount, and one that leads out of the box) from sources of every kind; programs that make files and replace directories; environments and arguments of each size around limits of 2 and
  3, with a reserve of 2 and a PATH of 2. Tasks follow one another without a bound.
* `DaemonLifecycle`: two workers (one lost while the other is told, or waited for), two
  clients (one that is served, one in the backlog), two SIGTERMs (the second one
  comes while the daemon waits for its workers).
* `DaemonRestart`: three daemons (one that left something, one that starts, one that
  is started beside it), two shells, two commands (the second one while the first is executed, or to a daemon that is
  stopping); system calls fail while a daemon serves
  or stops.
* `WaitForSlave`: two processes beside the slave (a child and a grandchild that is adopted), clocks of two
  ticks (a limit of one that is reached and then exceeded), two runs (what one
  leaves to the next), one setting back. The interval is 20 ms, that of the repository's
  `conf.json`; what needs no alarm, and that no alarm does harm, is proved for all intervals.
* `Faults` names program points, so that a call fails at most once per process and
  then the process dies, as `die()` makes it.

### Fairness

A specification `FairSpec` lets processes that can go on do so (`WF` of the worker, of each
container, of each slave; of the daemon): the kernel schedules runnable
processes. Beyond this:

* `Sandbox`: a limited run reaches its limit (`WF` of `TimeLimit`): clocks advance and the
  timer is periodic;
* `Exchange`: callers, workers and `prctl()` go on, SIGKILL arrives (`WF` of `ClientStep`, `WorkerStep`, `Arm`, `Killed`,
  `BoxesGone`); nothing obliges a caller to call or to leave;
* `WaitForSlave`: the timer expires again and again while it is armed, and a process
  that got SIGKILL ends.

No fairness is assumed of clients before they call, of programs, failures, signals, commands, or the
advance of a clock. Nor does anything oblige a request to end, in `DaemonLifecycle` (`EndRequest`) or in `Exchange` (`Collect`): its
client may be silent, its program may have no limit, the worker may wait for ever (`Sandbox_coalesced`). Where a property needs it, it
is a premise of the property: `RequestsEnd` of `StopEndsUnlessMissed` and `WorkersHearSigterm`, `RunEnds` and
`WorkerLeft` of `CallReturns`.

## What is proved

`SharedIdGetter_proofs`, for any set of workers and any number of ids:
`TypeCorrect`, `IdsAreUnique`, `NoIdIsLost` (`IdsConserved`) and `IdsSharedOnlyLate` (`SharedIdsAreLate`). The properties are not
inductive. The invariant adds who is where when the mutex is locked, that the
ids at the free positions, the ids that are held, and the one in the hands of
the process inside the critical section are all different, and that together
they are all the ids; a count of free and held ids then bounds the head.
The assumptions are that there is at least one id, and that `Nobody` is no worker.

`DaemonLifecycle_proofs`, for any workers, clients, signals and failures:
`TypeCorrect`, `StopIsComplete` (`StoppedMeansAllStopped`) and `RequestsFinish`
(`RequestsSurviveStop`). For the first of these `ReapInv` says that nobody is reaped before
the daemon has told its workers, only those that stopped afterwards, and all of them at the
end; for the second, `RestartInv`, that SA_RESTART is set whenever a request is
served. The assumption is that there is a worker.

`WaitForSlave_proofs`, for any set of processes, limits, intervals and numbers of runs:
`TypeCorrect`, `BoxEmptied`, `EndExplained` and `ContainerNeverDies`. `kill_all()` returns when
`wait()` finds no *child*, and the box must then have no *descendant* either. This follows
from `ForestInv`: in no nonempty set of processes of the box has everyone a parent in this
set. Taken for the whole box it gives a process whose parent is the
container, as parents are alive or the container (`ParentInv`). `ForestInv` is
inductive, since a child is new when it is forked, and adoption leads out of the
set; no induction over data is needed. `EndExplained` needs why the loop was left
(`CauseInv`) and that times used only grow; `ContainerNeverDies`, that an interrupted
call has found the flag set (`AlarmInv`).

`DaemonRestart_proofs`, for any daemons, shells and commands and any failures:
`TypeCorrect`, `OneAtATime` (`OneDaemon`), `Reachable` (`ServiceIsReachable`) and `FilesAreOwn`
(`OnlyOwnFiles`). The invariant is `TypeOK`, what was read from the pid file (`SeenInv`), and `Calm` as long as nobody
is hasty; and nobody stops having been hasty. `Calm` has five parts. A daemon that finds no pid file must be the only one. `FileInv` says that the
file is that of the daemon that runs until this one is doomed, that is, has got
a signal or will get one from a `killall` that has removed the file; `StartInv`,
that a daemon about to create the file meets no command and no doomed daemon: a step that breaks
it makes `hasty`; `OwnerInv`, that even a doomed daemon sees
no file but its own or none; then `SocketInv` and `OneDaemon` itself. For `FilesAreOwn`, `CommandFiles` says what a
command's signal does to the files, a second SIGTERM among them.

`Exchange_proofs`, for any numbers of callers, workers, pieces and places in a socket, and any requests:
`TypeCorrect`, `DeathIsAlwaysExplained` and `AnswerIsAlwaysOwn`. Nothing in a message names its
request, so the argument follows the messages. `PlacesInv`: a connection is in the backlog, or has one worker, or is
over. `UpInv`: what a worker has read and what is coming are the beginning of its caller's request, in
order; a request is processed when all of it has come, or its caller has left. `ServedInv`: no caller returns while a worker has its connection.
`HurtInv`: if any worker's containers may fail, a caller has made a valid request that is not safe.
`DownInv`: what is received, on its way and still to be written, put together, is the answer
that is due, and no connection is over before all of it is sent. The assumptions are that messages have a
piece, sockets room for one, and that there is a worker.

`TaskBox_proofs`, for any tasks, sources, limits and standard mounts: `TypeCorrect`, `TaskDataAlwaysFits`, `BindsAreUndone`
(`NoMountOutlivesTask`), `SourcesAreKept` and `DeathIsAlwaysOfItsOwn`. For `BindsAreUndone` the invariant
`BindsInv` knows two situations. In the first (`Whole`) there is a bijection between the rules marked as mounted and the mounts above the standard
ones (`Places`): each mount is at the path of its rule, or both have moved, because the program replaced a directory above them. An unmount
that finds the mount of another rule at its path changes the bijection, not its existence, and so does one of a moved rule that hits another moved
mount; so that an empty set of marks at the end means that only the standard mounts are left. In the second
(`Stuck`) an unmount of a moved rule has hit something else. From then on there are more moved mounts than moved rules
still marked, every further unmount keeps it so, one of them is left in `/tmp` at the end, and `cleanup_root()` fails: the container does not wait again.
`MadeInv` says that each mount above the standard ones is one a rule of this task asked for, `WayInv` that only
directories above such mounts in `/tmp` are replaced, and none when the container waits,
`PointsInv` that after a cleanup nothing is in `/work` and `/tmp` but what the rules of this task have made,
`DataInv` how large the vectors are. The assumptions are those on the constants: `/work` and `/tmp` exist, and no standard mount is in them.

`Sandbox_proofs`, for all requests, any number of tasks and any failures:
`TypeCorrect` and `OneContainerPerTask` (`ContainersDistinct`: no two tasks of a request share a container). `TypeOK` needs to know how far the worker's
loops are (`LoopInv`: the containers prepared so far are as many as the index says,
and as many as the tasks afterwards); `ContainersDistinct` needs that the
permanent containers in use are exactly those numbered up to `nextPerm`, and that
a temporary one carries the number of its task (`TakenInv`). The assumptions are
those on the constants: the bounds are natural numbers, and requests are
sequences of tasks within them.

`SandboxRun_proofs`, for the same requests and failures, proves what `Sandbox` is about: `BoxAlwaysClean` (`BoxIsClean`), `ResetAlwaysSafe`
(`ResetIsSafe`), `GracefulStopAlwaysLeavesNothing` (`GracefulStopLeavesNothing`), `TaskDataAlwaysStable` (`TaskDataStable`),
`PipesAlwaysInherited` (`PipesInherited`), `NoRunStartsAfterDeath` (`NoRunAfterDeath`), `NeverDeadlocked` (`NoDeadlock`) and
`PromiseKept` (`KeepsPromise`, the refinement). The invariant is in four layers, each of them inductive over the ones before:

* `MeetingInv`, of meetings. Worker and container never see each other except at the barrier of the
  container, so `MeetInv` says where they can be when its two sets are what they are: the worker before, in, between or in the
  second of the two meetings (`Position`), the container at rest, waiting, or at work. A barrier of two that is
  used twice per task, where either side may be a round ahead in leaving it, has just the combinations that `Match`
  lists. From this follow `DoneInv`, that a container which has come to its second meeting has nothing of the task left (no slave, no
  cgroup, nobody in the start barrier), with `StartInv` and `LocalInv` for why that is so at the `Deliver` step; and
  `GivenInv` and `ReadyInv`, that a container about to fork has the data of the task that it was given for.
* `RunInv`, of runs. `CurrentInv` says that whoever is in the start barrier, or has a slave, forked this slave
  for the request at hand; `FreshInv`, that a container which has been given a task has not forked for it yet. The
  barrier counts 2n + 1 arrivals and does not know whose they are: `AllArrived` shows by counting that a round
  which completes has the worker, every container and every slave in it, so that every slave is forked
  (`PlacedInv`), and that the pipes may be closed (`PipeInv`).
* `OutcomeInv`, of outcomes. `ResultInv` says when the task data of a container hold the result of its task, and
  that a slave that is lost leaves none; `AnswersInv`, that the answers collected are these results, in the order of the tasks.
* `AwaitInv`, of waiting. `WaitInv` says which signals and results a container can have at each place; `RoundInv`, that
  the start barrier is never complete and closed, and that nobody has yet to come to it when its round is over; `PastInv`, that
  nobody is past it before the worker has come; `UseInv`, that a container the worker counts on has been created, and
  has not ended unless the worker needs it no more; `DeadInv`, that after the worker's death no round can be completed as long
  as a container is alive, and only containers that have got SIGKILL have a slave past the barrier.

`NeverDeadlocked` follows from these by going along the order in which things are waited for, and no case leads back. A worker that waits at a
container's barrier waits for one that, by `Match`, is not waiting there itself; that one waits in the start barrier, for its slave, or not at
all. One in the start barrier waits for somebody who has not come (`StartNotWaitedFor` shows by counting that with all parties
there the round is complete), and this one is not at a barrier of its own unless the worker is at the other side of it. One
that waits for its slave waits for a slave in the start barrier, or for a running program.

Three theorems say what the exceptions in these properties come from:

* `PermanentsNeverStuck`: if permanent containers can serve all requests (`OnlyPermanents`), a dead container always
  ends the worker, whatever fails, and `NoDeadlock` holds without its exception. A permanent container never ends with 0 in a running service, so that
  no SIGCHLD can be merged with one that means nothing. With temporary ones this is false (`Sandbox_coalesced`).
* `HealthyServiceAlwaysUp`: if no call fails and no task has a limit (`Healthy`), no error ends the worker (`HealthyServiceStaysUp`). With
  a limit this is false (`Sandbox_limit`), so that a limit that comes too early is the only way in which a service dies by itself.
* `HealthyNeverStuck`: in such a service `NoDeadlock` holds without its exception for any containers.

`RequestAnsweredOrDead` asks more than `NoDeadlock`, that requests come to an end under fairness, and stays with TLC.

For the refinement `PromiseContainer` and `PromiseWorker` map each step to one of `RunTogether` or to none: `Launch` to
`Place`, `SlaveStarts` to `Run`, `TimeLimit`, `SlaveFails` and `ProgramEnds` to `End`, `Measure` to `Record`,
`ContainerGone` to `Lose` if there is a slave, `Accept`, `Reject`, `Collected`, `Respond` and `Stop` to `Ask`, `Refuse`, `Answer`,
`Return` and `Stop`, and the death of the worker to `Die`. It needs one assumption more: that a worker which has stopped makes no
call that could fail (`FaultsAssumption`).

Every safety property that a passing run checks is proved for all values of the constants. Only model-checked are the liveness properties, which are
beyond the proof system: `RequestAnsweredOrDead`, `WorkerDeathStopsPrograms`, `DeadWorkerEndsService`,
`StopEndsUnlessMissed`, `StartSucceeds`, `CallReturns`, `LimitIsEnforced` and `SlaveEndEndsRun`.

## What is left

In the order of what it would add:

1. The two modules `Exchange` and `DaemonLifecycle` composed: a stop that comes while calls wait in the backlog.
2. The standard binds and the flags of mounts in `TaskBox`; what follows when the task data is filled beyond
   the limits of `include/libsbox.h`.
3. An abstract specification of the service as a whole, which `Exchange` implements, above that of one worker.
4. What an unmount does that leads out of the box (`Strays`, and `Umount` of a moved rule): the container has a
   mount namespace of its own, but the model says nothing of what the path finds in it.

Not modelled, and why: parsing and formatting of JSON (pure functions of their input, in vendored code for the
most part), the logger, the configuration, the `mmap()` wrappers, `SharedCond` (which nobody uses), the rlimits and
credentials of a box (single system calls whose failure is one of `Faults`), and the tests.
