---------------------------- MODULE WaitForSlave ----------------------------
(***************************************************************************)
(* How a container watches a run: wait_for_slave() and kill_all() of       *)
(* src/src/container.cpp with the timer of src/src/signals.cpp, over       *)
(* several runs of one permanent container.                                *)
(*                                                                         *)
(* The container is the first process of its pid namespace: it adopts the  *)
(* processes whose parent ends, and kill(-1) reaches all others.  The slave*)
(* has cleared its error flag: what may happen before that is in Sandbox.  *)
(* Time is counted in ticks of the clock, those of the processors the box  *)
(* has used and those of the wall clock, which may be set back.            *)
(***************************************************************************)
EXTENDS Integers, FiniteSets

CONSTANTS
  Others,    \* the processes a program may fork
  Limits,    \* the limits of the tasks: [time : Limit, wall : Limit]
  Interval,  \* timer_interval_ms of the configuration
  MaxTime,   \* bound on either clock
  MaxRuns,   \* bound on the runs
  MaxSteps   \* bound on how often the wall clock is set back

NoLimit == -1
Limit == Nat \cup {NoLimit}

ASSUME LimitsAssumption == Limits \subseteq [time : Limit, wall : Limit]
\* Intervals of more than 35 minutes, for which interval * 1000 might not fit
\* into 32 bits, are left out.
ASSUME IntervalAssumption == Interval \in 0..2147483
ASSUME BoundsAssumption ==
  MaxTime \in Nat /\ MaxRuns \in Nat \ {0} /\ MaxSteps \in Nat

\* The slave and the container, among the processes.
Slave == "slave"
Self == "container"
Process == Others \cup {Slave}
ASSUME OthersAssumption == Slave \notin Others /\ Self \notin Others

VARIABLES
  pc,       \* the container's program counter
  timer,    \* the interval timer is armed
  flag,     \* timer_interrupt
  restart,  \* SA_RESTART is set for SIGALRM
  began,    \* run_start_: the wall clock at the start of the run
  status,   \* what waitpid() has returned of the slave
  result,   \* what the run leaves in the task data
  limits,   \* the limits in the task data
  run,      \* the number of the run
  alive,    \* the processes of the box that have not ended
  zombie,   \* those that have ended and were not waited for
  doomed,   \* those alive that have got SIGKILL
  parent,   \* the parent of each process of the box
  ended,    \* history: how the slave has ended
  cpu,      \* cpuacct.usage: the time that the box has used in this run
  clock,    \* the wall clock
  steps     \* how often it was set back

boxVars == <<alive, zombie, doomed, parent, ended>>
clockVars == <<cpu, clock, steps>>
watchVars == <<timer, flag, restart, began, status, result, limits, run>>
vars == <<pc, watchVars, boxVars, clockVars>>

\* How a process ends: by itself, by a signal of its own, or by kill_all().
Status == {"none", "exited", "signaled", "killed"}

NoResult == [status |-> "none", time |-> -1, wall |-> -1,
             timeExceeded |-> FALSE, wallExceeded |-> FALSE]

Watching == {"start", "waitpid", "interrupted", "time", "wall"}
Pc == Watching \cup {"kill", "wait", "measure", "done", "dead"}

TypeOK ==
  /\ pc \in Pc
  /\ timer \in BOOLEAN /\ flag \in BOOLEAN /\ restart \in BOOLEAN
  /\ began \in 0..MaxTime
  /\ status \in Status
  /\ result \in [status : Status, time : -1..MaxTime, wall : Int,
                 timeExceeded : BOOLEAN, wallExceeded : BOOLEAN]
  /\ limits \in Limits
  /\ run \in 1..MaxRuns
  /\ alive \subseteq Process
  /\ zombie \subseteq Process \ alive
  /\ doomed \subseteq alive
  /\ parent \in [Process -> Process \cup {Self}]
  /\ ended \in Status
  /\ cpu \in 0..MaxTime /\ clock \in 0..MaxTime /\ steps \in 0..MaxSteps

\* A new run: its slave is forked, its cgroups are new.
NewBox ==
  /\ alive' = {Slave} /\ zombie' = {} /\ doomed' = {}
  /\ parent' = [p \in Process |-> Self]
  /\ ended' = "none" /\ cpu' = 0

Init ==
  /\ pc = "start"
  /\ timer = FALSE /\ flag = FALSE /\ restart = FALSE
  /\ began = 0 /\ status = "none" /\ result = NoResult
  /\ limits \in Limits
  /\ run = 1
  /\ alive = {Slave} /\ zombie = {} /\ doomed = {}
  /\ parent = [p \in Process |-> Self]
  /\ ended = "none" /\ cpu = 0
  /\ clock = 0 /\ steps = 0
-----------------------------------------------------------------------------
(* The processes of the box, and the clocks.                               *)

Children(p) == {q \in alive \cup zombie : parent[q] = p}

\* Process p forks q, which no signal has reached yet.
Fork(p, q) ==
  /\ p \in alive \ doomed
  /\ q \in Process \ (alive \cup zombie \cup {Slave})
  /\ alive' = alive \cup {q}
  /\ parent' = [parent EXCEPT ![q] = p]
  /\ UNCHANGED <<pc, watchVars, zombie, doomed, ended, clockVars>>

\* Mutant: SA_RESTART is not set for SIGCHLD.
EndInterrupting(p, how) ==
  /\ p \in alive
  /\ p \in doomed <=> how = "killed"
  /\ alive' = alive \ {p} /\ doomed' = doomed \ {p}
  /\ zombie' = zombie \cup {p}
  /\ parent' = [q \in Process |->
                  IF q \in Children(p) THEN Self ELSE parent[q]]
  /\ ended' = IF p = Slave THEN how ELSE ended
  /\ pc' = IF pc = "waitpid" /\ p # Slave /\ parent[p] = Self
           THEN "interrupted" ELSE pc
  /\ UNCHANGED <<watchVars, clockVars>>

\* Process p ends, and the container adopts its children.  The SIGCHLD that
\* the container may get restarts the call in which it sleeps, and its
\* handler returns at once.
End(p, how) ==
  /\ p \in alive
  /\ p \in doomed <=> how = "killed"
  /\ alive' = alive \ {p} /\ doomed' = doomed \ {p}
  /\ zombie' = zombie \cup {p}
  /\ parent' = [q \in Process |->
                  IF q \in Children(p) THEN Self ELSE parent[q]]
  /\ ended' = IF p = Slave THEN how ELSE ended
  /\ UNCHANGED <<pc, watchVars, clockVars>>

\* Process p waits for its child q.
WaitedFor(p, q) ==
  /\ p \in alive \ doomed
  /\ q \in zombie \cap Children(p)
  /\ zombie' = zombie \ {q}
  /\ UNCHANGED <<pc, watchVars, alive, doomed, parent, ended, clockVars>>

\* The processes of the box run.
Run ==
  /\ alive # {}
  /\ cpu < MaxTime
  /\ cpu' = cpu + 1
  /\ UNCHANGED <<pc, watchVars, boxVars, clock, steps>>

Pass ==
  /\ clock < MaxTime
  /\ clock' = clock + 1
  /\ UNCHANGED <<pc, watchVars, boxVars, cpu, steps>>

\* The wall clock is set back.
SetBack ==
  /\ steps < MaxSteps /\ steps' = steps + 1
  /\ clock > 0
  /\ clock' \in 0..clock - 1
  /\ UNCHANGED <<pc, watchVars, boxVars, cpu>>

World ==
  \/ Run \/ Pass \/ SetBack
  \/ \E p, q \in Process : Fork(p, q) \/ WaitedFor(p, q)
  \/ \E p \in Process : \E how \in {"exited", "signaled"} : End(p, how)

\* A process that has got SIGKILL ends.
Killed(p) == End(p, "killed")
-----------------------------------------------------------------------------
(* The container.                                                          *)

\* start_timer(): whether setitimer() arms the timer.  It rejects a number
\* of microseconds that is not less than a second, and 0 disarms it.
Second == 1000000
TimerRuns(interval) == 0 < interval * 1000 /\ interval * 1000 < Second

\* Where SIGALRM takes the container if it interrupts a call: waitpid() and
\* the wait() of kill_all(), which takes this for an error, may fail.
AfterInterrupt ==
  IF pc = "waitpid" /\ Slave \in alive THEN "interrupted"
  ELSE IF pc = "wait" /\ Children(Self) \cap zombie = {} THEN "dead" ELSE pc

\* Mutant: the timer fires only once.
AlarmOnce ==
  /\ timer
  /\ timer' = FALSE
  /\ flag' = TRUE
  /\ pc' = IF restart THEN pc ELSE AfterInterrupt
  /\ UNCHANGED <<restart, began, status, result, limits, run, boxVars,
                 clockVars>>

\* The timer expires: its handler runs.
Alarm ==
  /\ timer
  /\ flag' = TRUE
  /\ pc' = IF restart THEN pc ELSE AfterInterrupt
  /\ UNCHANGED <<timer, restart, began, status, result, limits, run, boxVars,
                 clockVars>>

\* wait_for_slave(): the timer is started, the wall clock read.
Start ==
  /\ pc = "start"
  /\ timer' = TimerRuns(Interval)
  /\ began' = clock
  /\ pc' = "waitpid"
  /\ UNCHANGED <<flag, restart, status, result, limits, run, boxVars, clockVars>>

\* waitpid() returns the slave.
SlaveEnded ==
  /\ pc = "waitpid"
  /\ Slave \in zombie
  /\ zombie' = zombie \ {Slave}
  /\ status' = ended
  /\ pc' = "kill"
  /\ UNCHANGED <<timer, flag, restart, began, result, limits, run, alive,
                 doomed, parent, ended, clockVars>>

\* waitpid() has failed: only a timer interrupt is no error.
Interrupted ==
  /\ pc = "interrupted"
  /\ pc' = IF flag THEN "time" ELSE "dead"
  /\ flag' = FALSE
  /\ UNCHANGED <<timer, restart, began, status, result, limits, run, boxVars,
                 clockVars>>

Exceeds(usage, limit) == limit # NoLimit /\ usage > limit

\* Mutant: the run is ended when the limit is reached, not exceeded.
CheckTimeReached ==
  /\ pc = "time"
  /\ pc' = IF limits.time # NoLimit /\ cpu >= limits.time
           THEN "kill" ELSE "wall"
  /\ UNCHANGED <<watchVars, boxVars, clockVars>>

\* The time that the box has used is read.
CheckTime ==
  /\ pc = "time"
  /\ pc' = IF Exceeds(cpu, limits.time) THEN "kill" ELSE "wall"
  /\ UNCHANGED <<watchVars, boxVars, clockVars>>

\* The wall clock is read.
CheckWall ==
  /\ pc = "wall"
  /\ pc' = IF Exceeds(clock - began, limits.wall) THEN "kill" ELSE "waitpid"
  /\ UNCHANGED <<watchVars, boxVars, clockVars>>

\* Mutant: the slave is sent SIGKILL though it may have been waited for.
KillReaped ==
  /\ pc = "kill"
  /\ timer' = FALSE
  /\ doomed' = alive \cup {Slave}
  /\ restart' = TRUE
  /\ pc' = "wait"
  /\ UNCHANGED <<flag, began, status, result, limits, run, alive, zombie,
                 parent, ended, clockVars>>

\* Mutant: only the slave is killed.
KillSlave ==
  /\ pc = "kill"
  /\ timer' = FALSE
  /\ doomed' = alive \cap {Slave}
  /\ restart' = TRUE
  /\ pc' = "wait"
  /\ UNCHANGED <<flag, began, status, result, limits, run, alive, zombie,
                 parent, ended, clockVars>>

\* kill_all(): the timer is stopped, every process of the box gets SIGKILL.
KillAll ==
  /\ pc = "kill"
  /\ timer' = FALSE
  /\ doomed' = alive
  /\ restart' = TRUE
  /\ pc' = "wait"
  /\ UNCHANGED <<flag, began, status, result, limits, run, alive, zombie,
                 parent, ended, clockVars>>

\* kill_all(): wait() returns one of the container's children.
WaitOne(p) ==
  /\ pc = "wait"
  /\ p \in zombie \cap Children(Self)
  /\ zombie' = zombie \ {p}
  /\ UNCHANGED <<pc, watchVars, alive, doomed, parent, ended, clockVars>>

\* Mutant: kill_all() waits for the slave only.
SlaveWaited ==
  /\ pc = "wait"
  /\ Slave \notin alive \cup zombie
  /\ restart' = FALSE
  /\ pc' = "measure"
  /\ UNCHANGED <<timer, flag, began, status, result, limits, run, boxVars,
                 clockVars>>

\* kill_all(): wait() fails, for there are no more children.
AllWaited ==
  /\ pc = "wait"
  /\ Children(Self) = {}
  /\ restart' = FALSE
  /\ pc' = "measure"
  /\ UNCHANGED <<timer, flag, began, status, result, limits, run, boxVars,
                 clockVars>>

\* wait_for_slave(): the status and the usages are recorded.
Measure ==
  /\ pc = "measure"
  /\ timer' = FALSE
  /\ result' = [status |-> status,
                time |-> cpu,
                wall |-> clock - began,
                timeExceeded |-> Exceeds(cpu, limits.time),
                wallExceeded |-> Exceeds(clock - began, limits.wall)]
  /\ pc' = "done"
  /\ UNCHANGED <<flag, restart, began, status, limits, run, boxVars, clockVars>>

\* set_task() and serve() for the next task.
NextRun ==
  /\ pc = "done"
  /\ run < MaxRuns /\ run' = run + 1
  /\ limits' \in Limits
  /\ status' = "none" /\ result' = NoResult
  /\ NewBox
  /\ pc' = "start"
  /\ UNCHANGED <<timer, flag, restart, began, clock, steps>>

ContainerStep ==
  \/ Start \/ SlaveEnded \/ Interrupted \/ CheckTime \/ CheckWall
  \/ KillAll \/ AllWaited \/ Measure
  \/ \E p \in Process : WaitOne(p)

Next ==
  \/ World
  \/ Alarm
  \/ ContainerStep
  \/ NextRun
  \/ \E p \in Process : Killed(p)

Spec == Init /\ [][Next]_vars

(* The container is scheduled, its timer expires again and again while it  *)
(* is armed, and a process that got SIGKILL ends.  Nothing obliges a       *)
(* program to run, to end, or to wait for its children.                    *)
Fairness ==
  /\ WF_vars(ContainerStep)
  /\ WF_vars(Alarm)
  /\ \A p \in Process : WF_vars(Killed(p))

FairSpec == Spec /\ Fairness
-----------------------------------------------------------------------------
(* Properties.                                                             *)

\* When a run is measured its box is empty, whatever the program forked and
\* whichever process outlived its parent, and what is measured is all that
\* the box ever uses.
BoxIsEmptied ==
  /\ pc \in {"measure", "done"} => alive \cup zombie = {}
  /\ pc = "done" => result.time = cpu

\* The result tells why the run ended: how the slave has ended of itself, or
\* which limit it has exceeded, unless the wall clock was set back.  The end
\* that kill_all() gave the slave is never taken for its own.
EndIsExplained ==
  pc = "done" =>
    /\ result.status \in {"none", ended} \ {"killed"}
    /\ \/ result.status # "none"
       \/ result.timeExceeded \/ result.wallExceeded
       \/ steps > 0

\* No alarm and no end of an adopted process makes a call of the container
\* fail: what an earlier run has left in timer_interrupt does no harm.
NeverDies == pc # "dead"

\* A run in which the box exceeds its time limit, or its wall time limit
\* with a clock that is never set back again, ends.
LimitIsEnforced ==
  /\ (pc \in Watching \ {"start"} /\ Exceeds(cpu, limits.time)) ~> (pc = "done")
  /\ (pc \in Watching \ {"start"} /\ Exceeds(clock - began, limits.wall))
       ~> (pc = "done" \/ ~Exceeds(clock - began, limits.wall))

\* When the slave has ended the run ends, whatever the slave has left behind.
SlaveEndEndsRun == (Slave \in zombie) ~> (pc = "done")
=============================================================================
