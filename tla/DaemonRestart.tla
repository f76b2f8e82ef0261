---------------------------- MODULE DaemonRestart ----------------------------
(***************************************************************************)
(* One daemon after the other: what Daemon::prepare() and the end of a     *)
(* daemon (src/src/daemon.cpp) do with the pid file, the path of the       *)
(* socket and the cgroup directories, and the commands `libsboxd stop',    *)
(* `kill' and `killall' (src/src/libsboxd.cpp), which are shell scripts.   *)
(*                                                                         *)
(* A daemon stands for itself and its workers, which end with it:          *)
(* DaemonLifecycle has the details.  Processes and files are told apart by *)
(* the daemon they belong to.                                              *)
(***************************************************************************)
EXTENDS Naturals, FiniteSets

CONSTANTS
  Daemons,      \* the daemons that may be started
  Shells,       \* the shells that may run a command at the same time
  Commands,     \* the commands that are given
  MaxCommands,  \* bound on their number
  Faults,       \* the program points where a daemon may die of an error
  Nobody        \* no daemon

ASSUME NobodyAssumption == Nobody \notin Daemons
ASSUME CommandsAssumption == Commands \subseteq {"stop", "kill", "killall"}
ASSUME BoundsAssumption == MaxCommands \in Nat

VARIABLES
  pc,          \* the program counter of each daemon
  pidfile,     \* /run/libsboxd.pid: who has created it, and whose pid it holds
  socket,      \* the daemon whose socket is at the path
  dirs,        \* the daemons of which containers have cgroup directories
  shell,       \* where each shell is, with the command and the pid it has read
  commands,    \* how many commands were given
  told,        \* history: the daemons that have got a signal
  hasty        \* history: what a daemon or a command was started in spite of

vars == <<pc, pidfile, socket, dirs, shell, commands, told, hasty>>

\* Nothing in the code keeps somebody from starting a daemon, or giving a
\* command, while a command is executed or a daemon creates its pid file
\* ("command"), or from starting a daemon while one that was told to stop has
\* not yet ended ("stopping").
Haste == {"command", "stopping"}

NoFile == [by |-> Nobody, pid |-> Nobody]
IdleShell == [at |-> "idle", command |-> "stop", pid |-> Nobody]

Running ==
  {"opened", "written", "ready", "cgroups", "free", "serve", "unlink", "reap"}
Pc == {"none", "open", "stopped", "dead"} \cup Running

TypeOK ==
  /\ pc \in [Daemons -> Pc]
  /\ pidfile \in [by : Daemons \cup {Nobody}, pid : Daemons \cup {Nobody}]
  /\ pidfile.pid \in {pidfile.by, Nobody}
  /\ socket \in Daemons \cup {Nobody}
  /\ dirs \subseteq Daemons
  /\ shell \in [Shells -> [at : {"idle", "signal", "rm"},
                           command : {"stop", "kill", "killall"},
                           pid : Daemons \cup {Nobody}]]
  /\ \A s \in Shells : shell[s].at = "rm" => shell[s].command # "killall"
  /\ commands \in 0..MaxCommands
  /\ told \subseteq Daemons
  /\ hasty \subseteq Haste

Init ==
  /\ pc = [d \in Daemons |-> "none"]
  /\ pidfile = NoFile
  /\ socket = Nobody
  /\ dirs = {}
  /\ shell = [s \in Shells |-> IdleShell]
  /\ commands = 0
  /\ told = {}
  /\ hasty = {}
-----------------------------------------------------------------------------
(* A daemon.                                                               *)

Goto(d, from, to) == pc[d] = from /\ pc' = [pc EXCEPT ![d] = to]

world == <<shell, commands, told, hasty>>

\* _die(): the socket is removed, once its path is known, and the pid file.
\* What its containers have made in the cgroups stays.
Die(d) ==
  /\ pc' = [pc EXCEPT ![d] = "dead"]
  /\ socket' = IF pc[d] \in {"opened", "written", "ready"}
               THEN socket ELSE Nobody
  /\ pidfile' = NoFile
  /\ UNCHANGED dirs

\* libsboxd is started, at any time.  `libsboxd stop' returns without having
\* waited for the daemon's end.
Launch(d) ==
  /\ Goto(d, "none", "open")
  /\ hasty' = hasty \cup
       {h \in Haste :
          \/ h = "command" /\ \E s \in Shells : shell[s].at # "idle"
          \/ h = "stopping" /\ \E e \in told : pc[e] \in Running}
  /\ UNCHANGED <<pidfile, socket, dirs, shell, commands, told>>

\* Mutant: O_EXCL is not set.
OpenShared(d) ==
  /\ Goto(d, "open", "opened")
  /\ pidfile' = [by |-> d, pid |-> Nobody]
  /\ UNCHANGED <<socket, dirs, world>>

\* Mutant: a daemon that finds a pid file calls die().
OpenOrDie(d) ==
  \/ /\ pidfile = NoFile
     /\ Goto(d, "open", "opened")
     /\ pidfile' = [by |-> d, pid |-> Nobody]
     /\ UNCHANGED <<socket, dirs, world>>
  \/ /\ pidfile # NoFile
     /\ Goto(d, "open", "dead")
     /\ pidfile' = NoFile
     /\ UNCHANGED <<socket, dirs, world>>

\* prepare(): the pid file is created, or found, and then the daemon exits
\* and leaves everything as it is.
Open(d) ==
  \/ /\ pidfile = NoFile
     /\ Goto(d, "open", "opened")
     /\ pidfile' = [by |-> d, pid |-> Nobody]
     /\ UNCHANGED <<socket, dirs, world>>
  \/ /\ pidfile # NoFile
     /\ Goto(d, "open", "dead")
     /\ UNCHANGED <<pidfile, socket, dirs, world>>

\* prepare(): the pid is written into the file that was opened, which may be
\* at the path no more.
WritePid(d) ==
  /\ Goto(d, "opened", "written")
  /\ pidfile' = IF pidfile.by = d THEN [pidfile EXCEPT !.pid = d] ELSE pidfile
  /\ UNCHANGED <<socket, dirs, world>>

\* prepare_signals(): from here on SIGTERM does not end the daemon at once.
SetHandlers(d) ==
  /\ Goto(d, "written", "ready")
  /\ UNCHANGED <<pidfile, socket, dirs, world>>

\* CgroupController::init(): the directory is removed and made anew; it can
\* not be removed while directories of containers are in it.
InitCgroups(d) ==
  /\ pc[d] = "ready"
  /\ \/ /\ dirs = {}
        /\ Goto(d, "ready", "cgroups")
        /\ UNCHANGED <<pidfile, socket, dirs>>
     \/ /\ dirs # {}
        /\ Die(d)
  /\ UNCHANGED world

\* Mutant: a socket that an earlier daemon has left is not removed.
FreeSocketNot(d) ==
  /\ Goto(d, "cgroups", "free")
  /\ UNCHANGED <<pidfile, socket, dirs, world>>

\* prepare(): a socket that an earlier daemon has left is removed.
FreeSocket(d) ==
  /\ Goto(d, "cgroups", "free")
  /\ socket' = Nobody
  /\ UNCHANGED <<pidfile, dirs, world>>

\* prepare() and run(): the socket is bound, the workers are spawned.
Bind(d) ==
  /\ pc[d] = "free"
  /\ IF socket = Nobody
     THEN /\ Goto(d, "free", "serve")
          /\ socket' = d
          /\ UNCHANGED <<pidfile, dirs>>
     ELSE Die(d)
  /\ UNCHANGED world

\* run(): the socket's path is removed.  It is an error if there is none.
UnlinkSocket(d) ==
  /\ pc[d] = "unlink"
  /\ IF socket # Nobody
     THEN /\ Goto(d, "unlink", "reap")
          /\ socket' = Nobody
          /\ UNCHANGED <<pidfile, dirs>>
     ELSE Die(d)
  /\ UNCHANGED world

\* run(): the workers have finished their requests, and the daemon exits with
\* 0.  The pid file is left to the stop command.
Reap(d) ==
  /\ Goto(d, "reap", "stopped")
  /\ d \notin dirs
  /\ UNCHANGED <<pidfile, socket, dirs, world>>

\* A system call of the daemon fails, or a worker of it dies.
Fail(d) ==
  /\ pc[d] \in Faults \cap Running
  /\ Die(d)
  /\ UNCHANGED world

DaemonStep(d) ==
  \/ Open(d) \/ WritePid(d) \/ SetHandlers(d) \/ InitCgroups(d)
  \/ FreeSocket(d) \/ Bind(d) \/ UnlinkSocket(d) \/ Reap(d)

\* Containers make their cgroup directories, and remove them when their task
\* is over.  A stop lets requests that have begun come to their end.
RunTask(d) ==
  /\ pc[d] = "serve" /\ d \notin dirs
  /\ dirs' = dirs \cup {d}
  /\ UNCHANGED <<pc, pidfile, socket, world>>

EndTask(d) ==
  /\ pc[d] \in {"serve", "unlink", "reap"} /\ d \in dirs
  /\ dirs' = dirs \ {d}
  /\ UNCHANGED <<pc, pidfile, socket, world>>
-----------------------------------------------------------------------------
(* The commands.                                                           *)

\* SIGTERM at daemon d: it ends a daemon without handlers, stops one that is in
\* its first wait(), and makes one that waits for its workers die.  At other
\* times it sets a flag and interrupts nothing.
Terminate(d) ==
  IF pc[d] = "reap"
  THEN Die(d)
  ELSE /\ pc' = [pc EXCEPT ![d] = CASE @ = "written" -> "dead"
                                    [] @ = "serve" -> "unlink"
                                    [] OTHER -> @]
       /\ UNCHANGED <<pidfile, socket, dirs>>

\* SIGKILL at the daemons in S.
Kill(S) ==
  /\ pc' = [d \in Daemons |->
              IF d \in S /\ pc[d] \in Running \cup {"open"}
              THEN "dead" ELSE pc[d]]
  /\ UNCHANGED <<pidfile, socket, dirs>>

\* A command is given, at any time: cat reads the pid file.  `killall' removes
\* it first.
Give(s, command) ==
  /\ shell[s].at = "idle"
  /\ commands < MaxCommands /\ commands' = commands + 1
  /\ shell' = [shell EXCEPT ![s] =
       [at |-> "signal", command |-> command,
        pid |-> IF command = "killall" THEN Nobody ELSE pidfile.pid]]
  /\ pidfile' = IF command = "killall" THEN NoFile ELSE pidfile
  /\ hasty' = hasty \cup
       {h \in Haste :
          h = "command" /\ \E d \in Daemons : pc[d] \in {"open", "opened"}}
  /\ UNCHANGED <<pc, socket, dirs, told>>

\* Mutant: every command sends SIGKILL and removes the pid file afterwards.
SignalThenRm(s) ==
  /\ shell[s].at = "signal"
  /\ Kill(IF shell[s].command = "killall" THEN Daemons ELSE {shell[s].pid})
  /\ shell' = [shell EXCEPT ![s].at = "rm"]
  /\ UNCHANGED <<commands, told, hasty>>

\* xargs sends the signal to the process whose pid was read, if any.
Signal(s) ==
  /\ shell[s].at = "signal"
  /\ LET d == shell[s].pid IN
       \/ /\ shell[s].command = "killall"
          /\ Kill(Daemons)
          /\ told' = told \cup {e \in Daemons : pc[e] \in Running}
          /\ shell' = [shell EXCEPT ![s] = IdleShell]
       \/ /\ shell[s].command # "killall" /\ d # Nobody
          /\ IF shell[s].command = "stop" THEN Terminate(d) ELSE Kill({d})
          /\ told' = told \cup {d}
          /\ shell' = [shell EXCEPT ![s].at = "rm"]
       \/ /\ shell[s].command # "killall" /\ d = Nobody
          /\ shell' = [shell EXCEPT ![s].at = "rm"]
          /\ UNCHANGED <<pc, pidfile, socket, dirs, told>>
  /\ UNCHANGED <<commands, hasty>>

\* `stop' and `kill' remove the pid file, whether or not the daemon has ended.
Rm(s) ==
  /\ shell[s].at = "rm"
  /\ pidfile' = NoFile
  /\ shell' = [shell EXCEPT ![s] = IdleShell]
  /\ UNCHANGED <<pc, socket, dirs, commands, told, hasty>>

Next ==
  \/ \E d \in Daemons :
       Launch(d) \/ DaemonStep(d) \/ Fail(d) \/ RunTask(d) \/ EndTask(d)
  \/ \E s \in Shells :
       Signal(s) \/ Rm(s) \/ \E command \in Commands : Give(s, command)

Spec == Init /\ [][Next]_vars

(* The kernel schedules the daemons.  Nothing obliges a task to end, nor   *)
(* anybody to give a command.                                              *)
Fairness == \A d \in Daemons : WF_vars(DaemonStep(d))

FairSpec == Spec /\ Fairness
-----------------------------------------------------------------------------
(* Properties.  They ask somebody who starts a daemon to wait until no     *)
(* command is executed and no daemon that was told to stop is left, and    *)
(* somebody who gives a command to wait until a daemon has written its pid: *)
(* hasty = {}.  The code does not see to that, and src/tests/run.py:75-79  *)
(* does not wait: without this condition every one of them is violated.    *)

\* At no time two daemons run: the pid file excludes a second one, whatever
\* was killed or has failed before, if nobody was hasty.
OneDaemon ==
  hasty = {} =>
    \A d, e \in Daemons : pc[d] \in Running /\ pc[e] \in Running => d = e

\* If nobody was hasty, the path leads to the socket of the daemon that
\* serves, and the pid file to the daemon, so that the next command will find
\* it; unless it has got a signal, or a command is being executed.
ServiceIsReachable ==
  hasty = {} =>
    \A d \in Daemons : pc[d] = "serve" =>
      /\ socket = d
      /\ \/ pidfile.pid = d
         \/ d \in told
         \/ \E s \in Shells : shell[s].at # "idle"

\* A daemon that has created the pid file comes to serve, unless it is told
\* to end or somebody is hasty, whatever sockets earlier daemons have left.
\* Directories of containers are in its way only if a daemon died with
\* containers running: one that was told to stop has waited for their tasks.
StartSucceeds ==
  \A d \in Daemons :
    (pc[d] = "opened" /\ \A e \in dirs : pc[e] # "dead")
      ~> (pc[d] = "serve" \/ d \in told \/ hasty # {})

\* If nobody was hasty, a daemon removes no pid file but its own ("even if
\* current process don't own it", src/src/daemon.cpp:122), nor the path of
\* another's socket while that one serves: neither by its own steps nor when
\* a second SIGTERM makes it die.
OnlyOwnFiles ==
  [][hasty = {} =>
       \A d \in Daemons : pc'[d] # pc[d] =>
         /\ pidfile # NoFile /\ pidfile' = NoFile => pidfile.by = d
         /\ socket # Nobody /\ socket' = Nobody =>
              socket = d \/ pc[socket] # "serve"]_vars
=============================================================================
