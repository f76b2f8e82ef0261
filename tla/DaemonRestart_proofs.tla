------------------------ MODULE DaemonRestart_proofs ------------------------
(***************************************************************************)
(* Daemons one after the other, for any number of daemons, shells and      *)
(* commands and any failures: while nobody was hasty no two daemons run at *)
(* once, the one that serves is reachable, and none removes the files of   *)
(* another.                                                                *)
(***************************************************************************)
EXTENDS DaemonRestart, TLAPS

USE NobodyAssumption, CommandsAssumption, BoundsAssumption

\* Daemon d has got a signal, or will get one from a killall that has begun.
Doomed(d) ==
  d \in told \/ \E s \in Shells :
                  shell[s].at = "signal" /\ shell[s].command = "killall"

\* Only a daemon that has created its pid file can have got a signal.
Seen == {d \in Daemons : pc[d] \notin {"none", "open"}}

SeenInv ==
  /\ told \subseteq Seen
  /\ pidfile.pid \in Seen \cup {Nobody}
  /\ \A s \in Shells : shell[s].pid \in Seen \cup {Nobody}

\* While a daemon is about to create its pid file no command is executed, and
\* a daemon that runs was not told to end.
StartInv ==
  (\E d \in Daemons : pc[d] \in {"open", "opened"}) =>
    /\ \A s \in Shells : shell[s].at = "idle"
    /\ \A e \in Daemons : pc[e] \in Running => e \notin told

\* The pid file is that of the daemon that runs, until this one is doomed:
\* every command that is executed has found its pid, and none is about to
\* remove the file.
FileInv ==
  \A d \in Daemons : pc[d] \in Running /\ ~Doomed(d) =>
    /\ pidfile.by = d
    /\ pc[d] = "opened" \/ pidfile.pid = d
    /\ \A s \in Shells : shell[s].at # "rm"
    /\ \A s \in Shells : shell[s].at = "signal" => shell[s].pid = d

\* Even when it is doomed, no other daemon's pid file is there.
OwnerInv ==
  \A d \in Daemons : pc[d] \in Running => pidfile = NoFile \/ pidfile.by = d

SocketInv == \A d \in Daemons : pc[d] = "serve" => socket = d

\* What holds as long as nobody was hasty.
Calm == StartInv /\ FileInv /\ OwnerInv /\ SocketInv /\ OneDaemon

Inv == TypeOK /\ SeenInv /\ (hasty = {} => Calm)

LEMMA InitInv == Init => Inv
BY DEF Init, Inv, Calm, TypeOK, Pc, Running, NoFile, IdleShell, SeenInv, Seen,
       StartInv, FileInv, OwnerInv, SocketInv, OneDaemon
-----------------------------------------------------------------------------
(* A daemon's steps.                                                       *)

\* Daemon d is the only one that runs, so that none runs after its death.
LEMMA DieInv ==
  ASSUME Inv, NEW d \in Daemons, pc[d] \in Running, Die(d), UNCHANGED world
  PROVE  Inv'
<1> USE DEF Inv, Die, world
<1>1. TypeOK'
  BY DEF TypeOK, Pc, Running, NoFile
<1>2. SeenInv'
  BY DEF TypeOK, SeenInv, Seen, NoFile, Running
<1>3. ASSUME hasty = {} PROVE Calm'
  <2> USE <1>3 DEF Calm
  <2>1. \A e \in Daemons : pc'[e] \notin Running
    BY DEF TypeOK, OneDaemon, Running
  <2>2. StartInv'
    BY <2>1 DEF TypeOK, StartInv
  <2> QED
    BY <2>1, <2>2 DEF FileInv, OwnerInv, SocketInv, OneDaemon, Running
<1> QED
  BY <1>1, <1>2, <1>3

LEMMA LaunchInv ==
  ASSUME Inv, NEW d \in Daemons, Launch(d)
  PROVE  Inv'
<1> USE DEF Inv, Launch, Goto, world
<1>1. TypeOK'
  BY DEF TypeOK, Pc
<1>2. SeenInv'
  BY DEF TypeOK, SeenInv, Seen
<1>3. ASSUME hasty' = {} PROVE Calm'
  <2> USE <1>3 DEF Calm
  <2>1. /\ hasty = {}
        /\ \A s \in Shells : shell[s].at = "idle"
        /\ \A e \in told : pc[e] \notin Running
    BY DEF Haste
  <2>2. StartInv'
    BY <2>1 DEF TypeOK, StartInv, Running
  <2>3. FileInv' /\ OwnerInv' /\ SocketInv' /\ OneDaemon'
    BY <2>1
    DEF TypeOK, FileInv, OwnerInv, Doomed, SocketInv, OneDaemon, Running
  <2> QED
    BY <2>2, <2>3
<1> QED
  BY <1>1, <1>2, <1>3

\* When there is no pid file no daemon runs: it would be doomed, and then
\* nobody would be about to create the file.
LEMMA OpenInv ==
  ASSUME Inv, NEW d \in Daemons, Open(d)
  PROVE  Inv'
<1> USE DEF Inv, Open, Goto, world
<1>1. TypeOK'
  BY DEF TypeOK, Pc, Running
<1>2. SeenInv'
  BY DEF TypeOK, SeenInv, Seen
<1>3. ASSUME hasty = {} PROVE Calm'
  <2> USE <1>3 DEF Calm
  <2>1. /\ pc[d] = "open" /\ d \notin told
        /\ \A s \in Shells : shell[s].at = "idle"
        /\ \A e \in Daemons : pc[e] \in Running => ~Doomed(e)
    BY DEF StartInv, SeenInv, Seen, Doomed
  <2>2. CASE pidfile = NoFile
    <3>1. \A e \in Daemons : pc[e] \notin Running
      BY <2>1, <2>2 DEF FileInv, NoFile
    <3>2. /\ pc' = [pc EXCEPT ![d] = "opened"]
          /\ pidfile' = [by |-> d, pid |-> Nobody]
      BY <2>2
    <3>3. StartInv'
      BY <2>1, <3>1, <3>2 DEF TypeOK, StartInv
    <3>4. FileInv' /\ OwnerInv' /\ SocketInv' /\ OneDaemon'
      BY <2>1, <3>1, <3>2
      DEF TypeOK, FileInv, OwnerInv, SocketInv, OneDaemon, Running
    <3> QED
      BY <3>3, <3>4
  <2>3. CASE pidfile # NoFile
    BY <2>1, <2>3 DEF TypeOK, StartInv, FileInv, OwnerInv, Doomed, SocketInv,
                      OneDaemon, Running
  <2> QED
    BY <2>2, <2>3
<1> QED
  BY <1>1, <1>2, <1>3

\* The other steps of a daemon that runs, when they do not fail.
LEMMA RunningInv ==
  ASSUME Inv, NEW d \in Daemons,
         \/ WritePid(d) \/ SetHandlers(d) \/ FreeSocket(d) \/ Reap(d)
         \/ RunTask(d) \/ EndTask(d)
         \/ InitCgroups(d) /\ dirs = {}
         \/ Bind(d) /\ socket = Nobody
         \/ UnlinkSocket(d) /\ socket # Nobody
  PROVE  Inv'
<1> USE DEF Inv, Goto, world, WritePid, SetHandlers, FreeSocket, Reap, RunTask,
            EndTask, InitCgroups, Bind, UnlinkSocket
<1>1. TypeOK'
  BY DEF TypeOK, Pc, Running
<1>2. SeenInv'
  BY DEF TypeOK, SeenInv, Seen
<1>3. ASSUME hasty = {} PROVE Calm'
  <2> USE <1>3 DEF Calm
  <2>1. StartInv'
    BY DEF TypeOK, StartInv, Running
  <2>2. FileInv'
    BY DEF TypeOK, FileInv, Doomed, OneDaemon, Running
  <2>3. OwnerInv' /\ SocketInv' /\ OneDaemon'
    BY DEF TypeOK, OwnerInv, SocketInv, OneDaemon, NoFile, Running
  <2> QED
    BY <2>1, <2>2, <2>3
<1>4. hasty' = hasty
  OBVIOUS
<1> QED
  BY <1>1, <1>2, <1>3, <1>4

LEMMA DaemonInv ==
  ASSUME Inv, NEW d \in Daemons,
         Launch(d) \/ DaemonStep(d) \/ Fail(d) \/ RunTask(d) \/ EndTask(d)
  PROVE  Inv'
<1>1. CASE Launch(d)
  BY <1>1, LaunchInv
<1>2. CASE Open(d)
  BY <1>2, OpenInv
<1>3. CASE InitCgroups(d)
  <2>1. CASE dirs # {}
    BY <1>3, <2>1, DieInv DEF InitCgroups, Running
  <2> QED
    BY <1>3, <2>1, RunningInv
<1>4. CASE Bind(d)
  <2>1. CASE socket # Nobody
    BY <1>4, <2>1, DieInv DEF Bind, Running
  <2> QED
    BY <1>4, <2>1, RunningInv
<1>5. CASE UnlinkSocket(d)
  <2>1. CASE socket = Nobody
    BY <1>5, <2>1, DieInv DEF UnlinkSocket, Running
  <2> QED
    BY <1>5, <2>1, RunningInv
<1>6. CASE Fail(d)
  BY <1>6, DieInv DEF Fail
<1> QED
  BY <1>1, <1>2, <1>3, <1>4, <1>5, <1>6, RunningInv DEF DaemonStep
-----------------------------------------------------------------------------
(* The commands.                                                           *)

LEMMA GiveInv ==
  ASSUME Inv, NEW s \in Shells, NEW command \in Commands, Give(s, command)
  PROVE  Inv'
<1> USE DEF Inv, Give
<1>1. TypeOK'
  BY DEF TypeOK, NoFile
<1>2. SeenInv'
  BY DEF TypeOK, SeenInv, Seen, NoFile
<1>3. ASSUME hasty' = {} PROVE Calm'
  <2> USE <1>3 DEF Calm
  <2>1. hasty = {} /\ \A d \in Daemons : pc[d] \notin {"open", "opened"}
    BY DEF Haste
  <2>2. StartInv'
    BY <2>1 DEF TypeOK, StartInv
  <2>3. FileInv'
    <3> SUFFICES ASSUME NEW d \in Daemons, pc[d] \in Running, ~Doomed(d)'
                 PROVE  /\ pidfile'.by = d
                        /\ pidfile'.pid = d
                        /\ \A r \in Shells : shell'[r].at # "rm"
                        /\ \A r \in Shells :
                             shell'[r].at = "signal" => shell'[r].pid = d
      BY DEF FileInv
    <3>1. command # "killall" /\ ~Doomed(d)
      BY DEF TypeOK, Doomed
    <3>2. pidfile.by = d /\ pidfile.pid = d
      BY <2>1, <3>1 DEF FileInv
    <3> QED
      BY <2>1, <3>1, <3>2 DEF TypeOK, FileInv
  <2>4. OwnerInv' /\ SocketInv' /\ OneDaemon'
    BY <2>1 DEF OwnerInv, SocketInv, OneDaemon
  <2> QED
    BY <2>2, <2>3, <2>4
<1> QED
  BY <1>1, <1>2, <1>3

\* What SIGTERM and SIGKILL have in common.
LEMMA SignalledInv ==
  ASSUME Inv, NEW s \in Shells, shell[s].at = "signal",
         shell[s].command # "killall", shell[s].pid # Nobody,
         shell' = [shell EXCEPT ![s].at = "rm"],
         told' = told \cup {shell[s].pid}, UNCHANGED <<commands, hasty>>,
         Terminate(shell[s].pid) \/ Kill({shell[s].pid})
  PROVE  Inv'
<1> DEFINE d == shell[s].pid
<1> USE DEF Inv
<1>1. d \in Daemons /\ d \in Seen
  BY DEF SeenInv, Seen
<1>2. \/ /\ Die(d) /\ pc[d] \in Running
      \/ /\ pc' = [pc EXCEPT ![d] = pc'[d]]
         /\ pc'[d] \in {pc[d], "dead", "unlink"}
         /\ pc[d] \notin Running => pc'[d] = pc[d]
         /\ UNCHANGED <<pidfile, socket, dirs>>
  <2>1. CASE Terminate(d)
    BY <1>1, <2>1 DEF TypeOK, Terminate, Running
  <2>2. CASE Kill({d})
    <3>1. \A e \in Daemons : e # d => pc'[e] = pc[e]
      BY <2>2 DEF TypeOK, Kill
    <3>2. pc' = [pc EXCEPT ![d] = pc'[d]]
      BY <1>1, <2>2, <3>1 DEF TypeOK, Kill
    <3> QED
      BY <1>1, <2>2, <3>2 DEF TypeOK, Kill, Seen
  <2> QED
    BY <2>1, <2>2
<1>3. TypeOK'
  BY <1>1, <1>2 DEF TypeOK, Die, NoFile, Pc, Running
<1>4. SeenInv'
  BY <1>1, <1>2 DEF TypeOK, SeenInv, Seen, Die, NoFile, Running
<1>5. \A e \in Daemons : pc'[e] \in Running => pc[e] \in Running
  BY <1>1, <1>2 DEF TypeOK, Die, Running
<1>6. ASSUME hasty = {} PROVE Calm'
  <2> USE <1>6 DEF Calm
  <2>1. \A e \in Daemons : pc[e] \notin {"open", "opened"}
    BY DEF StartInv
  <2>2. StartInv'
    BY <1>1, <1>2, <2>1 DEF TypeOK, StartInv, Die
  <2>3. FileInv'
    <3> SUFFICES ASSUME NEW e \in Daemons, pc'[e] \in Running, ~Doomed(e)'
                 PROVE  FALSE
      BY DEF FileInv
    <3>1. e # d /\ pc[e] \in Running /\ ~Doomed(e)
      BY <1>5 DEF TypeOK, Doomed
    <3> QED
      BY <3>1 DEF FileInv
  <2>4. SocketInv'
    BY <1>1, <1>2 DEF TypeOK, SocketInv, OneDaemon, Die, Running
  <2>5. OwnerInv' /\ OneDaemon'
    BY <1>2, <1>5 DEF OwnerInv, OneDaemon, Die
  <2> QED
    BY <2>2, <2>3, <2>4, <2>5
<1> QED
  BY <1>3, <1>4, <1>6

LEMMA SignalInv ==
  ASSUME Inv, NEW s \in Shells, Signal(s)
  PROVE  Inv'
<1> USE DEF Inv, Signal
<1>1. CASE shell[s].command = "killall"
  <2>1. /\ \A d \in Daemons : pc'[d] \notin Running \cup {"open"}
        /\ \A d \in Daemons : pc[d] \notin {"none", "open"}
                              => pc'[d] \notin {"none", "open"}
    BY <1>1 DEF Kill, Running
  <2>2. TypeOK'
    BY <1>1 DEF TypeOK, Kill, Pc, Running, IdleShell
  <2>3. SeenInv'
    BY <1>1, <2>1 DEF TypeOK, SeenInv, Seen, Kill, IdleShell, Running
  <2>4. Calm'
    BY <2>1 DEF Calm, StartInv, FileInv, OwnerInv, SocketInv, OneDaemon, Running
  <2> QED
    BY <2>2, <2>3, <2>4
<1>2. CASE shell[s].command # "killall" /\ shell[s].pid # Nobody
  BY <1>2, SignalledInv
<1>3. CASE shell[s].command # "killall" /\ shell[s].pid = Nobody
  <2>1. TypeOK'
    BY <1>3 DEF TypeOK
  <2>2. SeenInv'
    BY <1>3 DEF TypeOK, SeenInv, Seen
  <2>3. ASSUME hasty = {} PROVE Calm'
    <3> USE <1>3, <2>3 DEF Calm
    <3>1. StartInv'
      BY DEF TypeOK, StartInv
    <3>2. FileInv'
      <4> SUFFICES ASSUME NEW e \in Daemons, pc[e] \in Running, ~Doomed(e)'
                   PROVE  FALSE
        BY DEF FileInv
      <4>1. ~Doomed(e)
        BY DEF TypeOK, Doomed
      <4> QED
        BY <4>1 DEF FileInv
    <3>3. OwnerInv' /\ SocketInv' /\ OneDaemon'
      BY DEF OwnerInv, SocketInv, OneDaemon
    <3> QED
      BY <3>1, <3>2, <3>3
  <2> QED
    BY <1>3, <2>1, <2>2, <2>3
<1> QED
  BY <1>1, <1>2, <1>3

LEMMA RmInv ==
  ASSUME Inv, NEW s \in Shells, Rm(s)
  PROVE  Inv'
<1> USE DEF Inv, Rm
<1>1. TypeOK'
  BY DEF TypeOK, NoFile, IdleShell
<1>2. SeenInv'
  BY DEF TypeOK, SeenInv, Seen, NoFile, IdleShell
<1>3. ASSUME hasty = {} PROVE Calm'
  <2> USE <1>3 DEF Calm
  <2>1. StartInv'
    BY DEF TypeOK, StartInv, IdleShell
  <2>2. FileInv'
    BY DEF TypeOK, FileInv, Doomed, IdleShell
  <2>3. OwnerInv' /\ SocketInv' /\ OneDaemon'
    BY DEF OwnerInv, SocketInv, OneDaemon
  <2> QED
    BY <2>1, <2>2, <2>3
<1> QED
  BY <1>1, <1>2, <1>3
-----------------------------------------------------------------------------
(* The theorems.                                                           *)

LEMMA NextInv == Inv /\ [Next]_vars => Inv'
<1> SUFFICES ASSUME Inv, [Next]_vars
             PROVE  Inv'
  OBVIOUS
<1>1. CASE UNCHANGED vars
  BY <1>1 DEF vars, Inv, Calm, TypeOK, SeenInv, Seen, StartInv, FileInv, Doomed,
              OwnerInv, SocketInv, OneDaemon
<1>2. CASE Next
  BY <1>2, DaemonInv, GiveInv, SignalInv, RmInv DEF Next
<1> QED
  BY <1>1, <1>2

THEOREM Invariance == Spec => []Inv
BY InitInv, NextInv, PTL DEF Spec

\* The state keeps its type.
THEOREM TypeCorrect == Spec => []TypeOK
<1>1. Inv => TypeOK
  BY DEF Inv
<1> QED
  BY <1>1, Invariance, PTL

\* While nobody was hasty, the pid file keeps a second daemon from running,
\* in whatever order daemons are started, told to end, killed, and die.
THEOREM OneAtATime == Spec => []OneDaemon
<1>1. Inv => OneDaemon
  BY DEF Inv, Calm, OneDaemon
<1> QED
  BY <1>1, Invariance, PTL

\* While nobody was hasty, clients and commands reach the daemon that serves.
THEOREM Reachable == Spec => []ServiceIsReachable
<1>1. Inv => ServiceIsReachable
  BY DEF Inv, Calm, TypeOK, FileInv, Doomed, SocketInv, ServiceIsReachable,
         Running
<1> QED
  BY <1>1, Invariance, PTL

\* A command's step changes the files of a daemon only by making it die.
LEMMA CommandFiles ==
  ASSUME Inv, hasty = {}, NEW d \in Daemons, pc'[d] # pc[d],
         NEW s \in Shells,
         \/ Signal(s) \/ Rm(s)
         \/ \E command \in Commands : Give(s, command)
  PROVE  \/ UNCHANGED <<pidfile, socket>>
         \/ pc[d] \in Running
<1> USE DEF Inv, TypeOK
<1>1. Signal(s)
  BY DEF Rm, Give
<1>2. CASE shell[s].command = "killall"
  BY <1>1, <1>2 DEF Signal, Kill
<1>3. CASE shell[s].command # "killall"
  <2>1. shell[s].pid \in Daemons
    BY <1>1, <1>3 DEF Signal
  <2>2. CASE shell[s].command # "stop" \/ pc[shell[s].pid] # "reap"
    BY <1>1, <1>3, <2>1, <2>2 DEF Signal, Terminate, Kill
  <2>3. CASE shell[s].command = "stop" /\ pc[shell[s].pid] = "reap"
    <3>1. Die(shell[s].pid)
      BY <1>1, <1>3, <2>1, <2>3 DEF Signal, Terminate
    <3> QED
      BY <2>1, <2>3, <3>1 DEF Die, Running
  <2> QED
    BY <2>2, <2>3
<1> QED
  BY <1>2, <1>3

\* While nobody was hasty, no step of a daemon removes the pid file or the
\* socket of another one, nor does its death by a second SIGTERM.
THEOREM FilesAreOwn == Spec => OnlyOwnFiles
<1> DEFINE Own(d) == /\ pidfile # NoFile /\ pidfile' = NoFile => pidfile.by = d
                     /\ socket # Nobody /\ socket' = Nobody =>
                          socket = d \/ pc[socket] # "serve"
<1>1. ASSUME Inv, Next, hasty = {}, NEW d \in Daemons, pc'[d] # pc[d]
      PROVE  Own(d)
  <2>1. \/ UNCHANGED <<pidfile, socket>>
        \/ pc[d] \in Running
        \/ /\ pc[d] \in {"none", "open"}
           /\ pidfile = NoFile \/ pidfile' # NoFile
           /\ socket' = socket
    <3>1. CASE \E e \in Daemons :
            Launch(e) \/ DaemonStep(e) \/ Fail(e) \/ RunTask(e) \/ EndTask(e)
      <4>1. PICK e \in Daemons :
            Launch(e) \/ DaemonStep(e) \/ Fail(e) \/ RunTask(e) \/ EndTask(e)
        BY <3>1
      <4>2. e = d
        BY <1>1, <4>1
        DEF Inv, TypeOK, Launch, DaemonStep, Open, WritePid, SetHandlers,
            InitCgroups, FreeSocket, Bind, UnlinkSocket, Reap, Fail, RunTask,
            EndTask, Goto, Die
      <4> QED
        BY <1>1, <4>1, <4>2
        DEF Inv, TypeOK, Launch, DaemonStep, Open, WritePid, SetHandlers,
            InitCgroups, FreeSocket, Bind, UnlinkSocket, Reap, Fail, RunTask,
            EndTask, Goto, Running
    <3> QED
      BY <1>1, <3>1, CommandFiles DEF Next
  <2> QED
    BY <1>1, <2>1 DEF Inv, Calm, TypeOK, OwnerInv, OneDaemon, Running
<1>2. UNCHANGED vars => \A d \in Daemons : pc'[d] = pc[d]
  BY DEF vars
<1>3. Inv /\ [Next]_vars =>
        [hasty = {} => \A d \in Daemons : pc'[d] # pc[d] => Own(d)]_vars
  BY <1>1, <1>2
<1> QED
  BY <1>3, Invariance, PTL DEF Spec, OnlyOwnFiles
=============================================================================
