------------------------------ MODULE TaskBox ------------------------------
(***************************************************************************)
(* What one permanent container does with the data of the tasks it is      *)
(* given, one after another: set_task() fills the task data, serve() makes *)
(* the binds, the slave completes the environment and executes the         *)
(* program, serve() undoes the binds, and cleanup_root() empties the box   *)
(* (src/src/container.cpp, src/src/bind.cpp).  When each step is taken is  *)
(* Sandbox; here it is what the steps leave for the next task.             *)
(*                                                                         *)
(* A path is the sequence of its names, without "." and "..".  The mount   *)
(* table of the container is a sequence, the last mount made is the last   *)
(* of it.                                                                  *)
(***************************************************************************)
EXTENDS Integers, Sequences, SequencesExt, FiniteSetsExt

CONSTANTS
  Tasks,      \* the tasks the container may be given
  Names,      \* the names in paths
  Sources,    \* the paths outside the box that are bound into it
  KindOf,     \* what each source is
  Deep,       \* the sources that have mounts below them
  Standard,   \* the mounts prepare_root() makes, for all tasks
  Scratch,    \* the paths in /tmp where programs make files
  BINDS_MAX, ARGC_MAX, ARGV_MAX, ENVC_MAX, ENV_MAX,  \* include/libsbox.h
  RESERVE,    \* what TaskData::env has beyond ENV_MAX
  PATH        \* the length of PATH=..., 0 if libsboxd has no PATH

Path == Seq(Names) \ {<<>>}
Kind == {"directory", "file"}

\* A path that leads to the root of the box or out of it, for which the code
\* does not look.
Out == <<"..">>

\* to is what set_paths() makes of inside_: a path that is not absolute is in
\* /work.
Bind == [to : Path \cup {Out}, from : Sources, optional : BOOLEAN]
Mount == [to : Path, from : Sources]

\* A vector of strings by how many they are and how long they are together.
\* bare: one of them is "PATH=".
Strings == [count : Nat, size : Nat, bare : BOOLEAN]
Task == [argv : Strings, env : Strings, binds : Seq(Bind)]

ASSUME NamesAssumption == {"work", "tmp"} \subseteq Names /\ ".." \notin Names
ASSUME TasksAssumption == Tasks \subseteq Task
ASSUME SourcesAssumption ==
  /\ KindOf \in [Sources -> Kind \cup {"absent", "other", "relative"}]
  /\ Deep \subseteq Sources
ASSUME StandardAssumption ==
  /\ Standard \in Seq(Mount) /\ Scratch \subseteq Path
  /\ \A n \in DOMAIN Standard : Head(Standard[n].to) \notin {"work", "tmp"}
ASSUME LimitsAssumption ==
  /\ BINDS_MAX \in Nat /\ ARGC_MAX \in Nat /\ ARGV_MAX \in Nat
  /\ ENVC_MAX \in Nat /\ ENV_MAX \in Nat /\ RESERVE \in Nat /\ PATH \in Nat

VARIABLES
  pc,       \* where the container is
  task,     \* the task in the task data
  argv,     \* TaskData::argv: the sizes of items_ and data_
  env,      \* TaskData::env
  k,        \* the bind that is mounted or unmounted next
  mounted,  \* the binds with mounted_ set
  table,    \* the mounts in the box
  points,   \* what there is in the root of the box: <<path, kind>>
  replaced, \* the directories in /tmp the program has put something else for
  touched   \* the sources the container itself has changed

vars == <<pc, task, argv, env, k, mounted, table, points, replaced, touched>>

Vector == [items : Nat, data : Nat]

TypeOK ==
  /\ pc \in {"wait", "mount", "slave", "run", "umount", "cleanup", "dead",
             "lost"}
  /\ task \in Task
  /\ argv \in Vector /\ env \in Vector
  /\ k \in 1..(Len(task.binds) + 1)
  /\ mounted \subseteq 1..Len(task.binds)
  /\ table \in Seq(Mount)
  /\ points \subseteq Path \X Kind
  /\ replaced \subseteq Path
  /\ touched \subseteq Sources

NoStrings == [count |-> 0, size |-> 0, bare |-> FALSE]

\* PlainStringVector: items_ ends with a null pointer, every string in data_
\* with a null byte.
Cleared == [items |-> 1, data |-> 0]

\* add() for count strings that are size long together.
Added(v, count, size) ==
  [items |-> v.items + count, data |-> v.data + size + count]

Filled(strings) == Added(Cleared, strings.count, strings.size)

\* prepare_root().
Init ==
  /\ pc = "wait"
  /\ task = [argv |-> NoStrings, env |-> NoStrings, binds |-> <<>>]
  /\ argv = Filled(NoStrings) /\ env = Filled(NoStrings)
  /\ k = 1 /\ mounted = {}
  /\ table = Standard
  /\ points = {<< <<"work">>, "directory">>, << <<"tmp">>, "directory">>}
               \cup {<<Standard[n].to, "directory">> : n \in DOMAIN Standard}
  /\ replaced = {}
  /\ touched = {}
-----------------------------------------------------------------------------
\* The checks of set_task(), against max_count() and max_size().
Accepted(t) ==
  /\ t.argv.count <= ARGC_MAX /\ t.argv.size <= ARGV_MAX
  /\ t.env.count <= ENVC_MAX + 1 /\ t.env.size <= ENV_MAX + RESERVE
  /\ Len(t.binds) <= BINDS_MAX

\* Mutant: env.clear() is not called.
SetTaskNoClear(t) ==
  /\ pc = "wait" /\ Accepted(t)
  /\ task' = t /\ argv' = Filled(t.argv) /\ env' = Added(env, t.env.count, t.env.size)
  /\ pc' = "mount" /\ k' = 1 /\ mounted' = {}
  /\ UNCHANGED <<table, points, replaced, touched>>

\* set_task(), and the barrier lets the container go.
SetTask(t) ==
  /\ pc = "wait" /\ Accepted(t)
  /\ task' = t /\ argv' = Filled(t.argv) /\ env' = Filled(t.env)
  /\ pc' = "mount" /\ k' = 1 /\ mounted' = {}
  /\ UNCHANGED <<table, points, replaced, touched>>

\* set_task() dies between two of its assignments; nobody reads the task data
\* after that.
SetTaskFails(t) ==
  /\ pc = "wait" /\ ~Accepted(t)
  /\ pc' = "dead" /\ task' = t
  /\ k' = 1 /\ mounted' = {}
  /\ UNCHANGED <<argv, env, table, points, replaced, touched>>

\* die(), in the container: the worker dies with it.
Dies ==
  /\ pc' = "dead"
  /\ UNCHANGED <<task, argv, env, k, mounted, table, points, replaced, touched>>

\* The mount that a path leads to: the last one at the path or above it.
\* 0 is the tmpfs that is the root of the box.
Reach(path) ==
  Max({0} \cup {n \in DOMAIN table : IsPrefix(table[n].to, path)})

\* The paths of the directories above path.
Above(path) == {SubSeq(path, 1, n) : n \in 1..(Len(path) - 1)}

\* fs::create_directories() and, for a file, open() find nothing in their way.
CanMake(path, kind) ==
  LET n == Reach(path) IN
  IF n = 0
  THEN /\ \A p \in Above(path) : <<p, "file">> \notin points
       /\ \A other \in Kind \ {kind} : <<path, other>> \notin points
  ELSE IF table[n].to = path THEN kind = KindOf[table[n].from]
       ELSE KindOf[table[n].from] = "directory"

\* A mount point in the box is made, and one in what is bound already is made,
\* or its file emptied, at the source (O_CREAT | O_WRONLY | O_TRUNC).
MakePoint(path, kind) ==
  LET n == Reach(path) IN
  IF n = 0
  THEN /\ points' = points \cup {<<p, "directory">> : p \in Above(path)}
                           \cup {<<path, kind>>}
       /\ UNCHANGED touched
  ELSE /\ touched' = touched \cup
            (IF table[n].to = path /\ kind = "directory" THEN {}
             ELSE {table[n].from})
       /\ UNCHANGED points

ThisBind == task.binds[k]

\* The path goes through what is mounted above it, where anything may be: a
\* symbolic link, too, and that may lead anywhere.
Through(path) == \E n \in DOMAIN table : table[n].to \in Above(path)

\* A path leads the container out of its box, when it makes a mount point,
\* mounts or unmounts.  Nothing is said of what comes after that.
Strays ==
  /\ pc \in {"mount", "umount"} /\ k <= Len(task.binds)
  /\ pc = "mount" => KindOf[ThisBind.from] \in Kind
  /\ pc = "umount" => k \in mounted
  /\ ThisBind.to = Out \/ Through(ThisBind.to)
  /\ pc' = "lost" /\ touched' = Sources
  /\ UNCHANGED <<task, argv, env, k, mounted, table, points, replaced>>

\* Bind::mount().
MountBind ==
  /\ pc = "mount" /\ k <= Len(task.binds) /\ ThisBind.to # Out
  /\ LET kind == KindOf[ThisBind.from] IN
       /\ kind \in Kind /\ CanMake(ThisBind.to, kind)
       /\ MakePoint(ThisBind.to, kind)
  /\ table' = Append(table, [to |-> ThisBind.to, from |-> ThisBind.from])
  /\ mounted' = mounted \cup {k} /\ k' = k + 1
  /\ UNCHANGED <<pc, task, argv, env, replaced>>

SkipBind ==
  /\ pc = "mount" /\ k <= Len(task.binds)
  /\ KindOf[ThisBind.from] = "absent" /\ ThisBind.optional
  /\ k' = k + 1
  /\ UNCHANGED <<pc, task, argv, env, mounted, table, points, replaced, touched>>

\* Also where a source is written to, which may not be possible.
MountFails ==
  /\ pc = "mount" /\ k <= Len(task.binds)
  /\ LET kind == KindOf[ThisBind.from] IN
       \/ kind \in {"other", "relative"}
       \/ kind = "absent" /\ ~ThisBind.optional
       \/ /\ kind \in Kind
          /\ \/ ThisBind.to = Out \/ Reach(ThisBind.to) # 0
             \/ ~CanMake(ThisBind.to, kind)
  /\ Dies

\* fork().
StartSlave ==
  /\ pc = "mount" /\ k > Len(task.binds)
  /\ pc' = "slave"
  /\ UNCHANGED <<task, argv, env, k, mounted, table, points, replaced, touched>>

\* slave(): PATH is added, in the task data, unless there is a string "PATH=".
Execute ==
  /\ pc = "slave" /\ pc' = "run"
  /\ env' = IF task.env.bare \/ PATH = 0 THEN env
            ELSE Added(env, 1, PATH)
  /\ UNCHANGED <<task, argv, k, mounted, table, points, replaced, touched>>

\* The program makes a file or a directory in /tmp, which anybody may.
Program ==
  /\ pc = "run"
  /\ \E path \in Scratch, kind \in Kind :
       /\ Reach(path) = 0 /\ CanMake(path, kind)
       /\ Above(path) \X {"directory"} \subseteq points
       /\ points' = points \cup {<<path, kind>>}
  /\ UNCHANGED <<pc, task, argv, env, k, mounted, table, replaced, touched>>

\* The program puts something else for a directory in /tmp that was made for a
\* mount point: /tmp is open to everybody and not sticky.  A mount point itself
\* cannot be moved, nor can what is in such a directory, or in /work.
Replace ==
  /\ pc = "run"
  /\ \E n \in DOMAIN table : \E path \in Above(table[n].to) :
       /\ Len(path) = 2 /\ Head(path) = "tmp" /\ Reach(path) = 0
       /\ replaced' = replaced \cup {path}
  /\ UNCHANGED <<pc, task, argv, env, k, mounted, table, points, touched>>

\* Mutant: the binds are counted from 0.
EndedFromZero ==
  /\ pc \in {"slave", "run"}
  /\ pc' = "umount" /\ k' = 0
  /\ UNCHANGED <<task, argv, env, mounted, table, points, replaced, touched>>

\* wait_for_slave() returns; the slave may have died before it executed.
Ended ==
  /\ pc \in {"slave", "run"}
  /\ pc' = "umount" /\ k' = 1
  /\ UNCHANGED <<task, argv, env, mounted, table, points, replaced, touched>>

\* umount() succeeds: the path leads to a mount made there, with none in it.
CanUmount(path) ==
  LET n == Reach(path) IN
  /\ n # 0
  /\ table[n].to = path /\ table[n].from \notin Deep
  /\ \A m \in (n + 1)..Len(table) : ~IsPrefix(path, table[m].to)

\* The path of the bind leads where the program wants.
Moved(path) == Above(path) \cap replaced # {}

\* Mutant: a umount() that fails is no error.
UmountTolerant ==
  /\ pc = "umount" /\ k <= Len(task.binds)
  /\ IF k \in mounted /\ CanUmount(ThisBind.to)
     THEN table' = RemoveAt(table, Reach(ThisBind.to))
     ELSE UNCHANGED table
  /\ mounted' = mounted \ {k} /\ k' = k + 1
  /\ UNCHANGED <<pc, task, argv, env, points, replaced, touched>>

\* Bind::umount_if_mounted().  Of a bind that has moved it unmounts some mount
\* of the box, or one that is none of the box's.
Umount ==
  /\ pc = "umount" /\ k <= Len(task.binds)
  /\ \/ k \notin mounted /\ UNCHANGED table
     \/ /\ k \in mounted /\ ~Moved(ThisBind.to) /\ CanUmount(ThisBind.to)
        /\ table' = RemoveAt(table, Reach(ThisBind.to))
     \/ /\ k \in mounted /\ Moved(ThisBind.to)
        /\ \/ UNCHANGED table
           \/ \E n \in DOMAIN table :
                /\ CanUmount(table[n].to)
                /\ table' = RemoveAt(table, Reach(table[n].to))
  /\ mounted' = mounted \ {k} /\ k' = k + 1
  /\ UNCHANGED <<pc, task, argv, env, points, replaced, touched>>

UmountFails ==
  /\ pc = "umount" /\ k <= Len(task.binds) /\ k \in mounted
  /\ Moved(ThisBind.to) \/ ~CanUmount(ThisBind.to)
  /\ Dies

ResultsReady ==
  /\ pc = "umount" /\ k > Len(task.binds)
  /\ pc' = "cleanup"
  /\ UNCHANGED <<task, argv, env, k, mounted, table, points, replaced, touched>>

\* The paths below /work and /tmp.
Inside(path) == Len(path) > 1 /\ Head(path) \in {"work", "tmp"}

\* The mounts that fs::remove_all() comes upon.
Left == {n \in DOMAIN table : Inside(table[n].to)}

\* Mutant: only /work is emptied.
CleanupWorkOnly ==
  /\ pc = "cleanup" /\ Left = {}
  /\ pc' = "wait"
  /\ points' = {point \in points : ~(Inside(point[1]) /\ point[1][1] = "work")}
  /\ replaced' = {}
  /\ UNCHANGED <<task, argv, env, k, mounted, table, touched>>

\* cleanup_root().
Cleanup ==
  /\ pc = "cleanup" /\ Left = {}
  /\ pc' = "wait"
  /\ points' = {point \in points : ~Inside(point[1])}
  /\ replaced' = {}
  /\ UNCHANGED <<task, argv, env, k, mounted, table, touched>>

\* fs::remove_all() goes through what is mounted, and cannot remove the mount
\* point.
CleanupFails ==
  /\ pc = "cleanup" /\ Left # {}
  /\ pc' = "dead"
  /\ touched' = touched \cup {table[n].from : n \in Left}
  /\ UNCHANGED <<task, argv, env, k, mounted, table, points, replaced>>

Next ==
  \/ \E t \in Tasks : SetTask(t) \/ SetTaskFails(t)
  \/ MountBind \/ SkipBind \/ MountFails \/ Strays \/ StartSlave
  \/ Execute \/ Program \/ Replace \/ Ended
  \/ Umount \/ UmountFails \/ ResultsReady \/ Cleanup \/ CleanupFails

Spec == Init /\ [][Next]_vars
-----------------------------------------------------------------------------
(* Properties.                                                             *)

\* Two binds of the task, the second at the path of the first or below it.
Nested(i, j) ==
  i # j /\ IsPrefix(task.binds[i].to, task.binds[j].to)

\* The limits that include/libsbox.h gives for an environment.
WithinLimits(t) == t.env.count <= ENVC_MAX /\ t.env.size <= ENV_MAX

\* The path is in a mount that prepare_root() made.
InStandard(path) == \E n \in DOMAIN Standard : IsPrefix(Standard[n].to, path)

\* The program of the task has replaced a directory above one of its binds.
ProgramInTheWay == \E i \in DOMAIN task.binds : Moved(task.binds[i].to)

\* No bind of a task is in the box of the next: when the container waits, the
\* mounts are those of prepare_root(), and when it empties the box, too, unless
\* the program has replaced a directory above a bind.  A container that does
\* not get rid of a bind does not come to wait again.
NoMountOutlivesTask ==
  /\ pc = "wait" => table = Standard
  /\ pc = "cleanup" => table = Standard \/ ProgramInTheWay

\* The container itself changes nothing outside the box, although it makes
\* mount points and removes all there is in /work and /tmp, with four
\* exceptions, which the code does not look for: a path that leads out of the
\* box; a bind below a mount of prepare_root(); one at or below another bind,
\* whose source is written to, or leads out of the box; and binds that are not
\* undone, for a directory the program has replaced.
SourcesKept ==
  [][\A s \in touched' \ touched :
       \E j \in DOMAIN task.binds :
         \/ task.binds[j].to = Out
         \/ InStandard(task.binds[j].to)
         \/ \E i \in DOMAIN task.binds :
              Nested(i, j) /\ (task.binds[i].from = s \/ pc' = "lost")
         \/ task.binds[j].from = s /\ ProgramInTheWay]_vars

\* A task with binds in /work and /tmp ends its container, and the worker with
\* it, or leads it out of the box, only by what it asks for itself: too much, a
\* source that cannot be bound or has mounts below it, a path that leads out of
\* the box, or two binds one of which is at or below the other; or by what its
\* own program does to a directory above a bind.  What earlier tasks and their
\* programs did is no reason.
DeathIsOfItsOwn ==
  /\ pc \in {"dead", "lost"}
  /\ \A i \in DOMAIN task.binds :
       Inside(task.binds[i].to) \/ task.binds[i].to = Out
  => \/ ~Accepted(task)
     \/ \E i \in DOMAIN task.binds :
          \/ task.binds[i].from \in Deep
          \/ task.binds[i].to = Out
          \/ KindOf[task.binds[i].from] \in {"other", "relative"}
          \/ KindOf[task.binds[i].from] = "absent" /\ ~task.binds[i].optional
     \/ \E i, j \in DOMAIN task.binds : Nested(i, j)
     \/ ProgramInTheWay

\* An environment within the limits of include/libsbox.h fits in the task
\* data, with the PATH the slave adds to it: env is PlainStringVector
\* <ENVC_MAX + 1, ENV_MAX + 1024>, and the daemon's PATH is not longer than
\* that; and the arguments fit whatever set_task() lets pass.
TaskDataFits ==
  /\ argv.items <= ARGC_MAX + 1 /\ argv.data <= ARGV_MAX + ARGC_MAX
  /\ WithinLimits(task) /\ PATH <= RESERVE /\ pc # "dead" =>
       /\ env.items <= ENVC_MAX + 2
       /\ env.data <= ENV_MAX + RESERVE + ENVC_MAX + 1
=============================================================================
