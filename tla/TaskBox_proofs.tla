--------------------------- MODULE TaskBox_proofs ---------------------------
(***************************************************************************)
(* The data of successive tasks in one container, for any tasks, paths,    *)
(* mounts and limits: TaskDataFits, NoMountOutlivesTask, SourcesKept and   *)
(* DeathIsOfItsOwn hold of TaskBox.                                        *)
(*                                                                         *)
(* The last three need BindsInv.  Either all is Whole: above the standard  *)
(* mounts the table has one mount for each bind that is marked as mounted, *)
(* at its path or moved as the bind has, in any order (two binds at one    *)
(* path are unmounted in the opposite order).  Or a mount is Stuck: an     *)
(* umount() of a bind that has moved hit something else, and from then on  *)
(* there are more mounts that have moved than binds that will look for     *)
(* one, so that the box is not emptied.                                    *)
(***************************************************************************)
EXTENDS TaskBox, FiniteSetTheorems, SequenceTheorems, WellFoundedInduction,
        TLAPS

\* A nonempty set of numbers with a bound has a greatest one.
LEMMA GreatestExists ==
  ASSUME NEW N \in Nat, NEW S \in SUBSET (0..N), S # {}
  PROVE  /\ Max(S) \in S
         /\ \A y \in S : Max(S) >= y
<1> DEFINE Greater(x) == {y \in S : y > x}
           T == {Greater(x) : x \in S}
<1>1. IsFiniteSet(S)
  <2>1. IsFiniteSet(0..N)
    BY FS_Interval
  <2> QED
    BY <2>1, FS_Subset
<1>2. T \subseteq FiniteSubsetsOf(S) /\ T # {}
  <2>1. ASSUME NEW x \in S  PROVE Greater(x) \in FiniteSubsetsOf(S)
    <3>1. Greater(x) \in SUBSET S
      OBVIOUS
    <3>2. IsFiniteSet(Greater(x))
      BY <1>1, <3>1, FS_Subset
    <3> QED
      BY <3>1, <3>2 DEF FiniteSubsetsOf
  <2>2. T # {}
    OBVIOUS
  <2> QED
    BY <2>1, <2>2
<1>3. IsWellFoundedOn(StrictSubsetOrdering(S), FiniteSubsetsOf(S))
  BY FS_StrictSubsetOrderingWellFounded
<1> HIDE DEF T
<1>4. PICK t \in T : \A u \in T : ~(<<u, t>> \in StrictSubsetOrdering(S))
  BY <1>2, <1>3, WFMin
<1>5. PICK x \in S : t = Greater(x)
  BY DEF T
<1>6. ASSUME NEW y \in S, y > x  PROVE FALSE
  <2>1. Greater(y) \in T
    BY DEF T
  <2>2. Greater(y) \subseteq t /\ y \in t /\ y \notin Greater(y)
    <3>1. \A z \in S : z \in 0..N
      OBVIOUS
    <3>2. \A z \in S : z > y => z > x
      BY <1>6, <3>1
    <3>3. ~(y > y)
      BY <1>6, <3>1
    <3> QED
      BY <1>5, <1>6, <3>2, <3>3
  <2>3. <<Greater(y), t>> \in StrictSubsetOrdering(S)
    <3> HIDE DEF Greater
    <3>1. Greater(y) # t
      BY <2>2
    <3>2. Greater(y) \in SUBSET S /\ t \in SUBSET S
      BY <1>5 DEF Greater
    <3> QED
      BY <2>2, <3>1, <3>2 DEF StrictSubsetOrdering
  <2> QED
    BY <1>4, <2>1, <2>3
<1>7. \A y \in S : x >= y
  BY <1>6
<1> QED
  BY <1>7 DEF Max

\* Reach is 0, or a mount at the path or above it, and none of those is later.
LEMMA ReachFacts ==
  ASSUME TypeOK, NEW path
  PROVE  /\ Reach(path) \in 0..Len(table)
         /\ Reach(path) # 0 =>
              Reach(path) \in DOMAIN table /\ IsPrefix(table[Reach(path)].to, path)
         /\ \A n \in DOMAIN table :
              IsPrefix(table[n].to, path) => Reach(path) >= n
<1> DEFINE S == {0} \cup {n \in DOMAIN table : IsPrefix(table[n].to, path)}
<1>1. Len(table) \in Nat /\ DOMAIN table = 1..Len(table)
  BY DEF TypeOK
<1>2. S \in SUBSET (0..Len(table)) /\ S # {}
  BY <1>1
<1>3. Max(S) \in S /\ \A y \in S : Max(S) >= y
  BY <1>1, <1>2, GreatestExists
<1> QED
  BY <1>1, <1>2, <1>3 DEF Reach

LEMMA MountsOfTable ==
  ASSUME TypeOK
  PROVE  \A n \in DOMAIN table : table[n].to \in Path /\ table[n].from \in Sources
<1>1. table \in Seq(Mount)
  BY DEF TypeOK
<1>2. \A n \in DOMAIN table : table[n] \in Mount
  BY <1>1, LenProperties, ElementOfSeq
<1> QED
  BY <1>2 DEF Mount

\* What filling a vector gives.
LEMMA FilledIsVector ==
  ASSUME NEW s \in Strings
  PROVE  /\ Filled(s) \in Vector
         /\ Filled(s).items = s.count + 1
         /\ Filled(s).data = s.size + s.count
BY DEF Strings, Vector, Filled, Added, Cleared

LEMMA AddedIsVector ==
  ASSUME NEW v \in Vector, NEW n \in Nat, NEW m \in Nat
  PROVE  /\ Added(v, n, m) \in Vector
         /\ Added(v, n, m).items = v.items + n
         /\ Added(v, n, m).data = v.data + m + n
BY DEF Vector, Added
-----------------------------------------------------------------------------
(* Types.                                                                  *)

LEMMA TypeInit ==
  ASSUME Init  PROVE TypeOK
<1> USE StandardAssumption, NamesAssumption DEF Init
<1>1. NoStrings \in Strings
  BY DEF NoStrings, Strings
<1>2. task \in Task /\ Len(task.binds) = 0
  BY <1>1 DEF Task
<1>3. argv \in Vector /\ env \in Vector
  BY <1>1, FilledIsVector
<1>4. points \subseteq Path \X Kind
  <2>1. <<"work">> \in Path /\ <<"tmp">> \in Path
    BY DEF Path
  <2>2. \A n \in DOMAIN Standard : Standard[n] \in Mount
    BY LenProperties, ElementOfSeq
  <2>3. \A n \in DOMAIN Standard : Standard[n].to \in Path
    BY <2>2 DEF Mount
  <2> QED
    BY <2>1, <2>3 DEF Kind
<1> QED
  BY <1>2, <1>3, <1>4 DEF TypeOK

\* A point made for a bind has a path and a kind.
LEMMA AboveArePaths ==
  ASSUME NEW path \in Path  PROVE Above(path) \subseteq Path
<1>1. path \in Seq(Names) /\ Len(path) \in Nat
  BY DEF Path
<1>2. ASSUME NEW n \in 1..(Len(path) - 1)  PROVE SubSeq(path, 1, n) \in Path
  <2>1. \A i \in 1..n : path[i] \in Names
    BY <1>1
  <2>2. SubSeq(path, 1, n) \in Seq(Names) /\ Len(SubSeq(path, 1, n)) = n
    BY <1>1, <2>1, SubSeqProperties
  <2> QED
    BY <2>2, EmptySeq DEF Path
<1> QED
  BY <1>2 DEF Above

LEMMA SetTaskType ==
  ASSUME TypeOK, NEW t \in Tasks, SetTask(t) \/ SetTaskFails(t)
  PROVE  TypeOK'
<1> USE TasksAssumption DEF TypeOK
<1>1. t \in Task
  OBVIOUS
<1>2. t.argv \in Strings /\ t.env \in Strings /\ Len(t.binds) \in Nat
  BY <1>1 DEF Task
<1>3. Filled(t.argv) \in Vector /\ Filled(t.env) \in Vector
  BY <1>2, FilledIsVector
<1>4. CASE SetTask(t)
  BY <1>1, <1>2, <1>3, <1>4 DEF SetTask
<1>5. CASE SetTaskFails(t)
  BY <1>1, <1>2, <1>5 DEF SetTaskFails
<1> QED
  BY <1>4, <1>5

LEMMA MountType ==
  ASSUME TypeOK, MountBind  PROVE TypeOK'
<1> DEFINE bind == task.binds[k]
           kind == KindOf[bind.from]
<1>1. /\ Len(task.binds) \in Nat /\ k \in 1..Len(task.binds)
      /\ bind \in Bind
  BY DEF TypeOK, MountBind, Task
<1>2. bind.to \in Path /\ bind.from \in Sources /\ kind \in Kind
  BY <1>1 DEF Bind, MountBind, ThisBind
<1>3. points' \subseteq Path \X Kind
  <2>1. MakePoint(bind.to, kind)
    BY DEF MountBind, ThisBind
  <2> QED
    BY <1>2, <2>1, AboveArePaths DEF MakePoint, TypeOK, Kind
<1>4. touched' \subseteq Sources
  <2>1. MakePoint(bind.to, kind)
    BY DEF MountBind, ThisBind
  <2>2. CASE Reach(bind.to) = 0
    BY <2>1, <2>2 DEF MakePoint, TypeOK
  <2>3. CASE Reach(bind.to) # 0
    <3>1. Reach(bind.to) \in DOMAIN table
      BY <1>2, <2>3, ReachFacts
    <3>2. table[Reach(bind.to)].from \in Sources
      BY <3>1, MountsOfTable
    <3> QED
      BY <2>1, <2>3, <3>2 DEF MakePoint, TypeOK
  <2> QED
    BY <2>2, <2>3
<1>5. table' \in Seq(Mount)
  <2>1. [to |-> bind.to, from |-> bind.from] \in Mount
    BY <1>2 DEF Mount
  <2> QED
    BY <2>1 DEF MountBind, ThisBind, TypeOK
<1> QED
  BY <1>1, <1>3, <1>4, <1>5 DEF MountBind, TypeOK

\* A mount taken out of the table: the later ones move down by one.
LEMMA RemoveAtFacts ==
  ASSUME NEW S, NEW s \in Seq(S), NEW j \in 1..Len(s)
  PROVE  /\ RemoveAt(s, j) \in Seq(S)
         /\ Len(RemoveAt(s, j)) = Len(s) - 1
         /\ \A n \in 1..(Len(s) - 1) :
              RemoveAt(s, j)[n] = IF n < j THEN s[n] ELSE s[n + 1]
<1> DEFINE left == SubSeq(s, 1, j - 1)
           right == SubSeq(s, j + 1, Len(s))
<1>1. Len(s) \in Nat /\ \A i \in 1..Len(s) : s[i] \in S
  OBVIOUS
<1>2. /\ left \in Seq(S) /\ Len(left) = j - 1
      /\ \A i \in 1..(j - 1) : left[i] = s[i]
  <2>1. \A i \in 1..(j - 1) : s[i] \in S
    BY <1>1
  <2> QED
    BY <1>1, <2>1, SubSeqProperties
<1>3. /\ right \in Seq(S) /\ Len(right) = Len(s) - j
      /\ \A i \in 1..(Len(s) - j) : right[i] = s[j + i]
  <2>1. \A i \in (j + 1)..Len(s) : s[i] \in S
    BY <1>1
  <2>2. /\ right \in Seq(S)
        /\ Len(right) = IF j + 1 <= Len(s) THEN Len(s) - (j + 1) + 1 ELSE 0
        /\ \A i \in 1..(Len(s) - (j + 1) + 1) : right[i] = s[(j + 1) + i - 1]
    BY <1>1, <2>1, SubSeqProperties
  <2> QED
    BY <1>1, <2>2
<1> HIDE DEF left, right
<1>4. /\ left \o right \in Seq(S)
      /\ Len(left \o right) = Len(left) + Len(right)
      /\ \A i \in 1..(Len(left) + Len(right)) :
           (left \o right)[i] = IF i <= Len(left) THEN left[i]
                                ELSE right[i - Len(left)]
  BY <1>2, <1>3, ConcatProperties
<1>5. RemoveAt(s, j) = left \o right
  BY DEF RemoveAt, left, right
<1>6. ASSUME NEW n \in 1..(Len(s) - 1)
      PROVE  (left \o right)[n] = IF n < j THEN s[n] ELSE s[n + 1]
  <2>1. CASE n < j
    <3>1. n \in 1..(j - 1) /\ n <= j - 1 /\ n \in 1..((j - 1) + (Len(s) - j))
      BY <1>1, <2>1
    <3>2. (left \o right)[n] = left[n]
      BY <1>2, <1>3, <1>4, <3>1
    <3> QED
      BY <1>2, <2>1, <3>1, <3>2
  <2>2. CASE n >= j
    <3>1. /\ n - (j - 1) \in 1..(Len(s) - j) /\ ~(n <= j - 1)
          /\ n \in 1..((j - 1) + (Len(s) - j))
      BY <1>1, <2>2
    <3>2. (left \o right)[n] = right[n - (j - 1)]
      BY <1>1, <1>2, <1>3, <1>4, <3>1
    <3>3. right[n - (j - 1)] = s[j + (n - (j - 1))]
      BY <1>3, <3>1
    <3>4. j + (n - (j - 1)) = n + 1
      OBVIOUS
    <3> QED
      BY <2>2, <3>2, <3>3, <3>4
  <2>3. n < j \/ n >= j
    BY <1>1
  <2> QED
    BY <2>1, <2>2, <2>3
<1>7. Len(left) + Len(right) = Len(s) - 1
  BY <1>1, <1>2, <1>3
<1> QED
  BY <1>4, <1>5, <1>6, <1>7

\* What a umount() does with the table: nothing, or it takes out the mount that
\* the path leads to, or any other, if the path has moved.
LEMMA UmountFacts ==
  ASSUME TypeOK, Umount
  PROVE  \/ k \notin mounted /\ UNCHANGED table
         \/ k \in mounted /\ Moved(ThisBind.to) /\ UNCHANGED table
         \/ /\ k \in mounted
            /\ \E j \in 1..Len(table) :
                 /\ table' = RemoveAt(table, j)
                 /\ \/ Moved(ThisBind.to)
                    \/ /\ ~Moved(ThisBind.to) /\ CanUmount(ThisBind.to)
                       /\ j = Reach(ThisBind.to)
<1>1. DOMAIN table = 1..Len(table)
  BY DEF TypeOK
<1>2. ASSUME NEW path, CanUmount(path)  PROVE Reach(path) \in 1..Len(table)
  <2>1. Reach(path) # 0
    BY <1>2 DEF CanUmount
  <2> QED
    BY <1>1, <2>1, ReachFacts
<1>3. CASE k \notin mounted /\ UNCHANGED table
  BY <1>3
<1>4. CASE /\ k \in mounted /\ ~Moved(ThisBind.to) /\ CanUmount(ThisBind.to)
           /\ table' = RemoveAt(table, Reach(ThisBind.to))
  BY <1>2, <1>4
<1>5. CASE k \in mounted /\ Moved(ThisBind.to) /\ UNCHANGED table
  BY <1>5
<1>6. ASSUME k \in mounted, Moved(ThisBind.to), NEW n \in DOMAIN table,
             CanUmount(table[n].to), table' = RemoveAt(table, Reach(table[n].to))
      PROVE  \E j \in 1..Len(table) : table' = RemoveAt(table, j)
  BY <1>2, <1>6
<1> QED
  BY <1>3, <1>4, <1>5, <1>6 DEF Umount

LEMMA UmountType ==
  ASSUME TypeOK, Umount  PROVE TypeOK'
<1>1. /\ Len(task.binds) \in Nat /\ k \in 1..Len(task.binds)
  BY DEF TypeOK, Umount, Task
<1>2. table' \in Seq(Mount)
  <2>1. UNCHANGED table \/ \E j \in 1..Len(table) : table' = RemoveAt(table, j)
    BY UmountFacts
  <2> QED
    BY <2>1, RemoveAtFacts DEF TypeOK
<1> QED
  BY <1>1, <1>2 DEF Umount, TypeOK

LEMMA ReplaceType ==
  ASSUME TypeOK, Replace  PROVE TypeOK'
<1>1. PICK n \in DOMAIN table :
        \E path \in Above(table[n].to) : replaced' = replaced \cup {path}
  BY DEF Replace
<1>2. Above(table[n].to) \subseteq Path
  BY AboveArePaths, MountsOfTable
<1> QED
  BY <1>1, <1>2 DEF Replace, TypeOK

LEMMA TypeStep ==
  ASSUME TypeOK, [Next]_vars  PROVE TypeOK'
<1>1. CASE UNCHANGED vars
  BY <1>1 DEF TypeOK, vars
<1>2. CASE \E t \in Tasks : SetTask(t) \/ SetTaskFails(t)
  BY <1>2, SetTaskType
<1>3. CASE MountBind
  BY <1>3, MountType
<1>4. CASE SkipBind
  BY <1>4 DEF SkipBind, TypeOK, Task
<1>5. CASE MountFails \/ UmountFails \/ Strays
  BY <1>5 DEF MountFails, UmountFails, Dies, Strays, TypeOK
<1>6. CASE StartSlave
  BY <1>6 DEF StartSlave, TypeOK
<1>7. CASE Execute
  <2>1. Added(env, 1, PATH) \in Vector
    BY LimitsAssumption, AddedIsVector DEF TypeOK
  <2> QED
    BY <1>7, <2>1 DEF Execute, TypeOK
<1>8. CASE Program
  <2>1. PICK path \in Scratch, kind \in Kind :
          points' = points \cup {<<path, kind>>}
    BY <1>8 DEF Program
  <2>2. points' \subseteq Path \X Kind
    BY <2>1, StandardAssumption DEF TypeOK
  <2> QED
    BY <1>8, <2>2 DEF Program, TypeOK
<1>9. CASE Ended
  <2>1. Len(task.binds) \in Nat
    BY DEF TypeOK, Task
  <2> QED
    BY <1>9, <2>1 DEF Ended, TypeOK
<1>10. CASE Umount
  BY <1>10, UmountType
<1>11. CASE ResultsReady
  BY <1>11 DEF ResultsReady, TypeOK
<1>12. CASE Cleanup
  BY <1>12 DEF Cleanup, TypeOK
<1>13. CASE CleanupFails
  <2>1. \A n \in DOMAIN table : table[n].from \in Sources
    BY MountsOfTable
  <2>2. touched' \subseteq Sources
    BY <1>13, <2>1 DEF CleanupFails, Left, TypeOK
  <2> QED
    BY <1>13, <2>2 DEF CleanupFails, TypeOK
<1>14. CASE Replace
  BY <1>14, ReplaceType
<1> QED
  BY <1>1, <1>2, <1>3, <1>4, <1>5, <1>6, <1>7, <1>8, <1>9, <1>10, <1>11, <1>12,
     <1>13, <1>14 DEF Next

\* The model is well typed, whatever the tasks.
THEOREM TypeCorrect == Spec => []TypeOK
BY TypeInit, TypeStep, PTL DEF Spec
-----------------------------------------------------------------------------
(* The task data.                                                          *)

\* The arguments are within their limits, and the environment is the current
\* task's, with PATH once the slave has added it.
DataInv ==
  /\ argv.items <= ARGC_MAX + 1 /\ argv.data <= ARGV_MAX + ARGC_MAX
  /\ pc # "dead" =>
       \/ env = Filled(task.env)
       \/ env = Added(Filled(task.env), 1, PATH) /\ pc \notin {"mount", "slave"}

LEMMA DataInit ==
  ASSUME Init  PROVE DataInv
<1>1. NoStrings \in Strings
  BY DEF NoStrings, Strings
<1>2. argv.items = 1 /\ argv.data = 0
  BY <1>1, FilledIsVector DEF Init, NoStrings
<1> QED
  BY <1>2, LimitsAssumption DEF Init, DataInv

LEMMA DataStep ==
  ASSUME TypeOK, DataInv, [Next]_vars  PROVE DataInv'
<1> USE DEF DataInv
<1>1. CASE UNCHANGED vars
  BY <1>1 DEF vars
<1>2. ASSUME NEW t \in Tasks, SetTask(t)  PROVE DataInv'
  <2>1. t.argv \in Strings /\ t \in Task
    BY TasksAssumption DEF Task
  <2>2. /\ argv'.items = t.argv.count + 1
        /\ argv'.data = t.argv.size + t.argv.count
    BY <1>2, <2>1, FilledIsVector DEF SetTask
  <2>3. t.argv.count <= ARGC_MAX /\ t.argv.size <= ARGV_MAX
    BY <1>2 DEF SetTask, Accepted
  <2>4. t.argv.count \in Nat /\ t.argv.size \in Nat
    BY <2>1 DEF Strings
  <2>5. argv'.items <= ARGC_MAX + 1 /\ argv'.data <= ARGV_MAX + ARGC_MAX
    BY <2>2, <2>3, <2>4, LimitsAssumption
  <2> QED
    BY <1>2, <2>5 DEF SetTask
<1>3. ASSUME NEW t \in Tasks, SetTaskFails(t)  PROVE DataInv'
  BY <1>3 DEF SetTaskFails
<1>4. CASE MountBind
  BY <1>4 DEF MountBind
<1>5. CASE SkipBind
  BY <1>5 DEF SkipBind
<1>6. CASE MountFails \/ UmountFails
  BY <1>6 DEF MountFails, UmountFails, Dies
<1>7. CASE StartSlave
  BY <1>7 DEF StartSlave
<1>8. CASE Execute
  BY <1>8 DEF Execute
<1>9. CASE Program
  BY <1>9 DEF Program
<1>10. CASE Ended
  BY <1>10 DEF Ended
<1>11. CASE Umount
  BY <1>11 DEF Umount
<1>12. CASE ResultsReady
  BY <1>12 DEF ResultsReady
<1>13. CASE Cleanup
  BY <1>13 DEF Cleanup
<1>14. CASE CleanupFails
  BY <1>14 DEF CleanupFails
<1>15. CASE Strays
  BY <1>15 DEF Strays
<1>16. CASE Replace
  BY <1>16 DEF Replace
<1> QED
  BY <1>1, <1>2, <1>3, <1>4, <1>5, <1>6, <1>7, <1>8, <1>9, <1>10, <1>11, <1>12,
     <1>13, <1>14, <1>15, <1>16 DEF Next

LEMMA DataInvFits ==
  ASSUME TypeOK, DataInv  PROVE TaskDataFits
<1> SUFFICES ASSUME WithinLimits(task), PATH <= RESERVE, pc # "dead"
             PROVE  /\ env.items <= ENVC_MAX + 2
                    /\ env.data <= ENV_MAX + RESERVE + ENVC_MAX + 1
  BY DEF TaskDataFits, DataInv
<1> DEFINE base == Filled(task.env)
<1>1. task.env \in Strings
  BY DEF TypeOK, Task
<1>2. /\ task.env.count \in Nat /\ task.env.size \in Nat
      /\ task.env.count <= ENVC_MAX /\ task.env.size <= ENV_MAX
  BY <1>1 DEF Strings, WithinLimits
<1>3. /\ base \in Vector /\ base.items = task.env.count + 1
      /\ base.data = task.env.size + task.env.count
  BY <1>1, FilledIsVector
<1> HIDE DEF base
<1>4. CASE env = base
  BY <1>2, <1>3, <1>4, LimitsAssumption
<1>5. CASE env = Added(base, 1, PATH)
  <2>1. env.items = base.items + 1 /\ env.data = base.data + PATH + 1
    BY <1>3, <1>5, LimitsAssumption, AddedIsVector
  <2> QED
    BY <1>2, <1>3, <2>1, LimitsAssumption
<1> QED
  BY <1>4, <1>5 DEF DataInv, base

\* The task data never holds more than it has room for: the arguments in any
\* case, the environment of a task within the limits with PATH added to it.
THEOREM TaskDataAlwaysFits == Spec => []TaskDataFits
<1>1. Init => TypeOK /\ DataInv
  BY TypeInit, DataInit
<1>2. (TypeOK /\ DataInv) /\ [Next]_vars => (TypeOK /\ DataInv)'
  BY TypeStep, DataStep
<1>3. TypeOK /\ DataInv => TaskDataFits
  BY DataInvFits
<1> QED
  BY <1>1, <1>2, <1>3, PTL DEF Spec
-----------------------------------------------------------------------------
(* The binds.                                                              *)

\* The mount at n is that of bind i, or one that has moved as i has.
Own(i, n) ==
  \/ table[n].to = task.binds[i].to
  \/ Moved(task.binds[i].to) /\ Moved(table[n].to)

\* f finds the mount of each bind that is marked.
Places(f) ==
  /\ f \in [mounted -> (Len(Standard) + 1)..Len(table)]
  /\ \A i, j \in mounted : f[i] = f[j] => i = j
  /\ \A n \in (Len(Standard) + 1)..Len(table) : \E i \in mounted : f[i] = n
  /\ \A i \in mounted : Own(i, f[i])

\* All that is mounted is to be unmounted: nothing else was in the place of a
\* bind.
Whole ==
  /\ Len(table) >= Len(Standard)
  /\ \A n \in 1..Len(Standard) : table[n] = Standard[n]
  /\ \E f : Places(f)

\* The binds that have moved.
Astray == {i \in mounted : Moved(task.binds[i].to)}

\* h finds a mount that has moved for each of them, and one more.
Sits(h) ==
  /\ h \in [Astray \cup {0} -> 1..Len(table)]
  /\ \A i, j \in Astray \cup {0} : h[i] = h[j] => i = j
  /\ \A i \in Astray \cup {0} : Moved(table[h[i]].to)

\* A mount that has moved will be left.
Stuck == \E h : Sits(h)

BindsInv ==
  pc \notin {"dead", "lost"} =>
    /\ Whole \/ (pc \in {"umount", "cleanup"} /\ Stuck)
    /\ pc = "mount" => \A i \in mounted : i < k
    /\ pc = "umount" => \A i \in mounted : i >= k
    /\ pc \in {"cleanup", "wait"} => mounted = {}

\* The mounts are those of prepare_root() and of the binds of the task, when
\* binds are made of the earlier ones.
MadeInv ==
  pc \notin {"dead", "lost"} =>
    \A n \in DOMAIN table :
      \/ \E m \in DOMAIN Standard : table[n] = Standard[m]
      \/ \E i \in DOMAIN task.binds :
           /\ table[n].to = task.binds[i].to /\ table[n].from = task.binds[i].from
           /\ pc = "mount" => i < k

\* What the program has replaced is in /tmp, and above a bind of its task.
WayInv ==
  /\ \A p \in replaced : Head(p) = "tmp"
  /\ pc \in {"wait", "mount", "slave"} => replaced = {}
  /\ pc \notin {"dead", "lost"} /\ replaced # {} => ProgramInTheWay

LEMMA Lengths ==
  ASSUME TypeOK
  PROVE  /\ Len(Standard) \in Nat /\ Len(table) \in Nat
         /\ DOMAIN table = 1..Len(table)
         /\ Len(task.binds) \in Nat /\ k \in 1..(Len(task.binds) + 1)
         /\ mounted \subseteq 1..Len(task.binds)
         /\ DOMAIN task.binds = 1..Len(task.binds)
         /\ DOMAIN Standard = 1..Len(Standard)
BY StandardAssumption DEF TypeOK, Task

\* Paths one of which is above the other begin with the same name.
LEMMA PrefixHead ==
  ASSUME NEW p \in Path, NEW q \in Path, IsPrefix(p, q)
  PROVE  Head(p) = Head(q)
<1>1. /\ p \in Seq(Names) /\ q \in Seq(Names)
      /\ Len(p) \in Nat \ {0} /\ Len(q) \in Nat \ {0} /\ Len(p) <= Len(q)
  BY EmptySeq, LenProperties DEF Path, IsPrefix
<1>2. \A i \in 1..Len(p) : p[i] \in Names /\ q[i] \in Names
  BY <1>1
<1>3. SubSeq(p, 1, Len(p))[1] = p[1] /\ SubSeq(q, 1, Len(p))[1] = q[1]
  BY <1>1, <1>2, SubSeqProperties
<1> QED
  BY <1>1, <1>3 DEF IsPrefix, Path

\* What is above a path.
LEMMA AboveFacts ==
  ASSUME NEW path \in Path, NEW p \in Above(path)
  PROVE  /\ p \in Path /\ IsPrefix(p, path) /\ Head(p) = Head(path)
         /\ p # path /\ Len(path) > 1
<1>1. p \in Path
  BY AboveArePaths
<1>2. PICK n \in 1..(Len(path) - 1) : p = SubSeq(path, 1, n)
  BY DEF Above
<1>3. path \in Seq(Names) /\ Len(path) \in Nat /\ p \in Seq(Names)
  BY <1>1 DEF Path
<1>4. Len(p) = n
  BY <1>2, <1>3, SubSeqProperties
<1>5. SubSeq(p, 1, Len(p)) = p
  BY <1>3, SubSeqFull
<1>6. IsPrefix(p, path)
  BY <1>2, <1>3, <1>4, <1>5 DEF IsPrefix
<1>7. Head(p) = Head(path)
  BY <1>1, <1>6, PrefixHead
<1>8. Len(p) # Len(path) /\ Len(path) > 1
  BY <1>3, <1>4
<1> QED
  BY <1>1, <1>6, <1>7, <1>8

\* A mount of prepare_root() is neither in /work nor in /tmp.
LEMMA StandardPlaces ==
  ASSUME NEW m \in DOMAIN Standard
  PROVE  /\ Standard[m].to \in Path /\ Head(Standard[m].to) \notin {"work", "tmp"}
         /\ ~Inside(Standard[m].to)
<1>1. Standard[m] \in Mount
  BY StandardAssumption, ElementOfSeq, LenProperties
<1> QED
  BY <1>1, StandardAssumption DEF Mount, Inside

\* What has moved is in /tmp.
LEMMA MovedIsInside ==
  ASSUME WayInv, NEW path \in Path, Moved(path)
  PROVE  Inside(path) /\ Head(path) = "tmp" /\ replaced # {}
<1>1. PICK p \in Above(path) : p \in replaced
  BY DEF Moved
<1>2. Head(p) = Head(path) /\ Len(path) > 1
  BY <1>1, AboveFacts
<1> QED
  BY <1>1, <1>2 DEF WayInv, Inside

\* The binds of a task, one by one.
LEMMA BindTypes ==
  ASSUME TypeOK
  PROVE  /\ DOMAIN task.binds = 1..Len(task.binds)
         /\ \A i \in DOMAIN task.binds : task.binds[i] \in Bind
         /\ \A i \in DOMAIN task.binds : /\ task.binds[i].to \in Path \cup {Out}
                                         /\ task.binds[i].from \in Sources
<1>1. task.binds \in Seq(Bind)
  BY DEF TypeOK, Task
<1>2. \A i \in DOMAIN task.binds : task.binds[i] \in Bind
  BY <1>1, ElementOfSeq, LenProperties
<1> QED
  BY <1>1, <1>2, LenProperties DEF Bind

LEMMA PrefixReflexive ==
  ASSUME NEW p \in Path  PROVE IsPrefix(p, p)
BY DEF Path, IsPrefix

LEMMA BindsInit ==
  ASSUME Init  PROVE BindsInv /\ MadeInv /\ WayInv
<1>1. Len(Standard) \in Nat /\ DOMAIN Standard = 1..Len(Standard)
  BY StandardAssumption
<1>2. Places([i \in {} |-> 0])
  BY <1>1 DEF Init, Places
<1>3. BindsInv
  BY <1>1, <1>2 DEF Init, BindsInv, Whole
<1>4. MadeInv /\ WayInv
  BY <1>1 DEF Init, MadeInv, WayInv
<1> QED
  BY <1>3, <1>4

\* A step that leaves the binds alone.
LEMMA BindsKept ==
  ASSUME BindsInv, UNCHANGED <<table, mounted, task, replaced>>,
         pc \notin {"dead", "lost"}, pc' \notin {"dead", "lost"},
         pc \in {"umount", "cleanup"} => pc' \in {"umount", "cleanup"},
         pc' = "mount" => \A i \in mounted : i < k',
         pc' = "umount" => \A i \in mounted : i >= k',
         pc' \in {"cleanup", "wait"} => mounted = {}
  PROVE  BindsInv'
<1>1. CASE Whole
  <2>1. PICK f : Places(f)
    BY <1>1 DEF Whole
  <2>2. Places(f)'
    BY <2>1 DEF Places, Own, Moved
  <2> QED
    BY <1>1, <2>2 DEF BindsInv, Whole
<1>2. CASE pc \in {"umount", "cleanup"} /\ Stuck
  <2>1. PICK h : Sits(h)
    BY <1>2 DEF Stuck
  <2>2. Sits(h)'
    BY <2>1 DEF Sits, Astray, Moved
  <2> QED
    BY <1>2, <2>2 DEF BindsInv, Stuck
<1> QED
  BY <1>1, <1>2 DEF BindsInv

LEMMA SetTaskBinds ==
  ASSUME TypeOK, BindsInv, NEW t \in Tasks, SetTask(t)
  PROVE  BindsInv'
<1>1. mounted = {} /\ mounted' = {} /\ pc' = "mount" /\ pc = "wait"
  BY DEF SetTask, BindsInv
<1>2. PICK f : Places(f)
  BY <1>1 DEF BindsInv, Whole
<1>3. Places(f)'
  BY <1>1, <1>2 DEF Places, SetTask
<1> QED
  BY <1>1, <1>3 DEF BindsInv, Whole, SetTask

\* Where the program replaces something, its binds have their mounts.
LEMMA ReplaceBinds ==
  ASSUME TypeOK, BindsInv, Replace
  PROVE  BindsInv'
<1>1. PICK f : Places(f)
  BY DEF BindsInv, Whole, Replace
<1>2. UNCHANGED <<pc, table, mounted, task>> /\ replaced \subseteq replaced'
  BY DEF Replace
<1>3. \A path : Moved(path) => Moved(path)'
  BY <1>2 DEF Moved
<1>4. \A i \in mounted : Own(i, f[i])'
  <2> TAKE i \in mounted
  <2>1. CASE table[f[i]].to = task.binds[i].to
    BY <1>2, <2>1 DEF Own
  <2>2. CASE Moved(task.binds[i].to) /\ Moved(table[f[i]].to)
    <3>1. Moved(task.binds[i].to)' /\ Moved(table[f[i]].to)'
      BY <1>2, <2>2 DEF Moved
    <3> QED
      BY <3>1 DEF Own
  <2> QED
    BY <1>1, <2>1, <2>2 DEF Places, Own
<1>5. Places(f)'
  BY <1>1, <1>2, <1>4 DEF Places
<1> QED
  BY <1>2, <1>5 DEF BindsInv, Whole, Replace

\* An empty box has nothing that is stuck.
LEMMA NothingStuck ==
  ASSUME TypeOK, WayInv, Stuck
  PROVE  Left # {} /\ replaced # {}
<1>1. PICK h : Sits(h)
  BY DEF Stuck
<1>2. h[0] \in DOMAIN table /\ Moved(table[h[0]].to)
  BY <1>1, Lengths DEF Sits
<1>3. Inside(table[h[0]].to) /\ replaced # {}
  BY <1>2, MountsOfTable, MovedIsInside
<1> QED
  BY <1>2, <1>3 DEF Left

LEMMA CleanupBinds ==
  ASSUME TypeOK, BindsInv, WayInv, Cleanup
  PROVE  BindsInv'
<1>1. Whole /\ mounted = {}
  BY NothingStuck DEF Cleanup, BindsInv
<1>2. PICK f : Places(f)
  BY <1>1 DEF Whole
<1>3. Places(f)'
  BY <1>1, <1>2 DEF Places, Cleanup
<1> QED
  BY <1>1, <1>3 DEF BindsInv, Whole, Cleanup

\* A bind that is mounted gets the new last place.
LEMMA MountBinds ==
  ASSUME TypeOK, BindsInv, WayInv, MountBind
  PROVE  BindsInv'
<1> DEFINE S == Len(Standard)
           L == Len(table)
           bind == task.binds[k]
<1>1. /\ pc = "mount" /\ pc' = "mount" /\ k' = k + 1 /\ task' = task
      /\ mounted' = mounted \cup {k}
      /\ k \in 1..Len(task.binds)
  BY Lengths DEF MountBind
<1>2. S \in Nat /\ L \in Nat /\ L >= S
  BY <1>1, Lengths DEF BindsInv, Whole
<1>3. bind.to \in Path /\ bind.from \in Sources
  <2>1. task.binds \in Seq(Bind)
    BY DEF TypeOK, Task
  <2>2. bind \in Bind
    BY <1>1, <2>1, ElementOfSeq
  <2> QED
    BY <2>2 DEF Bind, MountBind, ThisBind
<1>4. /\ Len(table') = L + 1 /\ table'[L + 1].to = bind.to
      /\ \A n \in 1..L : table'[n] = table[n]
  <2>1. [to |-> bind.to, from |-> bind.from] \in Mount
    BY <1>3 DEF Mount
  <2>2. table' = Append(table, [to |-> bind.to, from |-> bind.from])
    BY DEF MountBind, ThisBind
  <2>3. table \in Seq(Mount)
    BY DEF TypeOK
  <2>4. /\ Len(table') = L + 1
        /\ table'[L + 1] = [to |-> bind.to, from |-> bind.from]
        /\ \A n \in 1..L : table'[n] = table[n]
    BY <2>1, <2>2, <2>3, AppendProperties
  <2> QED
    BY <2>4
<1>5. k \notin mounted /\ \A i \in mounted : i < k
  BY <1>1, Lengths DEF BindsInv
<1>6. PICK f : Places(f)
  BY <1>1 DEF BindsInv, Whole
<1> DEFINE g == [i \in mounted \cup {k} |-> IF i = k THEN L + 1 ELSE f[i]]
<1> HIDE DEF S, L
<1>7. \A i \in mounted : f[i] \in (S + 1)..L /\ f[i] # L + 1
  BY <1>2, <1>6 DEF Places, S, L
<1>8. \E h : Places(h)'
  <2>1. g \in [mounted' -> (S + 1)..Len(table')]
    BY <1>1, <1>2, <1>4, <1>7
  <2>2. \A i, j \in mounted' : g[i] = g[j] => i = j
    BY <1>1, <1>5, <1>6, <1>7 DEF Places
  <2>3. \A n \in (S + 1)..Len(table') : \E i \in mounted' : g[i] = n
    <3> TAKE n \in (S + 1)..Len(table')
    <3>1. CASE n = L + 1
      BY <1>1, <3>1
    <3>2. CASE n # L + 1
      <4>1. n \in (S + 1)..L
        BY <1>2, <1>4, <3>2
      <4>2. PICK i \in mounted : f[i] = n
        BY <1>6, <4>1 DEF Places, S, L
      <4> QED
        BY <1>1, <1>5, <4>2
    <3> QED
      BY <3>1, <3>2
  <2>4. ASSUME NEW i \in mounted'
        PROVE  \/ table'[g[i]].to = task.binds[i].to
               \/ Moved(task.binds[i].to) /\ Moved(table'[g[i]].to)
    <3>1. CASE i = k
      BY <1>1, <1>4, <3>1 DEF Own
    <3>2. CASE i # k
      <4>1. i \in mounted /\ g[i] = f[i]
        BY <1>1, <3>2
      <4>2. f[i] \in 1..L
        BY <1>2, <1>7, <4>1
      <4>3. table'[f[i]] = table[f[i]] /\ Own(i, f[i])
        BY <1>4, <1>6, <4>1, <4>2 DEF Places
      <4> QED
        BY <4>1, <4>3 DEF Own
    <3> QED
      BY <3>1, <3>2
  <2> HIDE DEF g
  <2>5. PICK h : h = g
    OBVIOUS
  <2>6. Places(h)'
    <3>1. replaced' = replaced
      BY DEF MountBind
    <3>2. \A i \in mounted' : Own(i, h[i])'
      BY <1>1, <2>4, <2>5, <3>1 DEF Own, Moved
    <3> QED
      BY <1>1, <2>1, <2>2, <2>3, <2>5, <3>2 DEF Places, S
  <2> QED
    BY <2>6
<1>9. \A i \in mounted' : i < k'
  BY <1>1, <1>5, Lengths
<1>10. Len(table') >= S /\ \A n \in 1..S : table'[n] = Standard[n]
  BY <1>1, <1>2, <1>4 DEF BindsInv, Whole, S, L
<1> HIDE DEF g
<1> QED
  BY <1>1, <1>8, <1>9, <1>10 DEF BindsInv, Whole, S

\* A place that is left in the table, after the mount at j was taken out.
LEMMA Shift ==
  ASSUME TypeOK, NEW j \in 1..Len(table), table' = RemoveAt(table, j),
         NEW D, NEW place \in [D -> 1..Len(table)], \A i \in D : place[i] # j
  PROVE  /\ Len(table') = Len(table) - 1
         /\ \A i \in D :
              LET n == IF place[i] < j THEN place[i] ELSE place[i] - 1 IN
              n \in 1..Len(table') /\ table'[n] = table[place[i]]
<1> DEFINE L == Len(table)
<1>1. /\ table' \in Seq(Mount) /\ Len(table') = L - 1
      /\ \A n \in 1..(L - 1) :
           table'[n] = IF n < j THEN table[n] ELSE table[n + 1]
  BY RemoveAtFacts DEF TypeOK
<1>2. L \in Nat
  BY Lengths
<1> HIDE DEF L
<1>3. ASSUME NEW i \in D
      PROVE  LET n == IF place[i] < j THEN place[i] ELSE place[i] - 1 IN
             n \in 1..Len(table') /\ table'[n] = table[place[i]]
  <2> DEFINE p == place[i]
  <2>1. p \in 1..L /\ p # j /\ j \in 1..L
    BY DEF L
  <2> HIDE DEF p
  <2>2. CASE p < j
    <3>1. p \in 1..(L - 1)
      BY <1>2, <2>1, <2>2
    <3> QED
      BY <1>1, <2>2, <3>1 DEF p
  <2>3. CASE ~(p < j)
    <3>1. p - 1 \in 1..(L - 1) /\ ~(p - 1 < j) /\ p - 1 + 1 = p
      BY <1>2, <2>1, <2>3
    <3> QED
      BY <1>1, <2>3, <3>1 DEF p
  <2> QED
    BY <2>2, <2>3
<1> QED
  BY <1>1, <1>3 DEF L

\* Places that differ still differ then.
LEMMA ShiftInjective ==
  ASSUME NEW j \in Nat, NEW p \in Nat, NEW q \in Nat, p # j, q # j,
         (IF p < j THEN p ELSE p - 1) = (IF q < j THEN q ELSE q - 1)
  PROVE  p = q
OBVIOUS

\* The mount of another bind is undone in the place of k's: that bind has k's
\* mount from now on.
LEMMA UmountPlaces ==
  ASSUME TypeOK, Whole, NEW f, Places(f), k \in mounted,
         NEW j \in (Len(Standard) + 1)..Len(table), table' = RemoveAt(table, j),
         NEW o \in mounted, f[o] = j, Own(o, f[k]),
         mounted' = mounted \ {k}, UNCHANGED <<task, replaced>>
  PROVE  Whole'
<1> DEFINE S == Len(Standard)
           L == Len(table)
<1>1. S \in Nat /\ L \in Nat /\ L >= S /\ j \in 1..L
  BY Lengths DEF Whole
<1>2. /\ \A i \in mounted : f[i] \in (S + 1)..L
      /\ \A i, m \in mounted : f[i] = f[m] => i = m
      /\ \A n \in (S + 1)..L : \E i \in mounted : f[i] = n
      /\ \A i \in mounted : Own(i, f[i])
  BY DEF Places
<1>3. /\ table' \in Seq(Mount) /\ Len(table') = L - 1
      /\ \A n \in 1..(L - 1) :
           table'[n] = IF n < j THEN table[n] ELSE table[n + 1]
  BY <1>1, RemoveAtFacts DEF TypeOK
<1> HIDE DEF S, L
<1> DEFINE place == [i \in mounted' |-> IF i = o THEN f[k] ELSE f[i]]
           g == [i \in mounted' |->
                   IF place[i] < j THEN place[i] ELSE place[i] - 1]
<1>4. ASSUME NEW i \in mounted'
      PROVE  /\ place[i] \in (S + 1)..L /\ place[i] # j
             /\ Own(i, place[i])
  <2>1. i \in mounted /\ i # k
    OBVIOUS
  <2>2. CASE i = o
    BY <1>2, <2>1, <2>2
  <2>3. CASE i # o
    BY <1>2, <2>1, <2>3
  <2> QED
    BY <2>2, <2>3
<1>5. \A i, m \in mounted' : place[i] = place[m] => i = m
  BY <1>2
<1>6. ASSUME NEW n \in (S + 1)..L, n # j
      PROVE  \E i \in mounted' : place[i] = n
  <2>1. PICK i \in mounted : f[i] = n
    BY <1>2
  <2>2. i # o
    BY <1>6, <2>1
  <2>3. CASE i = k
    <3>1. o \in mounted' /\ place[o] = n
      BY <2>1, <2>2, <2>3
    <3> QED
      BY <3>1
  <2>4. CASE i # k
    BY <2>1, <2>2, <2>4
  <2> QED
    BY <2>3, <2>4
<1> HIDE DEF place
<1>7. \A i \in mounted' :
        /\ g[i] = IF place[i] < j THEN place[i] ELSE place[i] - 1
        /\ place[i] = IF g[i] < j THEN g[i] ELSE g[i] + 1
        /\ g[i] \in (S + 1)..(L - 1)
  <2> TAKE i \in mounted'
  <2>1. place[i] \in (S + 1)..L /\ place[i] # j
    BY <1>4
  <2>2. g[i] = IF place[i] < j THEN place[i] ELSE place[i] - 1
    OBVIOUS
  <2> HIDE DEF g
  <2> QED
    BY <1>1, <2>1, <2>2 DEF S, L
<1>8. g \in [mounted' -> (S + 1)..(L - 1)]
  BY <1>7
<1>9. \A i, m \in mounted' : g[i] = g[m] => i = m
  BY <1>5, <1>7
<1>10. \A n \in (S + 1)..(L - 1) : \E i \in mounted' : g[i] = n
  <2> TAKE n \in (S + 1)..(L - 1)
  <2> DEFINE from == IF n < j THEN n ELSE n + 1
  <2>1. from \in (S + 1)..L /\ from # j
    BY <1>1
  <2>2. PICK i \in mounted' : place[i] = from
    BY <1>6, <2>1
  <2>3. g[i] = IF from < j THEN from ELSE from - 1
    BY <1>7, <2>2
  <2>4. g[i] = n
    BY <1>1, <2>3
  <2> QED
    BY <2>4
<1>11. \A i \in mounted' :
         \/ table'[g[i]].to = task.binds[i].to
         \/ Moved(task.binds[i].to) /\ Moved(table'[g[i]].to)
  <2> TAKE i \in mounted'
  <2>1. g[i] \in 1..(L - 1)
    BY <1>1, <1>7
  <2>2. table'[g[i]] = table[place[i]]
    BY <1>3, <1>7, <2>1
  <2>3. Own(i, place[i])
    BY <1>4
  <2> QED
    BY <2>2, <2>3 DEF Own
<1> HIDE DEF g
<1>12. PICK h : h = g
  OBVIOUS
<1>13. Places(h)'
  <2>1. \A i \in mounted' : Own(i, h[i])'
    BY <1>11, <1>12 DEF Own, Moved
  <2> QED
    BY <1>3, <1>8, <1>9, <1>10, <1>12, <2>1 DEF Places, S
<1>14. Len(table') >= S /\ \A n \in 1..S : table'[n] = Standard[n]
  <2>1. \A n \in 1..S : n \in 1..(L - 1) /\ n < j
    BY <1>1 DEF S, L
  <2>2. \A n \in 1..S : table[n] = Standard[n]
    BY DEF Whole, S
  <2>3. L - 1 >= S
    BY <1>1 DEF S, L
  <2> QED
    BY <1>3, <2>1, <2>2, <2>3
<1> QED
  BY <1>13, <1>14 DEF Whole, S

\* Once k is not counted any more, a mount that has moved is left for every
\* bind that has, and one more, if that was so without the mount at j.
LEMMA UmountStuck ==
  ASSUME TypeOK, NEW j \in 1..Len(table), table' = RemoveAt(table, j),
         mounted' = mounted \ {k}, UNCHANGED <<task, replaced>>,
         NEW place \in [(Astray \ {k}) \cup {0} -> 1..Len(table)],
         \A i, m \in (Astray \ {k}) \cup {0} : place[i] = place[m] => i = m,
         \A i \in (Astray \ {k}) \cup {0} :
           place[i] # j /\ Moved(table[place[i]].to)
  PROVE  Stuck'
<1> DEFINE D == (Astray \ {k}) \cup {0}
           g == [i \in D |-> IF place[i] < j THEN place[i] ELSE place[i] - 1]
<1>1. (Astray \cup {0})' = D
  <2>1. Astray' = Astray \ {k}
    BY DEF Astray, Moved
  <2> QED
    BY <2>1
<1>2. /\ Len(table') = Len(table) - 1
      /\ \A i \in D :
           LET n == IF place[i] < j THEN place[i] ELSE place[i] - 1 IN
           n \in 1..Len(table') /\ table'[n] = table[place[i]]
  BY Shift
<1>3. g \in [D -> 1..Len(table')]
  BY <1>2
<1>4. \A i, m \in D : g[i] = g[m] => i = m
  <2> TAKE i, m \in D
  <2>1. place[i] \in Nat /\ place[m] \in Nat /\ j \in Nat
    BY Lengths
  <2> QED
    BY <2>1, ShiftInjective
<1>5. \A i \in D : Moved(table'[g[i]].to)
  BY <1>2
<1> HIDE DEF D, g
<1>6. PICK h : h = g
  OBVIOUS
<1>7. \A i \in D : Moved(table[h[i]].to)'
  BY <1>5, <1>6 DEF Moved
<1>8. Sits(h)'
  BY <1>1, <1>3, <1>4, <1>6, <1>7 DEF Sits
<1> QED
  BY <1>8 DEF Stuck

\* The same where nothing of the box is unmounted.
LEMMA OutsideStuck ==
  ASSUME TypeOK, UNCHANGED table, mounted' = mounted \ {k},
         UNCHANGED <<task, replaced>>,
         NEW place \in [(Astray \ {k}) \cup {0} -> 1..Len(table)],
         \A i, m \in (Astray \ {k}) \cup {0} : place[i] = place[m] => i = m,
         \A i \in (Astray \ {k}) \cup {0} : Moved(table[place[i]].to)
  PROVE  Stuck'
<1>1. (Astray \cup {0})' = (Astray \ {k}) \cup {0}
  <2>1. Astray' = Astray \ {k}
    BY DEF Astray, Moved
  <2> QED
    BY <2>1
<1>2. PICK h : h = place
  OBVIOUS
<1>3. \A i \in (Astray \ {k}) \cup {0} : Moved(table[h[i]].to)'
  BY <1>2 DEF Moved
<1>4. Sits(h)'
  BY <1>1, <1>2, <1>3 DEF Sits
<1> QED
  BY <1>4 DEF Stuck

\* The mounts of the binds that have moved, and k's for the one more.
LEMMA MovedPlaces ==
  ASSUME TypeOK, NEW f, Whole, Places(f), k \in mounted, Moved(task.binds[k].to)
  PROVE  \E place \in [(Astray \ {k}) \cup {0} -> 1..Len(table)] :
           /\ \A i, m \in (Astray \ {k}) \cup {0} : place[i] = place[m] => i = m
           /\ \A i \in (Astray \ {k}) \cup {0} : Moved(table[place[i]].to)
<1> DEFINE place == [i \in (Astray \ {k}) \cup {0} |-> IF i = 0 THEN f[k] ELSE f[i]]
<1>1. Astray \subseteq mounted /\ 0 \notin mounted /\ k \in Astray
  BY Lengths DEF Astray
<1>2. \A i \in mounted : f[i] \in 1..Len(table)
  BY Lengths DEF Places, Whole
<1>3. \A i \in Astray : Moved(table[f[i]].to)
  <2> TAKE i \in Astray
  <2>1. Own(i, f[i]) /\ Moved(task.binds[i].to)
    BY <1>1 DEF Places, Astray
  <2> QED
    BY <2>1 DEF Own
<1>4. place \in [(Astray \ {k}) \cup {0} -> 1..Len(table)]
  BY <1>1, <1>2
<1>5. \A i, m \in (Astray \ {k}) \cup {0} : place[i] = place[m] => i = m
  BY <1>1 DEF Places
<1>6. \A i \in (Astray \ {k}) \cup {0} : Moved(table[place[i]].to)
  BY <1>1, <1>3
<1> HIDE DEF place
<1> QED
  BY <1>4, <1>5, <1>6

\* When all that is mounted is to be unmounted: the mount of k's place is taken
\* out, or that of a bind which k's mount will do for, or one is stuck.
LEMMA UmountWhole ==
  ASSUME TypeOK, WayInv, Whole, k \in mounted, NEW j \in 1..Len(table),
         table' = RemoveAt(table, j),
         mounted' = mounted \ {k}, UNCHANGED <<task, replaced>>,
         \/ Moved(ThisBind.to)
         \/ ~Moved(ThisBind.to) /\ CanUmount(ThisBind.to) /\ j = Reach(ThisBind.to)
  PROVE  Whole' \/ Stuck'
<1> DEFINE path == task.binds[k].to
<1>1. PICK f : Places(f)
  BY DEF Whole
<1>2. /\ f[k] \in (Len(Standard) + 1)..Len(table) /\ Own(k, f[k])
      /\ \A n \in (Len(Standard) + 1)..Len(table) :
           \E o \in mounted : f[o] = n /\ Own(o, n)
  BY <1>1 DEF Places
<1>3. CASE ~Moved(path)
  <2>1. /\ CanUmount(path) /\ j = Reach(path) /\ table[f[k]].to = path
    BY <1>2, <1>3 DEF ThisBind, Own
  <2>2. f[k] \in DOMAIN table /\ path \in Path
    BY <1>2, <2>1, Lengths, MountsOfTable DEF Whole
  <2>3. IsPrefix(table[f[k]].to, path)
    BY <2>1, <2>2, PrefixReflexive
  <2>4. j >= f[k] /\ table[j].to = path
    BY <2>1, <2>2, <2>3, ReachFacts DEF CanUmount
  <2>5. j \in (Len(Standard) + 1)..Len(table)
    BY <1>2, <2>4, Lengths
  <2>6. PICK o \in mounted : f[o] = j /\ Own(o, j)
    BY <1>2, <2>5
  <2>7. Own(o, f[k])
    BY <1>3, <2>1, <2>4, <2>6 DEF Own
  <2> QED
    BY <1>1, <2>5, <2>6, <2>7, UmountPlaces
<1>4. CASE Moved(path) /\ Moved(table[j].to)
  <2>1. j \in (Len(Standard) + 1)..Len(table)
    <3>1. SUFFICES ASSUME j <= Len(Standard)  PROVE FALSE
      BY Lengths
    <3>2. j \in DOMAIN Standard /\ table[j] = Standard[j]
      BY <3>1, Lengths DEF Whole
    <3>3. ~Inside(Standard[j].to) /\ Standard[j].to \in Path
      BY <3>2, StandardPlaces
    <3> QED
      BY <1>4, <3>2, <3>3, MovedIsInside
  <2>2. PICK o \in mounted : f[o] = j /\ Own(o, j)
    BY <1>2, <2>1
  <2>3. Moved(task.binds[o].to) /\ Moved(table[f[k]].to)
    BY <1>2, <1>4, <2>2 DEF Own
  <2>4. Own(o, f[k])
    BY <2>3 DEF Own
  <2> QED
    BY <1>1, <2>1, <2>2, <2>4, UmountPlaces
<1>5. CASE Moved(path) /\ ~Moved(table[j].to)
  <2>1. PICK place \in [(Astray \ {k}) \cup {0} -> 1..Len(table)] :
          /\ \A i, m \in (Astray \ {k}) \cup {0} : place[i] = place[m] => i = m
          /\ \A i \in (Astray \ {k}) \cup {0} : Moved(table[place[i]].to)
    BY <1>1, <1>5, MovedPlaces
  <2>2. \A i \in (Astray \ {k}) \cup {0} : place[i] # j
    BY <1>5, <2>1
  <2>3. Stuck'
    BY <2>1, <2>2, UmountStuck
  <2> QED
    BY <2>3
<1> QED
  BY <1>3, <1>4, <1>5

\* What is stuck stays so: if its mount is taken out, then for a bind whose own
\* is not.
LEMMA UmountStaysStuck ==
  ASSUME TypeOK, Stuck, k \in mounted, NEW j \in 1..Len(table),
         table' = RemoveAt(table, j),
         mounted' = mounted \ {k}, UNCHANGED <<task, replaced>>,
         \/ Moved(ThisBind.to)
         \/ ~Moved(ThisBind.to) /\ CanUmount(ThisBind.to) /\ j = Reach(ThisBind.to)
  PROVE  Stuck'
<1> DEFINE D == (Astray \ {k}) \cup {0}
<1>1. PICK h : Sits(h)
  BY DEF Stuck
<1>2. /\ \A i \in Astray \cup {0} : h[i] \in 1..Len(table) /\ Moved(table[h[i]].to)
      /\ \A i, m \in Astray \cup {0} : h[i] = h[m] => i = m
      /\ 0 \notin mounted /\ Astray \subseteq mounted
  BY <1>1, Lengths DEF Sits, Astray
<1>3. CASE Moved(ThisBind.to)
  <2> DEFINE place == [i \in D |-> IF h[i] = j THEN h[k] ELSE h[i]]
  <2>1. k \in Astray /\ k # 0
    BY <1>2, <1>3 DEF Astray, ThisBind
  <2>2. place \in [D -> 1..Len(table)]
    BY <1>2, <2>1
  <2>3. \A i, m \in D : place[i] = place[m] => i = m
    BY <1>2, <2>1
  <2>4. \A i \in D : place[i] # j /\ Moved(table[place[i]].to)
    BY <1>2, <2>1
  <2> HIDE DEF place
  <2> QED
    BY <2>2, <2>3, <2>4, UmountStuck
<1>4. CASE /\ ~Moved(ThisBind.to) /\ CanUmount(ThisBind.to)
           /\ j = Reach(ThisBind.to)
  <2> DEFINE place == [i \in D |-> h[i]]
  <2>1. ~Moved(table[j].to)
    BY <1>4 DEF CanUmount
  <2>2. place \in [D -> 1..Len(table)]
    BY <1>2
  <2>3. \A i, m \in D : place[i] = place[m] => i = m
    BY <1>2
  <2>4. \A i \in D : place[i] # j /\ Moved(table[place[i]].to)
    BY <1>2, <2>1
  <2> HIDE DEF place
  <2> QED
    BY <2>2, <2>3, <2>4, UmountStuck
<1> QED
  BY <1>3, <1>4

LEMMA UmountBinds ==
  ASSUME TypeOK, BindsInv, WayInv, Umount
  PROVE  BindsInv'
<1>1. /\ pc = "umount" /\ pc' = "umount" /\ k' = k + 1
      /\ UNCHANGED <<task, replaced>>
      /\ mounted' = mounted \ {k} /\ k \in 1..Len(task.binds)
  BY Lengths DEF Umount
<1>2. \A i \in mounted' : i >= k'
  <2>1. \A i \in mounted : i >= k /\ i \in Nat /\ k \in Nat
    BY <1>1, Lengths DEF BindsInv
  <2> QED
    BY <1>1, <2>1
<1>3. CASE k \notin mounted /\ UNCHANGED table
  <2>1. mounted' = mounted
    BY <1>1, <1>3
  <2> QED
    BY <1>1, <1>2, <1>3, <2>1, BindsKept
<1>4. CASE k \in mounted /\ Moved(ThisBind.to) /\ UNCHANGED table
  <2>1. \E place \in [(Astray \ {k}) \cup {0} -> 1..Len(table)] :
          /\ \A i, m \in (Astray \ {k}) \cup {0} : place[i] = place[m] => i = m
          /\ \A i \in (Astray \ {k}) \cup {0} : Moved(table[place[i]].to)
    <3>1. CASE Whole
      <4>1. PICK f : Places(f)
        BY <3>1 DEF Whole
      <4> QED
        BY <1>4, <3>1, <4>1, MovedPlaces DEF ThisBind
    <3>2. CASE Stuck
      <4>1. PICK h : Sits(h)
        BY <3>2 DEF Stuck
      <4> DEFINE place == [i \in (Astray \ {k}) \cup {0} |-> h[i]]
      <4>2. place \in [(Astray \ {k}) \cup {0} -> 1..Len(table)]
        BY <4>1 DEF Sits
      <4>3. \A i, m \in (Astray \ {k}) \cup {0} : place[i] = place[m] => i = m
        BY <4>1 DEF Sits
      <4>4. \A i \in (Astray \ {k}) \cup {0} : Moved(table[place[i]].to)
        BY <4>1 DEF Sits
      <4> HIDE DEF place
      <4> QED
        BY <4>2, <4>3, <4>4
    <3> QED
      BY <1>1, <3>1, <3>2 DEF BindsInv
  <2>2. Stuck'
    BY <1>1, <1>4, <2>1, OutsideStuck
  <2> QED
    BY <1>1, <1>2, <2>2 DEF BindsInv
<1>5. ASSUME k \in mounted, NEW j \in 1..Len(table), table' = RemoveAt(table, j),
             \/ Moved(ThisBind.to)
             \/ /\ ~Moved(ThisBind.to) /\ CanUmount(ThisBind.to)
                /\ j = Reach(ThisBind.to)
      PROVE  BindsInv'
  <2>1. CASE Whole
    <3>1. Whole' \/ Stuck'
      BY <1>1, <1>5, <2>1, UmountWhole
    <3> QED
      BY <1>1, <1>2, <3>1 DEF BindsInv
  <2>2. CASE Stuck
    <3>1. Stuck'
      BY <1>1, <1>5, <2>2, UmountStaysStuck
    <3> QED
      BY <1>1, <1>2, <3>1 DEF BindsInv
  <2> QED
    BY <1>1, <2>1, <2>2 DEF BindsInv
<1> QED
  BY <1>3, <1>4, <1>5, UmountFacts

LEMMA BindsStep ==
  ASSUME TypeOK, BindsInv, WayInv, [Next]_vars  PROVE BindsInv'
<1>1. CASE UNCHANGED vars
  <2>1. CASE pc \in {"dead", "lost"}
    BY <1>1, <2>1 DEF vars, BindsInv
  <2>2. CASE pc \notin {"dead", "lost"}
    BY <1>1, <2>2, BindsKept DEF vars, BindsInv
  <2> QED
    BY <2>1, <2>2
<1>2. ASSUME NEW t \in Tasks, SetTask(t)  PROVE BindsInv'
  BY <1>2, SetTaskBinds
<1>3. ASSUME NEW t \in Tasks, SetTaskFails(t)  PROVE BindsInv'
  BY <1>3 DEF SetTaskFails, BindsInv
<1>4. CASE MountBind
  BY <1>4, MountBinds
<1>5. CASE SkipBind
  <2>1. \A i \in mounted : i < k + 1
    BY <1>5, Lengths DEF BindsInv, SkipBind
  <2> QED
    BY <1>5, <2>1, BindsKept DEF SkipBind
<1>6. CASE MountFails \/ UmountFails \/ Strays \/ CleanupFails
  BY <1>6 DEF MountFails, UmountFails, Dies, Strays, CleanupFails, BindsInv
<1>7. CASE StartSlave
  BY <1>7, BindsKept DEF StartSlave
<1>8. CASE Execute
  BY <1>8, BindsKept DEF Execute
<1>9. CASE Program
  BY <1>9, BindsKept DEF Program
<1>10. CASE Ended
  <2>1. \A i \in mounted : i >= 1
    BY Lengths
  <2> QED
    BY <1>10, <2>1, BindsKept DEF Ended
<1>11. CASE Umount
  BY <1>11, UmountBinds
<1>12. CASE ResultsReady
  <2>1. mounted = {}
    <3>1. \A i \in mounted : i >= k /\ i \in 1..Len(task.binds)
      BY <1>12, Lengths DEF ResultsReady, BindsInv
    <3> QED
      BY <1>12, <3>1, Lengths DEF ResultsReady
  <2> QED
    BY <1>12, <2>1, BindsKept DEF ResultsReady
<1>13. CASE Cleanup
  BY <1>13, CleanupBinds
<1>14. CASE Replace
  BY <1>14, ReplaceBinds
<1> QED
  BY <1>1, <1>2, <1>3, <1>4, <1>5, <1>6, <1>7, <1>8, <1>9, <1>10, <1>11, <1>12,
     <1>13, <1>14 DEF Next

LEMMA BindsInvKeepsTable ==
  ASSUME TypeOK, BindsInv, WayInv  PROVE NoMountOutlivesTask
<1>1. ASSUME pc \in {"cleanup", "wait"}, Whole  PROVE table = Standard
  <2>1. /\ mounted = {} /\ Len(table) >= Len(Standard)
        /\ \A n \in 1..Len(Standard) : table[n] = Standard[n]
        /\ \A n \in (Len(Standard) + 1)..Len(table) : \E i \in mounted : TRUE
    BY <1>1 DEF BindsInv, Whole, Places
  <2>2. Len(table) = Len(Standard)
    <3>1. Len(table) \notin (Len(Standard) + 1)..Len(table)
      BY <2>1
    <3>2. Len(table) \in Nat /\ Len(Standard) \in Nat
      BY Lengths
    <3>3. Len(table) >= Len(Standard)
      BY <2>1
    <3> QED
      BY <3>1, <3>2, <3>3
  <2> QED
    BY <2>1, <2>2, StandardAssumption, SeqEqual DEF TypeOK
<1>2. ASSUME pc = "cleanup", Stuck  PROVE ProgramInTheWay
  BY <1>2, NothingStuck DEF WayInv
<1> QED
  BY <1>1, <1>2 DEF BindsInv, NoMountOutlivesTask
-----------------------------------------------------------------------------
(* The sources.                                                            *)

\* A step that leaves the mounts and the binds alone, and makes no more binds.
LEMMA MadeKept ==
  ASSUME MadeInv, UNCHANGED <<table, task>>, pc \notin {"dead", "lost"},
         pc' # "mount"
  PROVE  MadeInv'
BY DEF MadeInv

LEMMA MadeStep ==
  ASSUME TypeOK, BindsInv, WayInv, MadeInv, [Next]_vars  PROVE MadeInv'
<1> DEFINE S == Len(Standard)
           L == Len(table)
<1>0. DOMAIN task.binds = 1..Len(task.binds)
  BY DEF TypeOK, Task
<1>1. CASE UNCHANGED vars
  BY <1>1 DEF vars, MadeInv
<1>2. ASSUME NEW t \in Tasks, SetTask(t)  PROVE MadeInv'
  <2>1. table = Standard /\ table' = table
    BY <1>2, BindsInvKeepsTable DEF SetTask, NoMountOutlivesTask
  <2> QED
    BY <2>1 DEF MadeInv
<1>3. ASSUME NEW t \in Tasks, SetTaskFails(t)  PROVE MadeInv'
  BY <1>3 DEF SetTaskFails, MadeInv
<1>4. CASE MountBind
  <2> DEFINE bind == task.binds[k]
  <2>1. /\ pc = "mount" /\ k' = k + 1 /\ task' = task
        /\ k \in DOMAIN task.binds /\ pc' = "mount"
        /\ table' = Append(table, [to |-> bind.to, from |-> bind.from])
    BY <1>0, <1>4, Lengths DEF MountBind, ThisBind
  <2>2. [to |-> bind.to, from |-> bind.from] \in Mount
    <3>1. task.binds \in Seq(Bind)
      BY DEF TypeOK, Task
    <3>2. bind \in Bind
      BY <1>0, <2>1, <3>1, ElementOfSeq
    <3> QED
      BY <1>4, <3>2 DEF Bind, Mount, MountBind, ThisBind
  <2>3. /\ Len(table') = L + 1
        /\ table'[L + 1] = [to |-> bind.to, from |-> bind.from]
        /\ \A n \in 1..L : table'[n] = table[n]
    BY <2>1, <2>2, AppendProperties DEF TypeOK
  <2>4. ASSUME NEW n \in 1..(L + 1)
        PROVE  \/ \E o \in DOMAIN Standard : table'[n] = Standard[o]
               \/ \E i \in DOMAIN task.binds :
                    /\ table'[n].to = task.binds[i].to
                    /\ table'[n].from = task.binds[i].from
                    /\ i < k'
    <3>1. CASE n = L + 1
      <4>1. k < k'
        BY <2>1, Lengths
      <4> QED
        BY <2>1, <2>3, <3>1, <4>1
    <3>2. CASE n # L + 1
      <4>1. n \in 1..L /\ n \in DOMAIN table /\ table'[n] = table[n]
        BY <2>3, <3>2, Lengths
      <4>2. \A i \in DOMAIN task.binds : i < k => i < k'
        BY <1>0, <2>1, Lengths
      <4> QED
        BY <2>1, <4>1, <4>2 DEF MadeInv
    <3> QED
      BY <3>1, <3>2
  <2>5. DOMAIN table' = 1..(L + 1)
    BY <1>4, <2>3, MountType DEF TypeOK
  <2> QED
    BY <2>1, <2>4, <2>5 DEF MadeInv
<1>5. CASE SkipBind
  <2>1. \A i \in DOMAIN task.binds : i < k => i < k + 1
    BY <1>0, Lengths
  <2> QED
    BY <1>5, <2>1 DEF SkipBind, MadeInv
<1>6. CASE MountFails \/ UmountFails \/ Strays \/ CleanupFails
  BY <1>6 DEF MountFails, UmountFails, Dies, Strays, CleanupFails, MadeInv
<1>7. CASE StartSlave
  BY <1>7, MadeKept DEF StartSlave
<1>8. CASE Execute
  BY <1>8, MadeKept DEF Execute
<1>9. CASE Program
  BY <1>9, MadeKept DEF Program
<1>10. CASE Ended
  BY <1>10, MadeKept DEF Ended
<1>11. CASE Umount
  <2>1. CASE UNCHANGED table
    BY <1>11, <2>1, MadeKept DEF Umount
  <2>2. ASSUME NEW j \in 1..L, table' = RemoveAt(table, j)  PROVE MadeInv'
    <3>1. /\ table' \in Seq(Mount) /\ Len(table') = L - 1
          /\ \A n \in 1..(L - 1) :
               table'[n] = IF n < j THEN table[n] ELSE table[n + 1]
      BY <2>2, RemoveAtFacts DEF TypeOK
    <3>2. DOMAIN table' = 1..(L - 1)
      BY <3>1
    <3>3. \A n \in DOMAIN table' : \E o \in DOMAIN table : table'[n] = table[o]
      <4> TAKE n \in DOMAIN table'
      <4>1. n \in 1..(L - 1) /\ n \in 1..L /\ n + 1 \in 1..L
        BY <3>2, Lengths
      <4> QED
        BY <3>1, <4>1, Lengths
    <3> QED
      BY <1>11, <3>3 DEF MadeInv, Umount
  <2> QED
    BY <1>11, <2>1, <2>2, UmountFacts
<1>12. CASE ResultsReady
  BY <1>12, MadeKept DEF ResultsReady
<1>13. CASE Cleanup
  BY <1>13, MadeKept DEF Cleanup
<1>14. CASE Replace
  BY <1>14, MadeKept DEF Replace
<1> QED
  BY <1>1, <1>2, <1>3, <1>4, <1>5, <1>6, <1>7, <1>8, <1>9, <1>10, <1>11, <1>12,
     <1>13, <1>14 DEF Next

\* What the program replaces is above a mount in /tmp, which is that of a bind.
LEMMA ReplaceWay ==
  ASSUME TypeOK, MadeInv, WayInv, Replace
  PROVE  WayInv'
<1>0. PICK n \in DOMAIN table :
        \E path \in Above(table[n].to) :
          Head(path) = "tmp" /\ replaced' = replaced \cup {path}
  BY DEF Replace
<1>1. PICK path \in Above(table[n].to) :
        Head(path) = "tmp" /\ replaced' = replaced \cup {path}
  BY <1>0
<1>2. table[n].to \in Path /\ Head(table[n].to) = "tmp"
  BY <1>1, MountsOfTable, AboveFacts
<1>3. \A m \in DOMAIN Standard : table[n] # Standard[m]
  BY <1>2, StandardPlaces
<1>4. PICK i \in DOMAIN task.binds : table[n].to = task.binds[i].to
  BY <1>3 DEF MadeInv, Replace
<1>5. path \in Above(task.binds[i].to)
  BY <1>1, <1>4
<1>6. ProgramInTheWay'
  BY <1>1, <1>5 DEF ProgramInTheWay, Moved, Replace
<1> QED
  BY <1>1, <1>6 DEF WayInv, Replace

\* A step that leaves alone what is replaced.
LEMMA WayKept ==
  ASSUME WayInv, UNCHANGED <<task, replaced>>, pc \notin {"dead", "lost"},
         pc' \in {"wait", "mount", "slave"} => pc \in {"wait", "mount", "slave"}
  PROVE  WayInv'
BY DEF WayInv, ProgramInTheWay, Moved

LEMMA WayStep ==
  ASSUME TypeOK, MadeInv, WayInv, [Next]_vars  PROVE WayInv'
<1>1. CASE UNCHANGED vars
  BY <1>1 DEF vars, WayInv, ProgramInTheWay, Moved
<1>2. ASSUME NEW t \in Tasks, SetTask(t) \/ SetTaskFails(t)  PROVE WayInv'
  BY <1>2 DEF SetTask, SetTaskFails, WayInv
<1>3. CASE MountBind \/ SkipBind \/ StartSlave \/ Execute \/ Program \/ Ended
  BY <1>3, WayKept DEF MountBind, SkipBind, StartSlave, Execute, Program, Ended
<1>4. CASE Umount \/ ResultsReady
  BY <1>4, WayKept DEF Umount, ResultsReady
<1>5. CASE MountFails \/ UmountFails \/ Strays \/ CleanupFails
  BY <1>5, WayKept DEF MountFails, UmountFails, Dies, Strays, CleanupFails
<1>6. CASE Cleanup
  BY <1>6 DEF Cleanup, WayInv
<1>7. CASE Replace
  BY <1>7, ReplaceWay
<1> QED
  BY <1>1, <1>2, <1>3, <1>4, <1>5, <1>6, <1>7 DEF Next

\* Whatever the binds of the tasks, wherever they lie, and whatever directories
\* in /tmp the programs replace: a container that waits for a task has the
\* mounts of prepare_root() in its box and no others, and so has one that
\* empties its box, unless the program of the task has replaced a directory
\* above a bind.
THEOREM BindsAreUndone == Spec => []NoMountOutlivesTask
<1> DEFINE Inv == TypeOK /\ BindsInv /\ MadeInv /\ WayInv
<1>1. Init => Inv
  BY TypeInit, BindsInit
<1>2. Inv /\ [Next]_vars => Inv'
  BY TypeStep, BindsStep, MadeStep, WayStep
<1>3. Inv => NoMountOutlivesTask
  BY BindsInvKeepsTable
<1> QED
  BY <1>1, <1>2, <1>3, PTL DEF Spec


\* A mount at or above a bind's path: a standard one, or that of another bind.
LEMMA MountAt ==
  ASSUME TypeOK, MadeInv, pc \notin {"dead", "lost"},
         NEW j \in DOMAIN task.binds, NEW n \in DOMAIN table,
         IsPrefix(table[n].to, task.binds[j].to),
         pc = "mount" => j >= k, pc # "mount" => table[n].to # task.binds[j].to
  PROVE  \/ InStandard(task.binds[j].to)
         \/ \E i \in DOMAIN task.binds :
              /\ Nested(i, j) /\ task.binds[i].to = table[n].to
              /\ task.binds[i].from = table[n].from
<1>1. CASE \E m \in DOMAIN Standard : table[n] = Standard[m]
  BY <1>1 DEF InStandard
<1>2. CASE \E i \in DOMAIN task.binds :
             /\ table[n].to = task.binds[i].to /\ table[n].from = task.binds[i].from
             /\ pc = "mount" => i < k
  <2>1. PICK i \in DOMAIN task.binds :
             /\ table[n].to = task.binds[i].to /\ table[n].from = task.binds[i].from
             /\ pc = "mount" => i < k
    BY <1>2
  <2>2. i # j
    BY <2>1, Lengths
  <2> QED
    BY <2>1, <2>2 DEF Nested
<1> QED
  BY <1>1, <1>2 DEF MadeInv

\* The mount that a bind's path leads to, while binds are made: a standard one
\* or that of an earlier bind.
LEMMA ReachWhileMounting ==
  ASSUME TypeOK, MadeInv, pc = "mount", k <= Len(task.binds),
         Reach(task.binds[k].to) # 0
  PROVE  \/ InStandard(task.binds[k].to)
         \/ \E i \in DOMAIN task.binds :
              /\ Nested(i, k)
              /\ task.binds[i].from = table[Reach(task.binds[k].to)].from
<1> DEFINE n == Reach(task.binds[k].to)
<1>1. n \in DOMAIN table /\ IsPrefix(table[n].to, task.binds[k].to)
  BY ReachFacts
<1>2. k \in DOMAIN task.binds /\ k >= k
  BY Lengths
<1> HIDE DEF n
<1>3. \/ InStandard(task.binds[k].to)
      \/ \E i \in DOMAIN task.binds :
           Nested(i, k) /\ task.binds[i].from = table[n].from
  BY <1>1, <1>2, MountAt
<1> QED
  BY <1>3 DEF n

\* A path leads out of the box because it says so, or through a standard mount
\* or another bind.
LEMMA StraysFacts ==
  ASSUME TypeOK, MadeInv, Strays
  PROVE  /\ k \in DOMAIN task.binds
         /\ \/ task.binds[k].to = Out
            \/ InStandard(task.binds[k].to)
            \/ \E i \in DOMAIN task.binds : Nested(i, k)
<1>1. k \in DOMAIN task.binds /\ k >= k /\ pc \notin {"dead", "lost"}
  BY Lengths DEF Strays
<1>2. CASE task.binds[k].to # Out
  <2>1. task.binds[k].to \in Path
    BY <1>1, <1>2, BindTypes
  <2>2. PICK n \in DOMAIN table : table[n].to \in Above(task.binds[k].to)
    BY <1>2 DEF Strays, Through, ThisBind
  <2>3. IsPrefix(table[n].to, task.binds[k].to) /\ table[n].to # task.binds[k].to
    BY <2>1, <2>2, AboveFacts
  <2> QED
    BY <1>1, <2>2, <2>3, MountAt
<1> QED
  BY <1>1, <1>2

LEMMA SourcesStep ==
  ASSUME TypeOK, BindsInv, MadeInv, WayInv, [Next]_vars
  PROVE  \A s \in touched' \ touched :
           \E j \in DOMAIN task.binds :
             \/ task.binds[j].to = Out
             \/ InStandard(task.binds[j].to)
             \/ \E i \in DOMAIN task.binds :
                  Nested(i, j) /\ (task.binds[i].from = s \/ pc' = "lost")
             \/ task.binds[j].from = s /\ ProgramInTheWay
<1>1. CASE MountBind
  <2>1. k \in DOMAIN task.binds /\ pc = "mount" /\ k <= Len(task.binds)
    BY <1>1, Lengths DEF MountBind, TypeOK, Task
  <2>2. MakePoint(task.binds[k].to, KindOf[task.binds[k].from])
    BY <1>1 DEF MountBind, ThisBind
  <2>3. CASE Reach(task.binds[k].to) = 0
    BY <2>2, <2>3 DEF MakePoint
  <2>4. CASE Reach(task.binds[k].to) # 0
    <3>1. touched' \ touched \subseteq {table[Reach(task.binds[k].to)].from}
      BY <2>2, <2>4 DEF MakePoint
    <3> QED
      BY <2>1, <2>4, <3>1, ReachWhileMounting
  <2> QED
    BY <2>3, <2>4
<1>2. CASE CleanupFails
  <2>1. ASSUME NEW n \in DOMAIN table, Inside(table[n].to)
        PROVE  /\ ProgramInTheWay
               /\ \E j \in DOMAIN task.binds : task.binds[j].from = table[n].from
    <3>1. \A m \in DOMAIN Standard : table[n] # Standard[m]
      BY <2>1, StandardPlaces
    <3>2. table # Standard
      BY <3>1
    <3>3. ProgramInTheWay
      BY <1>2, <3>2, BindsInvKeepsTable DEF NoMountOutlivesTask, CleanupFails
    <3> QED
      BY <1>2, <3>1, <3>3 DEF MadeInv, CleanupFails
  <2> QED
    BY <1>2, <2>1 DEF CleanupFails, Left
<1>3. CASE Strays
  <2>1. pc' = "lost"
    BY <1>3 DEF Strays
  <2> QED
    BY <1>3, <2>1, StraysFacts
<1>4. CASE UNCHANGED touched
  BY <1>4
<1>5. MountBind \/ CleanupFails \/ Strays \/ UNCHANGED touched
  BY DEF Next, vars, SetTask, SetTaskFails, SkipBind, MountFails, UmountFails,
         Dies, StartSlave, Execute, Program, Replace, Ended, Umount, ResultsReady,
         Cleanup
<1> QED
  BY <1>1, <1>2, <1>3, <1>4, <1>5

\* The container itself writes to no source, unless a path of its task leads
\* out of the box, a bind is at or below another mount of it, or the program of
\* the task has replaced a directory above a bind.
THEOREM SourcesAreKept == Spec => SourcesKept
<1> DEFINE Inv == TypeOK /\ BindsInv /\ MadeInv /\ WayInv
<1>1. Init => Inv
  BY TypeInit, BindsInit
<1>2. Inv /\ [Next]_vars => Inv'
  BY TypeStep, BindsStep, MadeStep, WayStep
<1>3. Inv /\ [Next]_vars =>
        [\A s \in touched' \ touched :
           \E j \in DOMAIN task.binds :
             \/ task.binds[j].to = Out
             \/ InStandard(task.binds[j].to)
             \/ \E i \in DOMAIN task.binds :
                  Nested(i, j) /\ (task.binds[i].from = s \/ pc' = "lost")
             \/ task.binds[j].from = s /\ ProgramInTheWay]_vars
  BY SourcesStep
<1> QED
  BY <1>1, <1>2, <1>3, PTL DEF Spec, SourcesKept
-----------------------------------------------------------------------------
(* The reasons of a death.                                                 *)

\* /work and /tmp are directories.  The box is empty when a task is given, and
\* what is in it while binds are made was made for an earlier bind.
PointsInv ==
  pc # "dead" =>
    /\ \A r \in {"work", "tmp"} :
         << <<r>>, "directory">> \in points /\ << <<r>>, "file">> \notin points
    /\ pc = "wait" => \A point \in points : ~Inside(point[1])
    /\ pc = "mount" =>
         \A path \in Path, kind \in Kind :
           <<path, kind>> \in points /\ Inside(path) =>
             \E i \in DOMAIN task.binds :
               /\ i < k
               /\ \/ path = task.binds[i].to /\ kind = KindOf[task.binds[i].from]
                  \/ path \in Above(task.binds[i].to) /\ kind = "directory"

LEMMA RootPaths == <<"work">> \in Path /\ <<"tmp">> \in Path
BY NamesAssumption DEF Path

LEMMA PointsInit ==
  ASSUME Init  PROVE PointsInv
<1> DEFINE Mine == {<<Standard[n].to, "directory">> : n \in DOMAIN Standard}
<1>1. points = {<< <<"work">>, "directory">>, << <<"tmp">>, "directory">>} \cup Mine
  BY DEF Init
<1>2. \A point \in points : point[2] = "directory"
  BY <1>1
<1>3. \A point \in points : ~Inside(point[1])
  <2>1. \A point \in Mine : Head(point[1]) \notin {"work", "tmp"}
    BY StandardAssumption
  <2>2. Len(<<"work">>) = 1 /\ Len(<<"tmp">>) = 1
    OBVIOUS
  <2> QED
    BY <1>1, <2>1, <2>2 DEF Inside
<1> QED
  BY <1>1, <1>2, <1>3 DEF Init, PointsInv

\* A step that adds no points, and gives no task.
LEMMA PointsKept ==
  ASSUME PointsInv, UNCHANGED points, pc # "dead", pc' \notin {"mount", "wait"}
  PROVE  PointsInv'
BY DEF PointsInv

LEMMA MountPoints ==
  ASSUME TypeOK, PointsInv, MountBind
  PROVE  PointsInv'
<1> DEFINE bind == task.binds[k]
           made == KindOf[bind.from]
<1>1. /\ pc = "mount" /\ pc' = "mount" /\ k' = k + 1 /\ task' = task
      /\ k \in DOMAIN task.binds /\ bind.to \in Path
      /\ made \in Kind /\ CanMake(bind.to, made) /\ MakePoint(bind.to, made)
  <2>1. k \in DOMAIN task.binds /\ bind.to \in Path
    BY Lengths, BindTypes DEF MountBind, ThisBind
  <2> QED
    BY <2>1 DEF MountBind, ThisBind
<1>2. \A i \in DOMAIN task.binds : i < k => i < k'
  BY <1>1, Lengths, BindTypes
<1>3. CASE Reach(bind.to) # 0
  <2>1. points' = points
    BY <1>1, <1>3 DEF MakePoint
  <2> QED
    BY <1>1, <1>2, <2>1 DEF PointsInv
<1>4. CASE Reach(bind.to) = 0
  <2>1. points' = points \cup {<<p, "directory">> : p \in Above(bind.to)}
                         \cup {<<bind.to, made>>}
    BY <1>1, <1>4 DEF MakePoint
  <2>2. \A other \in Kind \ {made} : <<bind.to, other>> \notin points
    BY <1>1, <1>4 DEF CanMake
  <2>3. ASSUME NEW r \in {"work", "tmp"}
        PROVE  /\ << <<r>>, "directory">> \in points'
               /\ << <<r>>, "file">> \notin points'
    <3>1. << <<r>>, "directory">> \in points /\ << <<r>>, "file">> \notin points
      BY <1>1 DEF PointsInv
    <3>2. << <<r>>, "file">> # <<bind.to, made>>
      BY <2>2, <3>1 DEF Kind
    <3> QED
      BY <2>1, <3>1, <3>2
  <2>4. ASSUME NEW path \in Path, NEW kind \in Kind,
               <<path, kind>> \in points', Inside(path)
        PROVE  \E i \in DOMAIN task.binds :
                 /\ i < k'
                 /\ \/ path = task.binds[i].to /\ kind = KindOf[task.binds[i].from]
                    \/ path \in Above(task.binds[i].to) /\ kind = "directory"
    <3>1. CASE <<path, kind>> \in points
      BY <1>1, <1>2, <2>4, <3>1 DEF PointsInv
    <3>2. CASE <<path, kind>> \notin points
      <4>1. \/ path = bind.to /\ kind = made
            \/ path \in Above(bind.to) /\ kind = "directory"
        BY <2>1, <2>4, <3>2
      <4>2. k < k'
        BY <1>1, Lengths
      <4> QED
        BY <1>1, <4>1, <4>2
    <3> QED
      BY <3>1, <3>2
  <2> QED
    BY <1>1, <2>3, <2>4 DEF PointsInv
<1> QED
  BY <1>3, <1>4

LEMMA PointsStep ==
  ASSUME TypeOK, PointsInv, [Next]_vars  PROVE PointsInv'
<1>1. CASE UNCHANGED vars
  BY <1>1 DEF vars, PointsInv
<1>2. ASSUME NEW t \in Tasks, SetTask(t)  PROVE PointsInv'
  <2>1. \A path \in Path, kind \in Kind : <<path, kind>> \in points => ~Inside(path)
    BY <1>2 DEF SetTask, PointsInv
  <2> QED
    BY <1>2, <2>1 DEF SetTask, PointsInv
<1>3. ASSUME NEW t \in Tasks, SetTaskFails(t)  PROVE PointsInv'
  BY <1>3 DEF SetTaskFails, PointsInv
<1>4. CASE MountBind
  BY <1>4, MountPoints
<1>5. CASE SkipBind
  <2>1. \A i \in DOMAIN task.binds : i < k => i < k + 1
    BY Lengths, BindTypes
  <2> QED
    BY <1>5, <2>1 DEF SkipBind, PointsInv
<1>6. CASE MountFails \/ UmountFails \/ CleanupFails
  BY <1>6 DEF MountFails, UmountFails, Dies, CleanupFails, PointsInv
<1>7. CASE StartSlave
  BY <1>7, PointsKept DEF StartSlave
<1>8. CASE Execute
  BY <1>8, PointsKept DEF Execute
<1>9. CASE Program
  <2>1. PICK path \in Scratch, kind \in Kind :
          Reach(path) = 0 /\ CanMake(path, kind)
          /\ points' = points \cup {<<path, kind>>}
    BY <1>9 DEF Program
  <2>2. \A other \in Kind \ {kind} : <<path, other>> \notin points
    BY <2>1 DEF CanMake
  <2>3. \A r \in {"work", "tmp"} :
          << <<r>>, "directory">> \in points' /\ << <<r>>, "file">> \notin points'
    <3> TAKE r \in {"work", "tmp"}
    <3>1. << <<r>>, "directory">> \in points /\ << <<r>>, "file">> \notin points
      BY <1>9 DEF Program, PointsInv
    <3>2. << <<r>>, "file">> # <<path, kind>>
      BY <2>2, <3>1 DEF Kind
    <3> QED
      BY <2>1, <3>1, <3>2
  <2> QED
    BY <1>9, <2>3 DEF Program, PointsInv
<1>10. CASE Ended
  BY <1>10, PointsKept DEF Ended
<1>11. CASE Umount
  BY <1>11, PointsKept DEF Umount
<1>12. CASE ResultsReady
  BY <1>12, PointsKept DEF ResultsReady
<1>13. CASE Cleanup
  <2>1. Len(<<"work">>) = 1 /\ Len(<<"tmp">>) = 1
    OBVIOUS
  <2>2. ~Inside(<<"work">>) /\ ~Inside(<<"tmp">>)
    BY <2>1 DEF Inside
  <2> QED
    BY <1>13, <2>2 DEF Cleanup, PointsInv
<1>14. CASE Replace
  BY <1>14, PointsKept DEF Replace
<1>15. CASE Strays
  BY <1>15, PointsKept DEF Strays
<1> QED
  BY <1>1, <1>2, <1>3, <1>4, <1>5, <1>6, <1>7, <1>8, <1>9, <1>10, <1>11, <1>12,
     <1>13, <1>14, <1>15 DEF Next

\* Everything that can make a death the task's own: what DeathIsOfItsOwn says.
Blame ==
  \/ ~Accepted(task)
  \/ \E i \in DOMAIN task.binds : task.binds[i].from \in Deep
  \/ \E i \in DOMAIN task.binds : task.binds[i].to = Out
  \/ \E i \in DOMAIN task.binds :
       \/ KindOf[task.binds[i].from] \in {"other", "relative"}
       \/ KindOf[task.binds[i].from] = "absent" /\ ~task.binds[i].optional
  \/ \E i, j \in DOMAIN task.binds : Nested(i, j)
  \/ ProgramInTheWay

\* The binds of the task are in /work and /tmp, or lead out of the box.
BindsInside ==
  \A i \in DOMAIN task.binds : Inside(task.binds[i].to) \/ task.binds[i].to = Out

\* A path in /work or /tmp is below no mount of prepare_root().
LEMMA InsideIsNotStandard ==
  ASSUME NEW path \in Path, Inside(path)
  PROVE  ~InStandard(path)
<1> SUFFICES ASSUME NEW m \in DOMAIN Standard, IsPrefix(Standard[m].to, path)
             PROVE  FALSE
  BY DEF InStandard
<1> QED
  BY StandardPlaces, PrefixHead DEF Inside

\* Nothing but an earlier bind can be in the way of a mount point.
LEMMA MountFailsByItself ==
  ASSUME TypeOK, MadeInv, PointsInv, MountFails, BindsInside
  PROVE  Blame
<1> DEFINE bind == task.binds[k]
           kind == KindOf[bind.from]
           Unusable == \/ kind \in {"other", "relative"}
                       \/ kind = "absent" /\ ~bind.optional
           Blocked == /\ kind \in Kind
                      /\ \/ bind.to = Out \/ Reach(bind.to) # 0
                         \/ ~CanMake(bind.to, kind)
<1>0. /\ pc = "mount" /\ k \in DOMAIN task.binds /\ k <= Len(task.binds)
  BY Lengths, BindTypes DEF MountFails
<1> SUFFICES ASSUME \A i \in DOMAIN task.binds : task.binds[i].to # Out
             PROVE  Blame
  BY DEF Blame
<1>1. /\ pc = "mount" /\ k \in DOMAIN task.binds /\ k <= Len(task.binds)
      /\ bind.to \in Path /\ Inside(bind.to) /\ bind.to # Out
      /\ \A i \in DOMAIN task.binds : task.binds[i].to \in Path
  BY <1>0, BindTypes DEF BindsInside
<1>2. CASE Unusable
  BY <1>1, <1>2 DEF Blame
<1>3. CASE Reach(bind.to) # 0
  <2>1. \E i \in DOMAIN task.binds : Nested(i, k)
    BY <1>1, <1>3, ReachWhileMounting, InsideIsNotStandard
  <2> QED
    BY <1>1, <2>1 DEF Blame
<1>4. CASE kind \in Kind /\ Reach(bind.to) = 0 /\ ~CanMake(bind.to, kind)
  <2>1. \/ \E p \in Above(bind.to) : <<p, "file">> \in points
        \/ \E other \in Kind \ {kind} : <<bind.to, other>> \in points
    BY <1>4 DEF CanMake
  <2>2. ASSUME NEW p \in Above(bind.to), <<p, "file">> \in points  PROVE Blame
    <3>1. p \in Path /\ IsPrefix(p, bind.to) /\ Head(p) = Head(bind.to)
      BY <1>1, AboveFacts
    <3>2. Inside(p)
      <4>1. SUFFICES ASSUME ~(Len(p) > 1)  PROVE FALSE
        BY <1>1, <3>1 DEF Inside
      <4>2. p = <<Head(p)>>
        <5>1. p \in Seq(Names) /\ p # <<>>
          BY <3>1 DEF Path
        <5>2. Len(p) \in Nat \ {0}
          BY <5>1, EmptySeq
        <5>3. Len(p) = 1
          <6>1. PICK n \in Nat \ {0} : n = Len(p)
            BY <5>2
          <6>2. ~(n > 1)
            BY <4>1, <6>1
          <6> QED
            BY <6>1, <6>2
        <5> QED
          BY <5>1, <5>3
      <4> QED
        BY <1>1, <2>2, <3>1, <4>2 DEF PointsInv, Inside
    <3>3. PICK i \in DOMAIN task.binds : i < k /\ p = task.binds[i].to
      BY <1>1, <2>2, <3>1, <3>2 DEF PointsInv, Kind
    <3>4. Nested(i, k)
      BY <1>1, <3>1, <3>3, BindTypes DEF Nested
    <3> QED
      BY <1>1, <3>4 DEF Blame
  <2>3. ASSUME NEW other \in Kind, <<bind.to, other>> \in points  PROVE Blame
    <3>1. PICK i \in DOMAIN task.binds :
            i < k /\ (bind.to = task.binds[i].to \/ bind.to \in Above(task.binds[i].to))
      BY <1>1, <2>3 DEF PointsInv
    <3>2. i # k
      BY <1>1, <3>1, BindTypes
    <3>3. CASE bind.to = task.binds[i].to
      <4>1. Nested(i, k)
        BY <1>1, <3>2, <3>3, PrefixReflexive DEF Nested
      <4> QED
        BY <1>1, <4>1 DEF Blame
    <3>4. CASE bind.to \in Above(task.binds[i].to)
      <4>1. IsPrefix(bind.to, task.binds[i].to)
        BY <1>1, <3>4, AboveFacts
      <4>2. Nested(k, i)
        BY <3>2, <4>1 DEF Nested
      <4> QED
        BY <1>1, <4>2 DEF Blame
    <3> QED
      BY <3>1, <3>3, <3>4
  <2> QED
    BY <2>1, <2>2, <2>3
<1>5. Unusable \/ Blocked
  BY DEF MountFails, ThisBind
<1>6. Blocked => Blame
  BY <1>1, <1>3, <1>4
<1> HIDE DEF Unusable, Blocked
<1> QED
  BY <1>2, <1>5, <1>6

\* Nothing but another bind can keep a mount from being undone.
LEMMA UmountFailsByItself ==
  ASSUME TypeOK, BindsInv, MadeInv, WayInv, UmountFails, BindsInside
  PROVE  Blame
<1> DEFINE S == Len(Standard)
           L == Len(table)
           path == task.binds[k].to
           n == Reach(path)
<1> SUFFICES ASSUME replaced = {}, \A i \in DOMAIN task.binds : task.binds[i].to # Out
             PROVE  Blame
  BY DEF Blame, WayInv, UmountFails
<1>1. /\ pc = "umount" /\ k \in mounted /\ k \in DOMAIN task.binds
      /\ path \in Path /\ Inside(path) /\ ~CanUmount(path)
  <2>1. /\ pc = "umount" /\ k \in mounted /\ k \in DOMAIN task.binds
        /\ \A p : ~Moved(p)
    BY Lengths, BindTypes DEF UmountFails, Moved
  <2> QED
    BY <2>1, BindTypes DEF UmountFails, ThisBind, BindsInside
<1>2. Whole /\ S \in Nat /\ L \in Nat /\ L >= S
  BY <1>1, Lengths, NothingStuck DEF BindsInv, Whole
<1>3. PICK f : Places(f)
  BY <1>2 DEF Whole
<1>4. /\ f[k] \in (S + 1)..L /\ table[f[k]].to = path
      /\ \A m \in (S + 1)..L : \E i \in mounted : f[i] = m /\ table[m].to = task.binds[i].to
  BY <1>1, <1>3 DEF Places, Own, Moved
<1>5. n \in 0..L /\ n >= f[k] /\ (n # 0 => IsPrefix(table[n].to, path))
  <2>1. f[k] \in DOMAIN table /\ IsPrefix(table[f[k]].to, path)
    BY <1>1, <1>2, <1>4, Lengths, PrefixReflexive
  <2> QED
    BY <1>1, <2>1, ReachFacts
<1>6. n \in (S + 1)..L
  BY <1>2, <1>4, <1>5
<1> HIDE DEF S, L, n
<1>7. mounted \subseteq DOMAIN task.binds
  BY Lengths, BindTypes
<1>8. CASE table[n].to # path
  <2>1. PICK i \in mounted : f[i] = n /\ table[n].to = task.binds[i].to
    BY <1>4, <1>6
  <2>2. Nested(i, k)
    BY <1>2, <1>5, <1>6, <1>8, <2>1 DEF Nested
  <2> QED
    BY <1>1, <1>7, <2>2 DEF Blame
<1>9. CASE table[n].to = path /\ table[n].from \in Deep
  <2>1. n \in DOMAIN table
    BY <1>2, <1>6, Lengths DEF L
  <2>2. \A m \in DOMAIN Standard : table[n] # Standard[m]
    BY <1>1, <1>9, StandardPlaces
  <2>3. \E i \in DOMAIN task.binds : task.binds[i].from = table[n].from
    BY <1>1, <2>1, <2>2 DEF MadeInv
  <2> QED
    BY <1>9, <2>3 DEF Blame
<1>10. ASSUME NEW m \in (n + 1)..L, IsPrefix(path, table[m].to)  PROVE Blame
  <2>1. m \in (S + 1)..L /\ m # f[k]
    BY <1>2, <1>4, <1>5, <1>6
  <2>2. PICK i \in mounted : f[i] = m /\ table[m].to = task.binds[i].to
    BY <1>4, <2>1
  <2>3. Nested(k, i)
    BY <1>10, <2>1, <2>2 DEF Nested
  <2> QED
    BY <1>1, <1>7, <2>3 DEF Blame
<1>11. n # 0
  BY <1>2, <1>6
<1> QED
  BY <1>1, <1>8, <1>9, <1>10, <1>11 DEF CanUmount, n, L

\* A path leads out of the box through another bind, or says so.
LEMMA StraysByItself ==
  ASSUME TypeOK, MadeInv, Strays, BindsInside
  PROVE  Blame
<1>1. /\ k \in DOMAIN task.binds
      /\ \/ task.binds[k].to = Out
         \/ InStandard(task.binds[k].to)
         \/ \E i \in DOMAIN task.binds : Nested(i, k)
  BY StraysFacts
<1>2. CASE task.binds[k].to = Out
  BY <1>1, <1>2 DEF Blame
<1>3. CASE task.binds[k].to # Out
  <2>1. task.binds[k].to \in Path /\ Inside(task.binds[k].to)
    BY <1>1, <1>3, BindTypes DEF BindsInside
  <2>2. \E i \in DOMAIN task.binds : Nested(i, k)
    BY <1>1, <1>3, <2>1, InsideIsNotStandard
  <2> QED
    BY <1>1, <2>2 DEF Blame
<1> QED
  BY <1>2, <1>3

\* A box that is not as prepare_root() made it has a program in the way.
LEMMA CleanupFailsByItself ==
  ASSUME TypeOK, BindsInv, WayInv, CleanupFails
  PROVE  Blame
<1>1. table # Standard
  <2>1. PICK n \in DOMAIN table : Inside(table[n].to)
    BY DEF CleanupFails, Left
  <2> QED
    BY <2>1, StandardPlaces
<1> QED
  BY <1>1, BindsInvKeepsTable DEF NoMountOutlivesTask, CleanupFails, Blame

LEMMA DeathStep ==
  ASSUME TypeOK, BindsInv, MadeInv, WayInv, PointsInv, DeathIsOfItsOwn, [Next]_vars
  PROVE  DeathIsOfItsOwn'
<1>1. CASE pc' \notin {"dead", "lost"}
  BY <1>1 DEF DeathIsOfItsOwn
<1>2. CASE UNCHANGED vars
  BY <1>2 DEF vars, DeathIsOfItsOwn, Accepted, Nested, ProgramInTheWay, Moved
<1>3. ASSUME NEW t \in Tasks, SetTaskFails(t)  PROVE DeathIsOfItsOwn'
  BY <1>3 DEF SetTaskFails, DeathIsOfItsOwn, Accepted
<1>4. CASE MountFails \/ UmountFails \/ Strays \/ CleanupFails
  <2>1. UNCHANGED <<task, replaced>>
    BY <1>4 DEF MountFails, UmountFails, Dies, Strays, CleanupFails
  <2>2. BindsInside => Blame
    BY <1>4, MountFailsByItself, UmountFailsByItself, StraysByItself,
       CleanupFailsByItself
  <2> QED
    BY <2>1, <2>2 DEF DeathIsOfItsOwn, Blame, BindsInside, Accepted, Nested,
                      ProgramInTheWay, Moved
<1>5. \/ UNCHANGED vars \/ MountFails \/ UmountFails \/ Strays \/ CleanupFails
      \/ pc' \notin {"dead", "lost"} \/ \E t \in Tasks : SetTaskFails(t)
  BY DEF Next, SetTask, MountBind, SkipBind, StartSlave, Execute, Program, Replace,
         Ended, Umount, ResultsReady, Cleanup
<1> QED
  BY <1>1, <1>2, <1>3, <1>4, <1>5

\* A task whose binds are in /work and /tmp does not end its worker by what
\* earlier tasks left behind or their programs did, whatever they were, but
\* only by what it asks for or its own program does.
THEOREM DeathIsAlwaysOfItsOwn == Spec => []DeathIsOfItsOwn
<1> DEFINE Inv == /\ TypeOK /\ BindsInv /\ MadeInv /\ WayInv /\ PointsInv
                  /\ DeathIsOfItsOwn
<1>1. Init => Inv
  <2>1. Init => DeathIsOfItsOwn
    BY DEF Init, DeathIsOfItsOwn
  <2> QED
    BY <2>1, TypeInit, BindsInit, PointsInit
<1>2. Inv /\ [Next]_vars => Inv'
  BY TypeStep, BindsStep, MadeStep, WayStep, PointsStep, DeathStep
<1> QED
  BY <1>1, <1>2, PTL DEF Spec
=============================================================================
