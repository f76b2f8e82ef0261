------------------------- MODULE WaitForSlave_proofs -------------------------
(***************************************************************************)
(* The watch over a run, for any processes that a program may fork, any    *)
(* limits and any number of runs: the box is emptied, the end of a run is  *)
(* explained by its result, and no signal makes the container die.         *)
(***************************************************************************)
EXTENDS WaitForSlave, TLAPS

USE LimitsAssumption, BoundsAssumption, OthersAssumption

Box == alive \cup zombie

\* A process that has ended has no children: the parent of every process of
\* the box is alive, or is the container.
ParentInv == \A p \in Box : parent[p] \in alive \cup {Self}

\* The processes of the box are a forest: in no set of them has everyone its
\* parent in the set.
ForestInv ==
  \A S \in SUBSET Box : S # {} => \E p \in S : parent[p] \notin S

\* Once wait() has failed nobody is left, and the time used stays the same.
EmptyInv ==
  /\ pc \in {"measure", "done"} => Box = {}
  /\ pc = "done" => result.time = cpu

\* How the slave has ended, and whether the container knows it.
StatusInv ==
  /\ pc \in Watching \cup {"kill"} => doomed = {} /\ ended # "killed"
  /\ pc \in Watching => status = "none"
  /\ Slave \in zombie => ended # "none"
  /\ status # "none" => status = ended /\ Slave \notin alive
  /\ status # "killed"

\* Why the container ends a run of which it knows no status.
Cause ==
  \/ status # "none"
  \/ Exceeds(cpu, limits.time)
  \/ Exceeds(clock - began, limits.wall)
  \/ steps > 0

CauseInv ==
  /\ pc \in {"kill", "wait", "measure"} => Cause
  /\ pc = "done" =>
       /\ result.status = status
       /\ \/ status # "none"
          \/ result.timeExceeded \/ result.wallExceeded
          \/ steps > 0

\* What makes a failed call no error.
AlarmInv ==
  /\ pc = "interrupted" => flag
  /\ pc = "wait" => restart
  /\ pc # "dead"

Inv ==
  /\ TypeOK /\ ParentInv /\ ForestInv /\ EmptyInv
  /\ StatusInv /\ CauseInv /\ AlarmInv
-----------------------------------------------------------------------------
(* The forest of processes.                                                *)

\* A new process has no children, and its parent is another one.
LEMMA ForkForest ==
  ASSUME TypeOK, ParentInv, ForestInv, NEW p \in Process, NEW q \in Process,
         Fork(p, q)
  PROVE  ParentInv' /\ ForestInv'
<1> USE DEF Box
<1>1. ParentInv'
  BY DEF TypeOK, ParentInv, Fork
<1>2. ASSUME NEW S \in SUBSET Box', S # {}
      PROVE  \E r \in S : parent'[r] \notin S
  <2>1. CASE S = {q}
    BY <2>1 DEF TypeOK, Fork
  <2>2. CASE S # {q}
    <3>1. S \ {q} # {} /\ S \ {q} \in SUBSET Box
      BY <1>2, <2>2 DEF Fork
    <3>2. PICK r \in S \ {q} : parent[r] \notin S \ {q}
      BY <3>1 DEF ForestInv
    <3>3. parent[r] # q
      BY <3>1, <3>2 DEF ParentInv, Fork, Process, Self
    <3>4. parent'[r] = parent[r]
      BY <3>1, <3>2 DEF TypeOK, Fork
    <3> QED
      BY <3>2, <3>3, <3>4
  <2> QED
    BY <2>1, <2>2
<1> QED
  BY <1>1, <1>2 DEF ForestInv

\* The children of a process that ends are adopted by the container, which
\* is no process of the box.
LEMMA EndForest ==
  ASSUME TypeOK, ParentInv, ForestInv, NEW p \in Process, NEW how,
         End(p, how)
  PROVE  ParentInv' /\ ForestInv'
<1> USE DEF Box
<1>1. Box' = Box
  BY DEF End
<1>2. ASSUME NEW q \in Box
      PROVE  parent'[q] \in {parent[q], Self} /\ parent'[q] # p
  <2>1. q \in Process /\ Self # p
    BY DEF TypeOK, Process, Self, Slave
  <2>2. parent'[q] = IF parent[q] = p THEN Self ELSE parent[q]
    BY <2>1 DEF End, Children
  <2> QED
    BY <2>1, <2>2
<1>3. ParentInv'
  BY <1>1, <1>2 DEF ParentInv, End
<1>4. ForestInv'
  <2> SUFFICES ASSUME NEW S \in SUBSET Box, S # {}
               PROVE  \E q \in S : parent'[q] \notin S
    BY <1>1 DEF ForestInv
  <2>1. PICK q \in S : parent[q] \notin S
    BY DEF ForestInv
  <2>2. Self \notin S
    BY DEF TypeOK, Process, Self, Slave
  <2> QED
    BY <1>2, <2>1, <2>2
<1> QED
  BY <1>3, <1>4

\* A process that is waited for is a parent of nobody.
LEMMA WaitForest ==
  ASSUME ParentInv, ForestInv, UNCHANGED <<alive, parent>>, zombie' \subseteq zombie
  PROVE  ParentInv' /\ ForestInv'
<1>1. Box' \subseteq Box
  BY DEF Box
<1> QED
  BY <1>1 DEF ParentInv, ForestInv

\* As long as the box is not empty the container has a child.
LEMMA ChildRemains ==
  ASSUME ParentInv, ForestInv, Children(Self) = {}
  PROVE  Box = {}
<1> SUFFICES ASSUME Box # {} PROVE FALSE
  OBVIOUS
<1>1. PICK p \in Box : parent[p] \notin Box
  BY DEF ForestInv
<1>2. parent[p] = Self
  BY <1>1 DEF ParentInv, Box
<1> QED
  BY <1>1, <1>2 DEF Children, Box
-----------------------------------------------------------------------------
LEMMA InitInv == Init => Inv
<1> SUFFICES ASSUME Init PROVE Inv
  OBVIOUS
<1>1. TypeOK
  <2>1. result \in [status : Status, time : -1..MaxTime, wall : Int,
                    timeExceeded : BOOLEAN, wallExceeded : BOOLEAN]
    BY DEF Init, NoResult, Status
  <2>2. parent \in [Process -> Process \cup {Self}]
    BY DEF Init
  <2>3. timer \in BOOLEAN /\ flag \in BOOLEAN /\ restart \in BOOLEAN
    BY DEF Init
  <2> QED
    BY <2>1, <2>2, <2>3 DEF Init, TypeOK, Pc, Watching, Status, Process
<1>2. ParentInv /\ ForestInv
  BY DEF Init, ParentInv, ForestInv, Box, Process, Self, Slave
<1>3. EmptyInv /\ StatusInv /\ CauseInv /\ AlarmInv
  BY DEF Init, EmptyInv, StatusInv, CauseInv, AlarmInv, Watching
<1> QED
  BY <1>1, <1>2, <1>3 DEF Inv
-----------------------------------------------------------------------------
(* The steps of the box and of the clocks.                                 *)

LEMMA WorldInv ==
  ASSUME Inv, World \/ \E p \in Process : Killed(p)
  PROVE  Inv'
<1> USE DEF Inv, Watching, watchVars
<1>1. ASSUME NEW p \in Process, NEW q \in Process, Fork(p, q) PROVE Inv'
  <2>1. TypeOK'
    BY <1>1 DEF Fork, TypeOK, clockVars
  <2>2. EmptyInv' /\ StatusInv' /\ CauseInv' /\ AlarmInv'
    BY <1>1 DEF Fork, TypeOK, EmptyInv, Box, StatusInv, CauseInv, Cause,
       AlarmInv, clockVars
  <2> QED
    BY <1>1, <2>1, <2>2, ForkForest
<1>2. ASSUME NEW p \in Process, NEW how \in Status \ {"none"}, End(p, how)
      PROVE  Inv'
  <2>1. TypeOK'
    BY <1>2 DEF End, TypeOK, clockVars
  <2>2. EmptyInv'
    BY <1>2 DEF End, EmptyInv, Box, clockVars
  <2>3. StatusInv'
    BY <1>2 DEF End, TypeOK, StatusInv, Status
  <2>4. CauseInv' /\ AlarmInv'
    BY <1>2 DEF End, CauseInv, Cause, AlarmInv, clockVars
  <2> QED
    BY <1>2, <2>1, <2>2, <2>3, <2>4, EndForest
<1>3. ASSUME NEW p \in Process, NEW q \in Process, WaitedFor(p, q) PROVE Inv'
  <2>1. TypeOK'
    BY <1>3 DEF WaitedFor, TypeOK, clockVars
  <2>2. EmptyInv' /\ StatusInv' /\ CauseInv' /\ AlarmInv'
    BY <1>3 DEF WaitedFor, EmptyInv, Box, StatusInv, CauseInv, Cause,
       AlarmInv, clockVars
  <2>3. ParentInv' /\ ForestInv'
    BY <1>3, WaitForest DEF WaitedFor
  <2> QED
    BY <2>1, <2>2, <2>3
<1>4. CASE Run \/ Pass \/ SetBack
  <2> USE DEF Run, Pass, SetBack, boxVars
  <2>1. TypeOK'
    BY <1>4 DEF TypeOK
  <2>2. EmptyInv' /\ StatusInv' /\ AlarmInv' /\ ParentInv' /\ ForestInv'
    BY <1>4 DEF EmptyInv, Box, StatusInv, AlarmInv, ParentInv, ForestInv
  <2>3. CauseInv'
    <3>1. limits \in [time : Limit, wall : Limit]
      BY DEF TypeOK
    <3>2. Cause => Cause'
      BY <1>4, <3>1 DEF TypeOK, Cause, Exceeds, Limit, NoLimit
    <3>3. steps > 0 => steps' > 0
      BY <1>4 DEF TypeOK
    <3> QED
      BY <1>4, <3>2, <3>3 DEF CauseInv
  <2> QED
    BY <2>1, <2>2, <2>3
<1> QED
  BY <1>1, <1>2, <1>3, <1>4 DEF World, Killed, Status

(* The steps of the container.                                             *)

LEMMA AlarmStepInv ==
  ASSUME Inv, Alarm
  PROVE  Inv'
<1> USE DEF Inv, Watching, Alarm, AfterInterrupt, boxVars, clockVars
<1>1. TypeOK'
  BY DEF TypeOK, Pc
<1>2. ParentInv' /\ ForestInv' /\ EmptyInv' /\ StatusInv'
  BY DEF ParentInv, ForestInv, EmptyInv, Box, StatusInv, AlarmInv
<1>3. CauseInv' /\ AlarmInv'
  BY DEF CauseInv, Cause, AlarmInv
<1> QED
  BY <1>1, <1>2, <1>3

LEMMA TimerRunsOrNot == TimerRuns(Interval) \in BOOLEAN
BY Zenon DEF TimerRuns

\* The steps of wait_for_slave() that leave the box alone.
LEMMA WatchInv ==
  ASSUME Inv, Start \/ Interrupted \/ CheckTime \/ CheckWall
  PROVE  Inv'
<1> USE DEF Inv, Watching, Start, Interrupted, CheckTime, CheckWall,
            watchVars, boxVars, clockVars
<1>1. TypeOK'
  BY TimerRunsOrNot DEF TypeOK, Pc
<1>2. ParentInv' /\ ForestInv' /\ EmptyInv' /\ StatusInv'
  BY DEF ParentInv, ForestInv, EmptyInv, Box, StatusInv, AlarmInv
<1>3. CauseInv' /\ AlarmInv'
  BY DEF CauseInv, Cause, AlarmInv
<1> QED
  BY <1>1, <1>2, <1>3

LEMMA ReapInv ==
  ASSUME Inv, SlaveEnded \/ \E p \in Process : WaitOne(p)
  PROVE  Inv'
<1> USE DEF Inv, Watching, SlaveEnded, WaitOne, watchVars, clockVars
<1>1. TypeOK'
  BY DEF TypeOK, Pc
<1>2. ParentInv' /\ ForestInv'
  BY WaitForest
<1>3. EmptyInv' /\ StatusInv'
  BY DEF TypeOK, EmptyInv, Box, StatusInv
<1>4. CauseInv' /\ AlarmInv'
  BY DEF StatusInv, CauseInv, Cause, AlarmInv
<1> QED
  BY <1>1, <1>2, <1>3, <1>4

LEMMA KillInv ==
  ASSUME Inv, KillAll \/ AllWaited
  PROVE  Inv'
<1> USE DEF Inv, Watching, KillAll, AllWaited, boxVars, clockVars
<1>1. TypeOK'
  BY DEF TypeOK, Pc
<1>2. ParentInv' /\ ForestInv' /\ StatusInv'
  BY DEF ParentInv, ForestInv, Box, StatusInv
<1>3. EmptyInv'
  BY ChildRemains DEF EmptyInv, Box
<1>4. CauseInv' /\ AlarmInv'
  BY DEF CauseInv, Cause, AlarmInv
<1> QED
  BY <1>1, <1>2, <1>3, <1>4

LEMMA MeasureInv ==
  ASSUME Inv, Measure
  PROVE  Inv'
<1> USE DEF Inv, Watching, Measure, boxVars, clockVars
<1>1. TypeOK'
  <2>1. result' \in [status : Status, time : -1..MaxTime, wall : Int,
                     timeExceeded : BOOLEAN, wallExceeded : BOOLEAN]
    BY DEF TypeOK, Exceeds
  <2> QED
    BY <2>1 DEF TypeOK, Pc
<1>2. ParentInv' /\ ForestInv' /\ EmptyInv' /\ StatusInv'
  BY DEF ParentInv, ForestInv, EmptyInv, Box, StatusInv
<1>3. CauseInv' /\ AlarmInv'
  BY DEF CauseInv, Cause, AlarmInv
<1> QED
  BY <1>1, <1>2, <1>3

LEMMA NextRunInv ==
  ASSUME Inv, NextRun
  PROVE  Inv'
<1> USE DEF Inv, Watching, NextRun, NewBox
<1>1. TypeOK'
  <2>1. result' \in [status : Status, time : -1..MaxTime, wall : Int,
                     timeExceeded : BOOLEAN, wallExceeded : BOOLEAN]
    BY DEF NoResult, Status
  <2>2. parent' \in [Process -> Process \cup {Self}]
    OBVIOUS
  <2> QED
    BY <2>1, <2>2 DEF TypeOK, Pc, Process, Status
<1>2. ParentInv' /\ ForestInv'
  BY DEF ParentInv, ForestInv, Box, Process, Self, Slave
<1>3. EmptyInv' /\ StatusInv' /\ CauseInv' /\ AlarmInv'
  BY DEF EmptyInv, StatusInv, CauseInv, AlarmInv
<1> QED
  BY <1>1, <1>2, <1>3

LEMMA NextInv == Inv /\ [Next]_vars => Inv'
<1> SUFFICES ASSUME Inv, [Next]_vars PROVE Inv'
  OBVIOUS
<1>1. CASE UNCHANGED vars
  BY <1>1 DEF vars, watchVars, boxVars, clockVars, Inv, TypeOK, ParentInv,
     ForestInv, EmptyInv, Box, StatusInv, CauseInv, Cause, AlarmInv, Watching
<1>2. CASE Next
  BY <1>2, WorldInv, AlarmStepInv, WatchInv, ReapInv, KillInv, MeasureInv,
     NextRunInv DEF Next, ContainerStep
<1> QED
  BY <1>1, <1>2

THEOREM Invariance == Spec => []Inv
BY InitInv, NextInv, PTL DEF Spec
-----------------------------------------------------------------------------
\* Type correctness of the container's watch and of its box.
THEOREM TypeCorrect == Spec => []TypeOK
<1>1. Inv => TypeOK
  BY DEF Inv
<1> QED
  BY <1>1, Invariance, PTL

\* When wait() has failed for want of children no process of the box is left,
\* however deep the program has forked: what is measured is final.
THEOREM BoxEmptied == Spec => []BoxIsEmptied
<1>1. Inv => BoxIsEmptied
  BY DEF Inv, EmptyInv, Box, BoxIsEmptied
<1> QED
  BY <1>1, Invariance, PTL

\* The result of every run tells why it has ended.
THEOREM EndExplained == Spec => []EndIsExplained
<1>1. Inv => EndIsExplained
  BY DEF Inv, TypeOK, Status, StatusInv, CauseInv, EndIsExplained
<1> QED
  BY <1>1, Invariance, PTL

\* Neither an alarm nor an adopted process that ends makes the container die.
THEOREM ContainerNeverDies == Spec => []NeverDies
<1>1. Inv => NeverDies
  BY DEF Inv, AlarmInv, NeverDies
<1> QED
  BY <1>1, Invariance, PTL
=============================================================================
