----------------------- MODULE SharedIdGetter_proofs -----------------------
(***************************************************************************)
(* The pool of user ids, for any number of workers and ids: UniqueIds and  *)
(* IdsConserved are invariants of SharedIdGetter.                          *)
(*                                                                         *)
(* They are proved from one inductive invariant, Inv.  None of them is     *)
(* inductive alone: between the two halves of get() an id is neither free  *)
(* nor taken, and between those of put() it is both, so Inv says what the  *)
(* holder of the mutex is at, and that everyone else is outside.           *)
(***************************************************************************)
EXTENDS SharedIdGetter, FiniteSetTheorems, TLAPS

Inside == {"get", "got", "put", "stored"}

IsFree(id) == \E k \in Slots : k < head /\ ids[k] = id
IsHeld(id) == \E w \in Workers : id \in held[w]

\* Whoever is inside of get() or put() has locked the mutex.
LockInv == \A w \in Workers : pc[w] \in Inside => lock = w

\* A living worker still has the ids of its temporary containers, but the
\* one it has just put back; it has the one it is putting back.
TempsInv ==
  \A w \in Workers :
    /\ pc[w] \in {"put", "stored"} => arg[w] \in held[w]
    /\ pc[w] # "dead" => \A id \in temps[w] :
         id \in held[w] \/ (pc[w] = "wait" /\ id = arg[w])

\* The ids on the free part of the stack, and those of each worker, differ.
DistinctInv ==
  /\ \A v, w \in Workers : v # w => held[v] \cap held[w] = {}
  /\ \A j, k \in Slots : j < head /\ k < head /\ j # k => ids[j] # ids[k]
  /\ \A w \in Workers, k \in Slots : k < head => ids[k] \notin held[w]

\* The slot at the head while get() or put() is half done.
HalfDoneInv ==
  \A w \in Workers :
    /\ pc[w] = "got" =>
         /\ head < Count
         /\ ~IsHeld(ids[head])
         /\ \A k \in Slots : k < head => ids[k] # ids[head]
    /\ pc[w] = "stored" => head < Count /\ ids[head] = arg[w]

\* No id is lost, except by a worker that dies in the middle of get().
ConservedInv ==
  \A id \in Ids :
    /\ lock = Nobody => IsFree(id) \/ IsHeld(id)
    /\ \A w \in Workers :
         /\ pc[w] \in {"get", "put", "stored"} => IsFree(id) \/ IsHeld(id)
         /\ pc[w] = "got" => IsFree(id) \/ IsHeld(id) \/ id = ids[head]

Inv == TypeOK /\ LockInv /\ TempsInv /\ DistinctInv /\ HalfDoneInv
       /\ ConservedInv
-----------------------------------------------------------------------------
LEMMA IdFacts ==
  /\ Slots \subseteq Nat /\ 0 \in Slots
  /\ IsFiniteSet(Slots) /\ Cardinality(Slots) = Count
  /\ IsFiniteSet(Ids) /\ Cardinality(Ids) = Count
  /\ FirstUid \in Ids
<1>1. IsFiniteSet(Slots) /\ Cardinality(Slots) = Count
  BY FS_Interval, CountAssumption DEF Slots
<1>2. IsFiniteSet(Ids) /\ Cardinality(Ids) = Count
  BY FS_Interval, CountAssumption DEF Ids
<1> QED
  BY <1>1, <1>2, CountAssumption DEF Slots, Ids

\* A full stack holds every id: what is stored there is distinct, and there
\* are as many slots as ids.
LEMMA FullStack ==
  ASSUME TypeOK, DistinctInv, head = Count, NEW id \in Ids
  PROVE  \E k \in Slots : ids[k] = id
<1>1. ids \in Injection(Slots, Ids)
  <2>1. \A j, k \in Slots : ids[j] = ids[k] => j = k
    BY CountAssumption DEF DistinctInv, Slots, TypeOK
  <2> QED
    BY <2>1 DEF Injection, IsInjective, TypeOK
<1>2. ids \in Surjection(Slots, Ids)
  BY <1>1, IdFacts, FS_Injection
<1> QED
  BY <1>2 DEF Surjection

LEMMA InitInv == Init => Inv
<1> SUFFICES ASSUME Init PROVE Inv
  OBVIOUS
<1> USE DEF Init
<1>1. TypeOK
  BY CountAssumption, IdFacts DEF TypeOK, Slots, Ids, Pc
<1>2. LockInv /\ TempsInv /\ HalfDoneInv
  BY DEF LockInv, TempsInv, HalfDoneInv, Inside
<1>3. DistinctInv
  BY CountAssumption DEF DistinctInv, Slots
<1>4. ConservedInv
  <2> SUFFICES ASSUME NEW id \in Ids PROVE IsFree(id)
    BY DEF ConservedInv
  <2> DEFINE k == FirstUid + Count - 1 - id
  <2>1. k \in Slots /\ k < head /\ ids[k] = id
    BY CountAssumption DEF Slots, Ids
  <2> QED
    BY <2>1 DEF IsFree
<1> QED
  BY <1>1, <1>2, <1>3, <1>4 DEF Inv
-----------------------------------------------------------------------------
(* One lemma for each action, with one step for each part of Inv that the  *)
(* action can disturb.                                                     *)

LEMMA EnterGetInv ==
  ASSUME Inv, NEW w \in Workers, EnterGet(w)
  PROVE  Inv'
<1> USE DEF EnterGet, Lock, Goto, stack
<1>1. TypeOK'
  BY DEF Inv, TypeOK, Pc
<1>2. LockInv'
  BY NobodyAssumption DEF Inv, TypeOK, LockInv, Inside
<1>3. TempsInv' /\ DistinctInv' /\ HalfDoneInv'
  BY DEF Inv, TypeOK, TempsInv, DistinctInv, HalfDoneInv, IsHeld
<1>4. ConservedInv'
  BY NobodyAssumption
     DEF Inv, TypeOK, LockInv, Inside, ConservedInv, IsFree, IsHeld
<1> QED
  BY <1>1, <1>2, <1>3, <1>4 DEF Inv

LEMMA PopInv ==
  ASSUME Inv, NEW w \in Workers, Pop(w)
  PROVE  Inv'
<1> USE DEF Pop, Goto
<1>0. /\ head \in Nat /\ head - 1 \in Slots /\ head - 1 < head
      /\ head' = head - 1 /\ head' \in 0..Count /\ head' < Count
  BY CountAssumption DEF Inv, TypeOK, Slots
<1>1. TypeOK'
  BY <1>0 DEF Inv, TypeOK, Pc
<1>2. LockInv'
  BY DEF Inv, TypeOK, LockInv, Inside
<1>3. TempsInv'
  BY DEF Inv, TypeOK, TempsInv
<1>4. DistinctInv'
  <2>1. \A k \in Slots : k < head' => k < head
    BY <1>0, IdFacts
  <2> QED
    BY <2>1 DEF Inv, DistinctInv
<1>5. HalfDoneInv'
  <2>1. \A v \in Workers : v # w => pc'[v] \notin {"got", "stored"}
    BY NobodyAssumption DEF Inv, TypeOK, LockInv, Inside
  <2>2. pc'[w] = "got"
    BY DEF Inv, TypeOK
  <2>3. ~IsHeld(ids[head - 1])
    BY <1>0 DEF Inv, DistinctInv, IsHeld
  <2>4. \A k \in Slots : k < head - 1 => ids[k] # ids[head - 1]
    BY <1>0, IdFacts DEF Inv, DistinctInv
  <2> QED
    BY <1>0, <2>1, <2>2, <2>3, <2>4 DEF HalfDoneInv, IsHeld
<1>6. ConservedInv'
  <2> SUFFICES ASSUME NEW id \in Ids
               PROVE  /\ lock' # Nobody
                      /\ \A v \in Workers :
                           /\ pc'[v] \notin {"get", "put", "stored"}
                           /\ pc'[v] = "got" =>
                                IsFree(id)' \/ IsHeld(id)' \/ id = ids'[head']
    BY DEF ConservedInv
  <2>1. lock = w /\ lock' # Nobody
    BY NobodyAssumption DEF Inv, LockInv, Inside
  <2>2. \A v \in Workers : v # w => pc'[v] \notin Inside
    BY <2>1 DEF Inv, TypeOK, LockInv
  <2>3. pc'[w] = "got"
    BY DEF Inv, TypeOK
  <2>4. IsFree(id) \/ IsHeld(id)
    BY DEF Inv, ConservedInv
  <2>5. IsFree(id) => IsFree(id)' \/ id = ids'[head']
    BY <1>0, IdFacts DEF IsFree
  <2>6. IsHeld(id) => IsHeld(id)'
    BY DEF IsHeld
  <2> QED
    BY <2>1, <2>2, <2>3, <2>4, <2>5, <2>6 DEF Inside
<1> QED
  BY <1>1, <1>2, <1>3, <1>4, <1>5, <1>6 DEF Inv

LEMMA TakeInv ==
  ASSUME Inv, NEW w \in Workers, Take(w)
  PROVE  Inv'
<1> USE DEF Take, Goto, stack
<1>0. /\ lock = w /\ head \in Slots /\ ids[head] \in Ids
      /\ ~IsHeld(ids[head])
      /\ \A k \in Slots : k < head => ids[k] # ids[head]
  BY CountAssumption
     DEF Inv, TypeOK, LockInv, HalfDoneInv, Inside, Slots
<1>1. TypeOK'
  BY <1>0 DEF Inv, TypeOK, Pc
<1>2. \A v \in Workers : pc'[v] \notin Inside
  BY <1>0 DEF Inv, TypeOK, LockInv, Inside
<1>3. LockInv' /\ HalfDoneInv'
  BY <1>2 DEF LockInv, HalfDoneInv, Inside
<1>4. TempsInv'
  BY <1>2 DEF Inv, TypeOK, TempsInv, Inside
<1>5. DistinctInv'
  BY <1>0 DEF Inv, TypeOK, DistinctInv, IsHeld
<1>6. ConservedInv'
  <2> SUFFICES ASSUME NEW id \in Ids
               PROVE  IsFree(id)' \/ IsHeld(id)'
    BY <1>2 DEF ConservedInv, Inside
  <2>1. IsFree(id) \/ IsHeld(id) \/ id = ids[head]
    BY DEF Inv, ConservedInv
  <2> QED
    BY <2>1 DEF IsFree, IsHeld, Inv, TypeOK
<1> QED
  BY <1>1, <1>3, <1>4, <1>5, <1>6 DEF Inv

LEMMA EnterPutInv ==
  ASSUME Inv, NEW w \in Workers, NEW id \in Ids, EnterPut(w, id)
  PROVE  Inv'
<1> USE DEF EnterPut, Lock, Goto, stack
<1>1. TypeOK'
  BY DEF Inv, TypeOK, Pc
<1>2. LockInv'
  BY NobodyAssumption DEF Inv, TypeOK, LockInv, Inside
<1>3. TempsInv' /\ DistinctInv'
  BY DEF Inv, TypeOK, TempsInv, DistinctInv
<1>4. HalfDoneInv'
  BY DEF Inv, TypeOK, HalfDoneInv, IsHeld
<1>5. ConservedInv'
  BY NobodyAssumption
     DEF Inv, TypeOK, LockInv, Inside, ConservedInv, IsFree, IsHeld
<1> QED
  BY <1>1, <1>2, <1>3, <1>4, <1>5 DEF Inv

LEMMA StoreInv ==
  ASSUME Inv, NEW w \in Workers, Store(w)
  PROVE  Inv'
<1> USE DEF Store, Goto
<1>0. /\ lock = w /\ head \in Slots /\ head < Count
      /\ \A k \in Slots : k < head => ids'[k] = ids[k]
      /\ ids'[head] = arg[w]
  BY CountAssumption DEF Inv, TypeOK, LockInv, Inside, Slots
<1>1. TypeOK'
  BY DEF Inv, TypeOK, Pc
<1>2. LockInv' /\ TempsInv'
  BY DEF Inv, TypeOK, LockInv, TempsInv, Inside
<1>3. DistinctInv'
  BY <1>0 DEF Inv, DistinctInv
<1>4. \A v \in Workers : v # w => pc'[v] \notin Inside
  BY <1>0 DEF Inv, TypeOK, LockInv
<1>5. pc'[w] = "stored"
  BY DEF Inv, TypeOK
<1>6. HalfDoneInv'
  BY <1>0, <1>4, <1>5 DEF HalfDoneInv, Inside
<1>7. ConservedInv'
  <2> SUFFICES ASSUME NEW id \in Ids
               PROVE  IsFree(id)' \/ IsHeld(id)'
    BY DEF ConservedInv
  <2>1. IsFree(id) \/ IsHeld(id)
    BY DEF Inv, ConservedInv
  <2> QED
    BY <1>0, <2>1 DEF IsFree, IsHeld
<1> QED
  BY <1>1, <1>2, <1>3, <1>6, <1>7 DEF Inv

LEMMA PushInv ==
  ASSUME Inv, NEW w \in Workers, Push(w)
  PROVE  Inv'
<1> USE DEF Push, Goto
<1>0. /\ lock = w /\ head \in Slots /\ head < Count
      /\ ids[head] = arg[w] /\ arg[w] \in held[w]
  BY CountAssumption
     DEF Inv, TypeOK, LockInv, TempsInv, HalfDoneInv, Inside, Slots
<1>1. TypeOK'
  BY <1>0, CountAssumption DEF Inv, TypeOK, Pc, Slots
<1>2. \A v \in Workers : pc'[v] \notin Inside
  BY <1>0 DEF Inv, TypeOK, LockInv, Inside
<1>3. LockInv' /\ HalfDoneInv'
  BY <1>2 DEF LockInv, HalfDoneInv, Inside
<1>4. TempsInv'
  BY <1>2 DEF Inv, TypeOK, TempsInv, Inside
<1>5. DistinctInv'
  <2>1. \A v \in Workers : held'[v] \subseteq held[v]
    BY DEF Inv, TypeOK
  <2>2. \A v \in Workers : arg[w] \notin held'[v]
    BY <1>0 DEF Inv, TypeOK, DistinctInv
  <2>3. \A k \in Slots : k < head' => k < head \/ k = head
    BY <1>0 DEF Slots
  <2>4. \A k \in Slots : k < head => ids[k] # ids[head]
    BY <1>0 DEF Inv, DistinctInv
  <2>5. \A j, k \in Slots : j < head' /\ k < head' /\ j # k => ids[j] # ids[k]
    BY <2>3, <2>4 DEF Inv, DistinctInv
  <2>6. \A v \in Workers, k \in Slots : k < head' => ids[k] \notin held'[v]
    BY <1>0, <2>1, <2>2, <2>3 DEF Inv, DistinctInv
  <2> QED
    BY <2>1, <2>5, <2>6 DEF Inv, DistinctInv
<1>6. ConservedInv'
  <2> SUFFICES ASSUME NEW id \in Ids
               PROVE  IsFree(id)' \/ IsHeld(id)'
    BY <1>2 DEF ConservedInv, Inside
  <2>1. IsFree(id) \/ IsHeld(id)
    BY DEF Inv, ConservedInv
  <2>2. IsFree(id) => IsFree(id)'
    BY <1>0 DEF IsFree, Slots
  <2>3. IsHeld(id) => IsHeld(id)' \/ id = arg[w]
    BY DEF IsHeld, Inv, TypeOK
  <2>4. id = arg[w] => IsFree(id)'
    BY <1>0 DEF IsFree, Slots
  <2> QED
    BY <2>1, <2>2, <2>3, <2>4
<1> QED
  BY <1>1, <1>3, <1>4, <1>5, <1>6 DEF Inv

LEMMA OutsideInv ==
  ASSUME Inv, NEW w \in Workers,
         WaitFor(w) \/ Dies(w) \/ \E id \in Ids : ContainerExits(w, id)
  PROVE  Inv'
<1> USE DEF WaitFor, Dies, ContainerExits, Goto, stack
<1>1. TypeOK'
  BY DEF Inv, TypeOK, Pc
<1>2. LockInv'
  BY DEF Inv, TypeOK, LockInv, Inside
<1>3. TempsInv'
  BY DEF Inv, TypeOK, TempsInv
<1>4. DistinctInv' /\ HalfDoneInv'
  BY DEF Inv, TypeOK, DistinctInv, HalfDoneInv, IsHeld
<1>5. ConservedInv'
  BY DEF Inv, TypeOK, ConservedInv, IsFree, IsHeld
<1> QED
  BY <1>1, <1>2, <1>3, <1>4, <1>5 DEF Inv

LEMMA NextInv == Inv /\ [Next]_vars => Inv'
<1> SUFFICES ASSUME Inv, [Next]_vars PROVE Inv'
  OBVIOUS
<1>1. CASE UNCHANGED vars
  BY <1>1 DEF vars, Inv, TypeOK, LockInv, TempsInv, DistinctInv, HalfDoneInv,
              ConservedInv, IsFree, IsHeld
<1>2. ASSUME NEW w \in Workers, WorkerNext(w) PROVE Inv'
  BY <1>2, EnterGetInv, PopInv, TakeInv, EnterPutInv, StoreInv, PushInv,
     OutsideInv DEF WorkerNext
<1> QED
  BY <1>1, <1>2 DEF Next

THEOREM Invariance == Spec => []Inv
BY InitInv, NextInv, PTL DEF Spec
-----------------------------------------------------------------------------
\* Type correctness of the pool of ids.
THEOREM TypeCorrect == Spec => []TypeOK
<1>1. Inv => TypeOK
  BY DEF Inv
<1> QED
  BY <1>1, Invariance, PTL

\* get() never returns an id that is in use or free elsewhere on the stack.
THEOREM IdsAreUnique == Spec => []UniqueIds
<1>1. Inv => UniqueIds
  <2> SUFFICES ASSUME Inv PROVE UniqueIds
    OBVIOUS
  <2>1. \A k \in 0..(head - 1) : k \in Slots /\ k < head
    BY CountAssumption DEF Inv, TypeOK, Slots
  <2> QED
    BY <2>1 DEF Inv, DistinctInv, UniqueIds, Free, AllHeld
<1> QED
  BY <1>1, Invariance, PTL

\* A full stack would hold the very id put back.
LEMMA StackNeverFull ==
  ASSUME Inv, NEW w \in Workers, pc[w] = "put"
  PROVE  head < Count
<1> SUFFICES ASSUME head = Count PROVE FALSE
  BY CountAssumption DEF Inv, TypeOK
<1>1. arg[w] \in Ids /\ arg[w] \in held[w]
  BY DEF Inv, TypeOK, TempsInv
<1>2. PICK k \in Slots : ids[k] = arg[w]
  BY <1>1, FullStack DEF Inv
<1> QED
  BY <1>1, <1>2, CountAssumption DEF Inv, DistinctInv, Slots

\* No id is lost, get() fails only when all the ids are really in use, and
\* put() never.
THEOREM NoIdIsLost == Spec => []IdsConserved
<1>1. Inv => IdsConserved
  <2> SUFFICES ASSUME Inv PROVE IdsConserved
    OBVIOUS
  <2>1. \A id : IsFree(id) => id \in Free
    BY CountAssumption DEF Inv, TypeOK, Slots, IsFree, Free
  <2>2. \A id : IsHeld(id) <=> id \in AllHeld
    BY DEF IsHeld, AllHeld
  <2>3. Free \subseteq Ids /\ AllHeld \subseteq Ids
    BY CountAssumption DEF Inv, TypeOK, Slots, Free, AllHeld
  <2>4. head = 0 => \A id : ~IsFree(id)
    BY CountAssumption DEF IsFree, Slots
  <2>5. \A w \in Workers : pc[w] = "put" => head < Count
    BY StackNeverFull
  <2> QED
    BY <2>1, <2>2, <2>3, <2>4, <2>5 DEF Inv, ConservedInv, IdsConserved
<1> QED
  BY <1>1, Invariance, PTL

\* A container that exists has an id its worker still has, or the one that
\* the worker has put back without having waited for the container.
LiveInv ==
  \A w \in Workers : \A id \in live[w] :
    id \in held[w] \/ (pc[w] \in {"wait", "dead"} /\ arg[w] = id)

LEMMA LiveStep ==
  ASSUME TypeOK, LiveInv, [Next]_vars
  PROVE  LiveInv'
<1> USE DEF LiveInv, TypeOK, Goto, Lock, stack
<1> SUFFICES ASSUME NEW w \in Workers, WorkerNext(w) PROVE LiveInv'
  BY DEF Next, vars
<1>1. CASE EnterGet(w) BY <1>1 DEF EnterGet
<1>2. CASE Pop(w) BY <1>2 DEF Pop
<1>3. CASE Take(w) BY <1>3 DEF Take
<1>4. CASE \E id \in Ids : EnterPut(w, id) BY <1>4 DEF EnterPut
<1>5. CASE Store(w) BY <1>5 DEF Store
<1>6. CASE Push(w) BY <1>6 DEF Push
<1>7. CASE WaitFor(w) BY <1>7 DEF WaitFor
<1>8. CASE Dies(w) BY <1>8 DEF Dies
<1>9. CASE \E id \in Ids : ContainerExits(w, id) BY <1>9 DEF ContainerExits
<1> QED
  BY <1>1, <1>2, <1>3, <1>4, <1>5, <1>6, <1>7, <1>8, <1>9 DEF WorkerNext

\* Two containers have one id only while the worker of one of them waits for
\* it to end: ids that are taken are different.
THEOREM IdsSharedOnlyLate == Spec => []SharedIdsAreLate
<1>1. Init => LiveInv
  BY DEF Init, LiveInv
<1>2. Inv => TypeOK
  BY DEF Inv
<1>3. Inv /\ LiveInv => SharedIdsAreLate
  <2> SUFFICES ASSUME Inv, LiveInv, NEW v \in Workers, NEW w \in Workers,
                      v # w, NEW id \in live[v] \cap live[w]
               PROVE  \E u \in {v, w} : pc[u] \in {"wait", "dead"} /\ arg[u] = id
    BY DEF SharedIdsAreLate
  <2>1. id \notin held[v] \/ id \notin held[w]
    BY DEF Inv, DistinctInv
  <2> QED
    BY <2>1 DEF LiveInv
<1> QED
  BY <1>1, <1>2, <1>3, LiveStep, Invariance, PTL DEF Spec
=============================================================================
