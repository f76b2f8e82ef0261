-------------------------- MODULE SharedIdGetter --------------------------
(***************************************************************************)
(* The pool of user ids that all workers share (src/src/                   *)
(* shared_id_getter.cpp): a stack in shared memory under a process-shared  *)
(* mutex, and how the workers use it (src/src/worker.cpp).  A worker takes *)
(* an id for every container it creates; it puts back the ids of its       *)
(* temporary containers, one after the other, when a request is done.      *)
(*                                                                         *)
(* get() and put() are taken apart at every access to the shared stack.  A *)
(* worker may die at any step, also with the mutex locked: the SIGCHLD     *)
(* handler ends it wherever it is.  Nobody unlocks the mutex then.         *)
(***************************************************************************)
EXTENDS Integers, FiniteSets

CONSTANTS
  Workers,   \* the worker processes
  FirstUid,  \* start: the lowest id
  Count,     \* count: how many ids there are
  Nobody     \* the holder of the mutex when it is free

ASSUME CountAssumption == FirstUid \in Nat /\ Count \in Nat \ {0}
ASSUME NobodyAssumption == Nobody \notin Workers

Ids == FirstUid..(FirstUid + Count - 1)
Slots == 0..(Count - 1)

VARIABLES
  ids,    \* ids_stack_
  head,   \* stack_head_: the ids below it are free
  lock,   \* the worker that has locked mutex_, or Nobody
  pc,     \* where each worker is
  arg,    \* the id each worker is putting back, or has put back last
  held,   \* the ids each worker has taken and not put back
  temps,  \* the ids of the temporary containers each worker has to wait for
  live    \* the ids under which containers of each worker still exist

stack == <<ids, head>>
vars == <<ids, head, lock, pc, arg, held, temps, live>>

Pc == {"idle", "get", "got", "give", "put", "stored", "wait", "dead"}

TypeOK ==
  /\ ids \in [Slots -> Ids]
  /\ head \in 0..Count
  /\ lock \in Workers \cup {Nobody}
  /\ pc \in [Workers -> Pc]
  /\ arg \in [Workers -> Ids]
  /\ held \in [Workers -> SUBSET Ids]
  /\ temps \in [Workers -> SUBSET Ids]
  /\ live \in [Workers -> SUBSET Ids]

\* The constructor: the lower an id is, the closer it is to the head.
Init ==
  /\ ids = [k \in Slots |-> FirstUid + Count - 1 - k]
  /\ head = Count
  /\ lock = Nobody
  /\ pc = [w \in Workers |-> "idle"]
  /\ arg = [w \in Workers |-> FirstUid]
  /\ held = [w \in Workers |-> {}]
  /\ temps = [w \in Workers |-> {}]
  /\ live = [w \in Workers |-> {}]

Lock(w) == lock = Nobody /\ lock' = w
Goto(w, p) == pc' = [pc EXCEPT ![w] = p]
-----------------------------------------------------------------------------
\* Mutant: get() does not lock the mutex.
EnterGetUnlocked(w) ==
  /\ pc[w] = "idle"
  /\ lock' = w
  /\ Goto(w, "get")
  /\ UNCHANGED <<stack, arg, held, temps, live>>

\* get(), called by prepare_containers(): the mutex is locked.
EnterGet(w) ==
  /\ pc[w] = "idle"
  /\ Lock(w)
  /\ Goto(w, "get")
  /\ UNCHANGED <<stack, arg, held, temps, live>>

\* Mutant: get() does not check that the stack is not empty.
PopAnyway(w) ==
  /\ pc[w] = "get"
  /\ head' = head - 1
  /\ Goto(w, "got")
  /\ UNCHANGED <<ids, lock, arg, held, temps, live>>

\* get(): the head is moved, unless the stack is empty: see Dies.
Pop(w) ==
  /\ pc[w] = "get"
  /\ head # 0
  /\ head' = head - 1
  /\ Goto(w, "got")
  /\ UNCHANGED <<ids, lock, arg, held, temps, live>>

\* get(): the id is read and the mutex unlocked; the worker creates a
\* permanent or a temporary container with it.
Take(w) ==
  /\ pc[w] = "got"
  /\ lock' = Nobody
  /\ Goto(w, "idle")
  /\ held' = [held EXCEPT ![w] = @ \cup {ids[head]}]
  /\ live' = [live EXCEPT ![w] = @ \cup {ids[head]}]
  /\ \/ temps' = [temps EXCEPT ![w] = @ \cup {ids[head]}]
     \/ UNCHANGED temps
  /\ UNCHANGED <<stack, arg>>

\* put(), called by collect_results(): the mutex is locked.
EnterPut(w, id) ==
  /\ pc[w] \in {"idle", "give"}
  /\ id \in temps[w]
  /\ Lock(w)
  /\ arg' = [arg EXCEPT ![w] = id]
  /\ Goto(w, "put")
  /\ UNCHANGED <<stack, held, temps, live>>

\* put(): the id is stored at the head, unless the stack is full: see Dies.
Store(w) ==
  /\ pc[w] = "put"
  /\ head # Count
  /\ ids' = [ids EXCEPT ![head] = arg[w]]
  /\ Goto(w, "stored")
  /\ UNCHANGED <<head, lock, arg, held, temps, live>>

\* Mutant: put() does not move the head.
PushNothing(w) ==
  /\ pc[w] = "stored"
  /\ lock' = Nobody
  /\ held' = [held EXCEPT ![w] = @ \ {arg[w]}]
  /\ Goto(w, "wait")
  /\ UNCHANGED <<stack, arg, temps, live>>

\* put(): the head is moved and the mutex unlocked.
Push(w) ==
  /\ pc[w] = "stored"
  /\ head' = head + 1
  /\ lock' = Nobody
  /\ held' = [held EXCEPT ![w] = @ \ {arg[w]}]
  /\ Goto(w, "wait")
  /\ UNCHANGED <<ids, arg, temps, live>>

\* Mutant: temporary_containers_ is not cleared.
WaitForKeeps(w) ==
  /\ pc[w] = "wait"
  /\ arg[w] \notin live[w]
  /\ Goto(w, "give")
  /\ UNCHANGED <<stack, lock, arg, held, temps, live>>

\* Mutant: the worker does not wait for its temporary containers.
WaitForNot(w) ==
  /\ pc[w] = "wait"
  /\ temps' = [temps EXCEPT ![w] = @ \ {arg[w]}]
  /\ Goto(w, IF temps[w] \subseteq {arg[w]} THEN "idle" ELSE "give")
  /\ UNCHANGED <<stack, lock, arg, held, live>>

\* collect_results(): only now waitpid() for the container returns.  The
\* worker takes no id before it has done so for all its temporary ones.
WaitFor(w) ==
  /\ pc[w] = "wait"
  /\ arg[w] \notin live[w]
  /\ temps' = [temps EXCEPT ![w] = @ \ {arg[w]}]
  /\ Goto(w, IF temps[w] \subseteq {arg[w]} THEN "idle" ELSE "give")
  /\ UNCHANGED <<stack, lock, arg, held, live>>

\* A container ends: it has delivered its results, or it failed, or its
\* worker is dead.
ContainerExits(w, id) ==
  /\ id \in live[w]
  /\ live' = [live EXCEPT ![w] = @ \ {id}]
  /\ UNCHANGED <<stack, lock, pc, arg, held, temps>>

\* The worker dies: for an empty or a full stack, or for any other reason.
\* The mutex stays as it is.
Dies(w) ==
  /\ pc[w] # "dead"
  /\ Goto(w, "dead")
  /\ UNCHANGED <<stack, lock, arg, held, temps, live>>

WorkerNext(w) ==
  \/ EnterGet(w) \/ Pop(w) \/ Take(w)
  \/ \E id \in Ids : EnterPut(w, id)
  \/ Store(w) \/ Push(w) \/ WaitFor(w) \/ Dies(w)
  \/ \E id \in Ids : ContainerExits(w, id)

Next == \E w \in Workers : WorkerNext(w)

Spec == Init /\ [][Next]_vars
-----------------------------------------------------------------------------
(* Properties.                                                             *)

Free == {ids[k] : k \in 0..(head - 1)}
AllHeld == UNION {held[w] : w \in Workers}

\* No id is taken by two workers, or taken and free at once, and none is on
\* the free part of the stack twice: so get() never returns an id in use,
\* whenever workers die.
UniqueIds ==
  /\ \A v, w \in Workers : v # w => held[v] \cap held[w] = {}
  /\ lock = Nobody => Free \cap AllHeld = {}
  /\ \A j, k \in 0..(head - 1) : j # k => ids[j] # ids[k]

\* No id gets lost: outside of the critical sections every id is free or
\* taken; get() fails only when workers really hold all the ids; and put()
\* never finds the stack full ("Failed to put ID").
IdsConserved ==
  /\ lock = Nobody => Free \cup AllHeld = Ids
  /\ \A w \in Workers : pc[w] = "get" /\ head = 0 => AllHeld = Ids
  /\ \A w \in Workers : pc[w] = "put" => head < Count

\* Two containers that exist with one user id ("All containers must have
\* distinct user ids", src/src/daemon.cpp:188): collect_results() puts the id
\* of a container back before it has waited for it.  That is the only way: one
\* of the two has delivered its results, and its worker is waiting for it or
\* died doing so.
SharedIdsAreLate ==
  \A v, w \in Workers : v # w =>
    \A id \in live[v] \cap live[w] :
      \E u \in {v, w} : pc[u] \in {"wait", "dead"} /\ arg[u] = id
=============================================================================
