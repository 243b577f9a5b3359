-------------------------------- MODULE Pool --------------------------------
(***************************************************************************)
(* Class Pool of include/util/pool.h, shared by threads.  Every access to  *)
(* the TBB queue and to the atomic counter is a step of its own, so calls  *)
(* of different threads interleave between the size check and the push of  *)
(* Restore, between empty() and try_pop of Acquire, and between a pop or   *)
(* push and the counter.                                                   *)
(*                                                                         *)
(* The queue, tbb::concurrent_bounded_queue, is external.  As the code     *)
(* uses it: pop takes the oldest item or waits its turn, push serves the   *)
(* thread that has waited longest, and size() is the number of items less  *)
(* the number of waiting threads, so it may be negative.                   *)
(***************************************************************************)
EXTENDS Integers, Sequences, FiniteSets

CONSTANTS
  Threads,    \* the threads that share the pool
  Objects,    \* names for the objects alive at one time
  MaxCnt,     \* m_sizeFlexibleMaxCnt
  Modulus     \* 2^w, for the w bits of size_t

ASSUME ThreadsAssumption == IsFiniteSet(Threads) /\ Threads # {}

ASSUME MaxCntAssumption == MaxCnt \in Nat \ {0}

(* size_t tells apart the sizes the queue can have. *)
ASSUME ModulusAssumption == Modulus \in Nat /\ Modulus > MaxCnt + 2 * Cardinality(Threads)

ASSUME ObjectsAssumption ==
  Objects \cap {"none", "empty", "stored", "refused", "null"} = {}

VARIABLES
  items,     \* m_queue
  waiters,   \* the threads blocked in m_queue.pop
  useCnt,    \* m_sizeUseCnt
  pc,        \* where each thread is
  arg,       \* the object of the call under way
  isCreate,  \* the is_create parameter of the call under way
  held,      \* the objects each thread has a pointer to, outside a call
  ret,       \* what the last call of each thread has come to
  net        \* objects stored by Create less objects taken by WaitAcquire,
             \* or Release, none of which m_sizeUseCnt counts

vars == <<items, waiters, useCnt, pc, arg, isCreate, held, ret, net>>

None == "none"

Init ==
  /\ items = <<>>
  /\ waiters = <<>>
  /\ useCnt = 0
  /\ pc = [t \in Threads |-> "idle"]
  /\ arg = [t \in Threads |-> None]
  /\ isCreate = [t \in Threads |-> FALSE]
  /\ held = [t \in Threads |-> {}]
  /\ ret = [t \in Threads |-> None]
  /\ net = 0

Elems(q) == {q[i] : i \in DOMAIN q}

(* The objects nobody has a pointer to: their names are free for new ones. *)
Fresh == Objects \ (Elems(items) \cup Elems(arg) \cup UNION {held[t] : t \in Threads})

At(t, p) == pc' = [pc EXCEPT ![t] = p]

Return(t, r) == ret' = [ret EXCEPT ![t] = r]

(* m_queue.size(). *)
Size == Len(items) - Len(waiters)

(* Mutation of AsSize: the comparison is made with signed numbers. *)
AsSigned(n) == n

(* The conversion of an int32_t operand that is compared with a size_t. *)
AsSize(n) == n % Modulus
-----------------------------------------------------------------------------
(* Acquire: m_queue.empty(). *)
Acquire(t) ==
  /\ pc[t] = "idle"
  /\ IF Size <= 0
       THEN Return(t, "empty") /\ UNCHANGED pc
       ELSE At(t, "pop") /\ UNCHANGED ret
  /\ UNCHANGED <<items, waiters, useCnt, arg, isCreate, held, net>>

(* Mutation of TryPop: front() for a pop. *)
TryFront(t) ==
  /\ pc[t] = "pop"
  /\ items # <<>>
  /\ arg' = [arg EXCEPT ![t] = Head(items)]
  /\ At(t, "count")
  /\ Return(t, Head(items))
  /\ UNCHANGED <<items, waiters, useCnt, isCreate, held, net>>

(* Acquire: m_queue.try_pop. *)
TryPop(t) ==
  /\ pc[t] = "pop"
  /\ IF items = <<>>
       THEN Return(t, "empty") /\ At(t, "idle") /\ UNCHANGED <<items, arg>>
       ELSE /\ arg' = [arg EXCEPT ![t] = Head(items)]
            /\ items' = Tail(items)
            /\ At(t, "count")
            /\ Return(t, Head(items))
  /\ UNCHANGED <<waiters, useCnt, isCreate, held, net>>

(* Acquire: m_sizeUseCnt.fetch_add(1) and the return of the object. *)
Count(t) ==
  /\ pc[t] = "count"
  /\ useCnt' = (useCnt + 1) % Modulus
  /\ held' = [held EXCEPT ![t] = @ \cup {arg[t]}]
  /\ arg' = [arg EXCEPT ![t] = None]
  /\ At(t, "idle")
  /\ UNCHANGED <<items, waiters, isCreate, ret, net>>

(* WaitAcquire: m_queue.pop, which delivers at once or blocks. *)
WaitAcquire(t) ==
  /\ pc[t] = "idle"
  /\ IF items = <<>>
       THEN /\ waiters' = Append(waiters, t)
            /\ At(t, "wait")
            /\ UNCHANGED <<items, held, ret, net>>
       ELSE /\ items' = Tail(items)
            /\ held' = [held EXCEPT ![t] = @ \cup {Head(items)}]
            /\ Return(t, Head(items))
            /\ net' = (net - 1) % Modulus
            /\ UNCHANGED <<waiters, pc>>
  /\ UNCHANGED <<useCnt, arg, isCreate>>

(* Mutation of Restore: the limit is off by one. *)
RestoreAtLimit(t, o, c) ==
  /\ pc[t] = "idle"
  /\ o # None /\ AsSize(Size) <= MaxCnt
  /\ At(t, "push")
  /\ arg' = [arg EXCEPT ![t] = o]
  /\ isCreate' = [isCreate EXCEPT ![t] = c]
  /\ held' = [held EXCEPT ![t] = @ \ {o}]
  /\ UNCHANGED <<items, waiters, useCnt, ret, net>>

(* Restore(o, c): the test for a null object, then the size check.  An     *)
(* object that is refused stays with the caller, or with nobody when the   *)
(* caller had just made it.                                                *)
Restore(t, o, c) ==
  /\ pc[t] = "idle"
  /\ IF o # None /\ AsSize(Size) < MaxCnt
       THEN /\ At(t, "push")
            /\ arg' = [arg EXCEPT ![t] = o]
            /\ isCreate' = [isCreate EXCEPT ![t] = c]
            /\ held' = [held EXCEPT ![t] = @ \ {o}]
            /\ UNCHANGED ret
       ELSE /\ Return(t, IF o = None THEN "null" ELSE "refused")
            /\ UNCHANGED <<pc, arg, isCreate, held>>
  /\ UNCHANGED <<items, waiters, useCnt, net>>

(* Mutation of Push: Create discounts as well. *)
PushThenUncount(t) ==
  /\ pc[t] = "push"
  /\ waiters = <<>>
  /\ items' = Append(items, arg[t])
  /\ Return(t, "stored")
  /\ At(t, "uncount")
  /\ net' = (net + (IF isCreate[t] THEN 1 ELSE 0)) % Modulus
  /\ arg' = [arg EXCEPT ![t] = None]
  /\ UNCHANGED <<waiters, held, useCnt, isCreate>>

(* Restore: m_queue.push.  Create ends here. *)
Push(t) ==
  /\ pc[t] = "push"
  /\ LET next == IF isCreate[t] THEN "idle" ELSE "uncount" IN
     IF waiters = <<>>
       THEN /\ items' = Append(items, arg[t])
            /\ Return(t, "stored")
            /\ At(t, next)
            /\ UNCHANGED <<waiters, held>>
       ELSE LET w == Head(waiters) IN
            /\ waiters' = Tail(waiters)
            /\ held' = [held EXCEPT ![w] = @ \cup {arg[t]}]
            /\ ret' = [ret EXCEPT ![t] = "stored", ![w] = arg[t]]
            /\ pc' = [pc EXCEPT ![t] = next, ![w] = "idle"]
            /\ UNCHANGED items
  /\ net' = (net + (IF isCreate[t] THEN 1 ELSE 0) - (IF waiters # <<>> THEN 1 ELSE 0)) % Modulus
  /\ arg' = [arg EXCEPT ![t] = None]
  /\ UNCHANGED <<useCnt, isCreate>>

(* Restore: m_sizeUseCnt.fetch_sub(1). *)
Uncount(t) ==
  /\ pc[t] = "uncount"
  /\ useCnt' = (useCnt - 1) % Modulus
  /\ At(t, "idle")
  /\ UNCHANGED <<items, waiters, arg, isCreate, held, ret, net>>

(* A caller lets its last pointer to an object go. *)
Drop(t) ==
  /\ \E o \in held[t] : held' = [held EXCEPT ![t] = @ \ {o}]
  /\ UNCHANGED <<items, waiters, useCnt, pc, arg, isCreate, ret, net>>

(* ~Pool, when no call is under way: Release pops what is in the queue.    *)
(* Like those of WaitAcquire, its pops are not counted.                    *)
Release ==
  /\ \A t \in Threads : pc[t] = "idle"
  /\ items' = <<>>
  /\ net' = (net - Len(items)) % Modulus
  /\ pc' = [t \in Threads |-> "gone"]
  /\ UNCHANGED <<waiters, useCnt, arg, isCreate, held, ret>>
-----------------------------------------------------------------------------
Create(t) == \E o \in Fresh : Restore(t, o, TRUE)

(* SyncSessionPool passes Restore the sessions it has just connected. *)
RestoreNew(t) == \E o \in Fresh : Restore(t, o, FALSE)

RestoreHeld(t) == \E o \in held[t] \cup {None} : Restore(t, o, FALSE)

Step(t) == TryPop(t) \/ Count(t) \/ Push(t) \/ Uncount(t)

Call(t) ==
  \/ Acquire(t) \/ WaitAcquire(t)
  \/ Create(t) \/ RestoreNew(t) \/ RestoreHeld(t) \/ Drop(t)

Next == (\E t \in Threads : Step(t) \/ Call(t)) \/ Release

Spec == Init /\ [][Next]_vars
-----------------------------------------------------------------------------
(***************************************************************************)
(* Properties.                                                             *)
(***************************************************************************)
(* Type correctness.  The use count is an unsigned number of w bits. *)
TypeOK ==
  /\ items \in Seq(Objects)
  /\ waiters \in Seq(Threads)
  /\ useCnt \in 0 .. Modulus - 1
  /\ pc \in [Threads -> {"idle", "pop", "count", "wait", "push", "uncount", "gone"}]
  /\ arg \in [Threads -> Objects \cup {None}]
  /\ isCreate \in [Threads -> BOOLEAN]
  /\ held \in [Threads -> SUBSET Objects]
  /\ ret \in [Threads -> Objects \cup {"none", "empty", "stored", "refused", "null"}]
  /\ net \in 0 .. Modulus - 1

Has(t) == held[t] \cup ({arg[t]} \ {None})

(* An object is in the queue once at most, or with one thread: no two      *)
(* threads acquire the same object, and none acquires one that another     *)
(* thread is still restoring.                                              *)
ObjectInOnePlace ==
  /\ \A i, j \in DOMAIN items : items[i] = items[j] => i = j
  /\ \A t \in Threads : Has(t) \cap Elems(items) = {}
  /\ \A t, u \in Threads : t # u => Has(t) \cap Has(u) = {}
  /\ \A t \in Threads : arg[t] \notin held[t]

(* Restore checks the size before it pushes, so threads that pass the      *)
(* check together pass the limit; by one object fewer than there are       *)
(* threads at most.                                                        *)
Overshoot == Len(items) < MaxCnt + Cardinality(Threads)

In(p) == {t \in Threads : pc[t] = p}

(* m_sizeUseCnt, whatever calls are under way: it counts what Create       *)
(* stored and is no longer in the queue, less what WaitAcquire took; a     *)
(* pop that has not counted yet and a push that has not discounted yet are *)
(* the only lag.  Restore of an object that did not come out of the pool   *)
(* makes it wrap below zero, and stay there.                               *)
UseCountBalance ==
  (useCnt + Len(items) + Cardinality(In("count"))) % Modulus
    = (net + Cardinality(In("uncount"))) % Modulus

(* A thread that waits when no Restore is past its size check waits for    *)
(* ever: size() is negative while it waits, and a negative size, compared  *)
(* as a size_t, makes every Restore and every Create refuse.               *)
WaiterStarves ==
  [][waiters # <<>> /\ In("push") = {} =>
       /\ In("push")' = {}
       /\ \A i \in DOMAIN waiters : i \in DOMAIN waiters' /\ waiters'[i] = waiters[i]]_vars

(* Pool, seen as PoolSpec. *)
Promise == INSTANCE PoolSpec WITH
  Limit <- MaxCnt, Slack <- Cardinality(Threads) - 1,
  avail <- items, waiting <- waiters, answer <- ret

(* The calls are linearizable: each takes effect in one step of PoolSpec,  *)
(* Acquire at empty() or try_pop, Restore at its size check or its push.   *)
Linearizable == Promise!Spec
=============================================================================
