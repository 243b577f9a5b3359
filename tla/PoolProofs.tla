----------------------------- MODULE PoolProofs -----------------------------
(***************************************************************************)
(* Proofs about Pool, for every number of threads and objects, every limit *)
(* and every width of size_t.                                              *)
(***************************************************************************)
EXTENDS Pool, QueueLemmas

(* A wrapped counter is a size_t. *)
LEMMA Wraps == ASSUME NEW n \in Int PROVE n % Modulus \in 0 .. Modulus - 1
<1>1. Cardinality(Threads) \in Nat
  BY ThreadsAssumption, FS_CardinalityType
<1>2. Modulus \in Nat \ {0}
  BY <1>1, ModulusAssumption, MaxCntAssumption
<1>3. QED
  BY <1>2

(* The size of a queue, as the size check reads it: itself when nobody     *)
(* waits, and above every limit when somebody does.                        *)
LEMMA SizeRead ==
  ASSUME NEW k \in Nat, NEW n \in Nat, k <= MaxCnt + 2 * Cardinality(Threads),
         n <= Cardinality(Threads)
  PROVE  /\ n = 0 => AsSize(k - n) = k
         /\ n > 0 /\ k = 0 => AsSize(k - n) > MaxCnt
<1>1. Cardinality(Threads) \in Nat
  BY ThreadsAssumption, FS_CardinalityType
<1>2. Modulus \in Nat \ {0} /\ k < Modulus /\ n < Modulus /\ Modulus - n > MaxCnt
  BY <1>1, ModulusAssumption, MaxCntAssumption
<1>3. k % Modulus = k
  BY <1>2
<1>4. ASSUME n > 0 PROVE (0 - n) % Modulus = Modulus - n
  BY <1>2, <1>4
<1>5. QED
  BY <1>2, <1>3, <1>4, MaxCntAssumption DEF AsSize

-----------------------------------------------------------------------------
(***************************************************************************)
(* The inductive invariant.  An object has one owner; a thread is among    *)
(* the waiters while it is blocked, and then the queue is empty, which     *)
(* makes a negative size; a call under way has an object; and the objects  *)
(* about to be pushed count against the limit together with the queue.     *)
(***************************************************************************)
Owns(t, o) == o \in held[t] \/ arg[t] = o

ObjectInv ==
  /\ Distinct(items)
  /\ \A t \in Threads, o \in Objects : Owns(t, o) => ~Occurs(o, items)
  /\ \A t, u \in Threads, o \in Objects : Owns(t, o) /\ Owns(u, o) => t = u
  /\ \A t \in Threads : arg[t] \notin held[t]

WaitInv ==
  /\ Distinct(waiters)
  /\ \A t \in Threads : Occurs(t, waiters) <=> pc[t] = "wait"
  /\ waiters # <<>> => items = <<>>

ArgInv == \A t \in Threads : arg[t] # None <=> pc[t] \in {"count", "push"}

RoomInv == Len(items) + Cardinality(In("push")) < MaxCnt + Cardinality(Threads)

Inv == TypeOK /\ ObjectInv /\ WaitInv /\ ArgInv /\ RoomInv

LEMMA NoneIsNoObject == None \notin Objects
  BY ObjectsAssumption DEF None

LEMMA EmptyQueue == Distinct(<<>>) /\ (\A s : ~Occurs(s, <<>>)) /\ Len(<<>>) = 0
  BY DEF Distinct, Occurs

(* The threads past the size check of Restore, counted. *)
LEMMA PushCount ==
  /\ IsFiniteSet(In("push")) /\ IsFiniteSet(In("push")')
  /\ Cardinality(In("push")) \in Nat /\ Cardinality(In("push")') \in Nat
  /\ Cardinality(Threads) \in Nat
  /\ Cardinality(In("push")) <= Cardinality(Threads)
  /\ Cardinality(In("push")') <= Cardinality(Threads)
<1>1. In("push") \subseteq Threads /\ In("push")' \subseteq Threads
  BY DEF In
<1>2. QED
  BY <1>1, ThreadsAssumption, FS_Subset, FS_CardinalityType

(* Who owns nothing yet. *)
LEMMA FreshFree ==
  ASSUME TypeOK, NEW o \in Fresh
  PROVE  o \in Objects /\ ~Occurs(o, items) /\ \A t \in Threads : ~Owns(t, o)
<1>1. o \in Objects /\ o \notin Elems(items)
  BY DEF Fresh
<1>2. ASSUME NEW t \in Threads PROVE o \notin held[t] /\ arg[t] # o
  BY DEF Fresh, Elems, TypeOK
<1>3. QED
  BY <1>1, <1>2 DEF Elems, Occurs, Owns

(* A new pool satisfies the invariant. *)
LEMMA InitInv == Init => Inv
<1> SUFFICES ASSUME Init PROVE Inv
  OBVIOUS
<1>1. TypeOK
  <2>1. 0 \in 0 .. Modulus - 1
    BY PushCount, ModulusAssumption, MaxCntAssumption
  <2>2. QED
    BY <2>1 DEF Init, TypeOK, None
<1>2. ObjectInv
  <2>1. ASSUME NEW t \in Threads, NEW o \in Objects PROVE ~Owns(t, o)
    BY NoneIsNoObject DEF Init, Owns
  <2>2. QED
    BY <2>1, EmptyQueue DEF Init, ObjectInv
<1>3. WaitInv
  BY EmptyQueue DEF Init, WaitInv
<1>4. ArgInv
  BY DEF Init, ArgInv
<1>5. RoomInv
  <2>1. In("push") = {}
    BY DEF In, Init
  <2>2. Cardinality(Threads) # 0
    BY ThreadsAssumption, FS_EmptySet
  <2>3. Cardinality(In("push")) = 0
    BY <2>1, FS_EmptySet
  <2>4. QED
    BY <2>2, <2>3, EmptyQueue, PushCount, MaxCntAssumption DEF Init, RoomInv
<1>6. QED
  BY <1>1, <1>2, <1>3, <1>4, <1>5 DEF Inv

(* Acquire, empty(). *)
LEMMA AcquireStep == ASSUME Inv, NEW t \in Threads, Acquire(t) PROVE Inv'
<1>1. TypeOK'
  BY DEF Inv, TypeOK, Acquire, At, Return
<1>2. \A u \in Threads : pc'[u] # pc[u] => pc[u] = "idle" /\ pc'[u] = "pop"
  BY DEF Inv, TypeOK, Acquire, At
<1>3. ObjectInv'
  BY DEF Inv, ObjectInv, Owns, Acquire
<1>4. WaitInv'
  BY <1>2 DEF Inv, WaitInv, Acquire
<1>5. ArgInv'
  BY <1>2 DEF Inv, ArgInv, Acquire
<1>6. RoomInv'
  <2>1. In("push")' = In("push")
    BY <1>2 DEF In
  <2>2. QED
    BY <2>1 DEF Inv, RoomInv, Acquire
<1>7. QED
  BY <1>1, <1>3, <1>4, <1>5, <1>6 DEF Inv

(* Acquire, try_pop. *)
LEMMA TryPopStep == ASSUME Inv, NEW t \in Threads, TryPop(t) PROVE Inv'
<1> USE DEF Inv
<1>1. /\ \A u \in Threads : pc'[u] # pc[u] => u = t /\ pc[u] = "pop" /\ pc'[u] \in {"idle", "count"}
      /\ pc[t] = "pop" /\ arg[t] = None
  BY DEF TypeOK, TryPop, At, ArgInv
<1>2. In("push")' = In("push")
  BY <1>1 DEF In
<1>3. CASE items = <<>>
  <2>1. items' = items /\ arg' = arg /\ pc'[t] = "idle"
    BY <1>3 DEF TryPop, At, TypeOK
  <2>2. TypeOK'
    BY <1>3 DEF TypeOK, TryPop, At, Return
  <2>3. ObjectInv'
    BY <2>1 DEF ObjectInv, Owns, TryPop
  <2>4. WaitInv'
    BY <1>1, <2>1 DEF WaitInv, TryPop
  <2>5. ArgInv'
    BY <1>1, <2>1 DEF ArgInv
  <2>6. RoomInv'
    BY <1>2, <2>1 DEF RoomInv
  <2>7. QED
    BY <2>2, <2>3, <2>4, <2>5, <2>6
<1>4. CASE items # <<>>
  <2>1. /\ items' = Tail(items)
        /\ arg' = [arg EXCEPT ![t] = Head(items)]
        /\ pc'[t] = "count"
    BY <1>4 DEF TryPop, At, TypeOK
  <2>2. /\ Head(items) \in Objects /\ Occurs(Head(items), items)
        /\ Tail(items) \in Seq(Objects)
        /\ Len(Tail(items)) = Len(items) - 1
        /\ Distinct(Tail(items))
        /\ \A s : Occurs(s, Tail(items)) <=> Occurs(s, items) /\ s # Head(items)
    BY <1>4, TailDistinct DEF TypeOK, ObjectInv
  <2>3. TypeOK'
    BY <1>4, <2>1, <2>2 DEF TypeOK, TryPop, At, Return
  <2>4. ObjectInv'
    <3>1. \A u \in Threads, o \in Objects :
            Owns(u, o)' <=> Owns(u, o) \/ (u = t /\ o = Head(items))
      BY <1>1, <2>1, NoneIsNoObject DEF Owns, TryPop, TypeOK
    <3>2. \A u \in Threads : ~Owns(u, Head(items))
      BY <2>2 DEF ObjectInv
    <3>3. \A u \in Threads : arg'[u] \notin held'[u]
      BY <2>1, <3>2 DEF ObjectInv, Owns, TryPop, TypeOK
    <3>4. QED
      BY <2>1, <2>2, <3>1, <3>2, <3>3 DEF ObjectInv
  <2>5. WaitInv'
    BY <1>1, <1>4 DEF WaitInv, TryPop
  <2>6. ArgInv'
    BY <1>1, <2>1, <2>2, NoneIsNoObject DEF ArgInv, TypeOK
  <2>7. RoomInv'
    <3>1. Len(items) \in Nat
      BY LenProperties DEF TypeOK
    <3>2. QED
      BY <1>2, <2>1, <2>2, <3>1, PushCount, MaxCntAssumption DEF RoomInv
  <2>8. QED
    BY <2>3, <2>4, <2>5, <2>6, <2>7
<1>5. QED
  BY <1>3, <1>4

(* Acquire, fetch_add. *)
LEMMA CountStep == ASSUME Inv, NEW t \in Threads, Count(t) PROVE Inv'
<1> USE DEF Inv
<1>1. /\ \A u \in Threads : pc'[u] # pc[u] => u = t /\ pc[u] = "count" /\ pc'[u] = "idle"
      /\ pc[t] = "count" /\ pc'[t] = "idle" /\ arg[t] # None /\ arg[t] \in Objects
  BY DEF TypeOK, Count, At, ArgInv
<1>2. In("push")' = In("push")
  BY <1>1 DEF In
<1>3. TypeOK'
  <2>1. useCnt' \in 0 .. Modulus - 1
    BY Wraps DEF Count, TypeOK
  <2>2. QED
    BY <1>1, <2>1 DEF TypeOK, Count, At
<1>4. ObjectInv'
  <2>1. \A u \in Threads, o \in Objects : Owns(u, o)' <=> Owns(u, o)
    BY <1>1, NoneIsNoObject DEF Owns, Count, TypeOK
  <2>2. \A u \in Threads : arg'[u] \notin held'[u]
    BY <1>1, NoneIsNoObject DEF ObjectInv, Count, TypeOK
  <2>3. QED
    BY <2>1, <2>2 DEF ObjectInv, Count
<1>5. WaitInv'
  BY <1>1 DEF WaitInv, Count
<1>6. ArgInv'
  BY <1>1 DEF ArgInv, Count, TypeOK
<1>7. RoomInv'
  BY <1>2 DEF RoomInv, Count
<1>8. QED
  BY <1>3, <1>4, <1>5, <1>6, <1>7

(* WaitAcquire. *)
LEMMA WaitAcquireStep == ASSUME Inv, NEW t \in Threads, WaitAcquire(t) PROVE Inv'
<1> USE DEF Inv
<1>1. pc[t] = "idle" /\ arg' = arg
  BY DEF WaitAcquire
<1>2. CASE items = <<>>
  <2>1. /\ waiters' = Append(waiters, t)
        /\ items' = items /\ held' = held
        /\ pc' = [pc EXCEPT ![t] = "wait"]
    BY <1>2 DEF WaitAcquire, At
  <2>2. /\ Append(waiters, t) \in Seq(Threads)
        /\ Distinct(Append(waiters, t))
        /\ \A s : Occurs(s, Append(waiters, t)) <=> Occurs(s, waiters) \/ s = t
    <3>1. ~Occurs(t, waiters)
      BY <1>1 DEF WaitInv
    <3>2. QED
      BY <3>1, AppendDistinct DEF TypeOK, WaitInv
  <2>3. TypeOK'
    BY <1>2, <2>1, <2>2 DEF TypeOK, WaitAcquire
  <2>4. ObjectInv'
    BY <1>1, <2>1 DEF ObjectInv, Owns
  <2>5. WaitInv'
    BY <1>2, <2>1, <2>2 DEF WaitInv, TypeOK
  <2>6. ArgInv'
    BY <1>1, <2>1 DEF ArgInv, TypeOK
  <2>7. In("push")' = In("push")
    BY <1>1, <2>1 DEF In, TypeOK
  <2>8. RoomInv'
    BY <2>1, <2>7 DEF RoomInv
  <2>9. QED
    BY <2>3, <2>4, <2>5, <2>6, <2>8
<1>3. CASE items # <<>>
  <2>1. /\ items' = Tail(items)
        /\ held' = [held EXCEPT ![t] = @ \cup {Head(items)}]
        /\ waiters' = waiters /\ pc' = pc
    BY <1>3 DEF WaitAcquire
  <2>2. /\ Head(items) \in Objects /\ Occurs(Head(items), items)
        /\ Tail(items) \in Seq(Objects)
        /\ Len(Tail(items)) = Len(items) - 1
        /\ Distinct(Tail(items))
        /\ \A s : Occurs(s, Tail(items)) <=> Occurs(s, items) /\ s # Head(items)
    BY <1>3, TailDistinct DEF TypeOK, ObjectInv
  <2>3. TypeOK'
    <3>1. net' \in 0 .. Modulus - 1
      BY <1>3, Wraps DEF WaitAcquire, TypeOK
    <3>2. ret' \in [Threads -> Objects \cup {"none", "empty", "stored", "refused", "null"}]
      BY <1>3, <2>2 DEF WaitAcquire, Return, TypeOK
    <3>3. held' \in [Threads -> SUBSET Objects]
      BY <2>1, <2>2 DEF TypeOK
    <3>4. QED
      BY <2>1, <2>2, <3>1, <3>2, <3>3 DEF TypeOK, WaitAcquire
  <2>4. ObjectInv'
    <3>1. \A u \in Threads, o \in Objects :
            Owns(u, o)' <=> Owns(u, o) \/ (u = t /\ o = Head(items))
      BY <1>1, <2>1 DEF Owns, TypeOK
    <3>2. \A u \in Threads : ~Owns(u, Head(items))
      BY <2>2 DEF ObjectInv
    <3>3. \A u \in Threads : arg'[u] \notin held'[u]
      BY <1>1, <2>1, <3>2 DEF ObjectInv, Owns, TypeOK
    <3>4. QED
      BY <2>1, <2>2, <3>1, <3>2, <3>3 DEF ObjectInv
  <2>5. WaitInv'
    BY <1>3, <2>1 DEF WaitInv
  <2>6. ArgInv'
    BY <1>1, <2>1 DEF ArgInv
  <2>7. RoomInv'
    <3>1. Len(items) \in Nat
      BY LenProperties DEF TypeOK
    <3>2. In("push")' = In("push")
      BY <2>1 DEF In
    <3>3. QED
      BY <2>1, <2>2, <3>1, <3>2, PushCount, MaxCntAssumption DEF RoomInv
  <2>8. QED
    BY <2>3, <2>4, <2>5, <2>6, <2>7
<1>4. QED
  BY <1>2, <1>3

(* A size check that succeeds saw the number of objects in the queue, and  *)
(* no waiting thread; one that fails saw a full queue or a waiting thread. *)
LEMMA SizeCheck ==
  ASSUME Inv
  PROVE  /\ AsSize(Size) < MaxCnt => waiters = <<>> /\ Len(items) < MaxCnt
         /\ ~(AsSize(Size) < MaxCnt) => waiters # <<>> \/ Len(items) >= MaxCnt
         /\ Len(items) \in Nat
<1>1. Len(items) \in Nat /\ Len(waiters) \in Nat
  BY LenProperties DEF Inv, TypeOK
<1>2. Len(waiters) <= Cardinality(Threads)
  BY DistinctLength, ThreadsAssumption DEF Inv, TypeOK, WaitInv
<1>3. Len(items) <= MaxCnt + 2 * Cardinality(Threads)
  BY <1>1, PushCount, MaxCntAssumption DEF Inv, RoomInv
<1>4. /\ Len(waiters) = 0 => AsSize(Size) = Len(items)
      /\ Len(waiters) > 0 /\ Len(items) = 0 => AsSize(Size) > MaxCnt
  BY <1>1, <1>2, <1>3, SizeRead DEF Size
<1>5. /\ waiters = <<>> <=> Len(waiters) = 0
      /\ items = <<>> <=> Len(items) = 0
  BY EmptySeq DEF Inv, TypeOK
<1>6. CASE waiters = <<>>
  BY <1>1, <1>4, <1>5, <1>6, MaxCntAssumption
<1>7. CASE waiters # <<>>
  <2>1. AsSize(Size) > MaxCnt
    BY <1>1, <1>4, <1>5, <1>7 DEF Inv, WaitInv
  <2>2. ~(AsSize(Size) < MaxCnt)
    <3>1. AsSize(Size) \in Int
      BY <1>1, Wraps DEF AsSize, Size
    <3>2. QED
      BY <2>1, <3>1, MaxCntAssumption
  <2>3. QED
    BY <1>1, <1>7, <2>2
<1>8. QED
  BY <1>6, <1>7

(* Restore and Create, up to the size check. *)
LEMMA RestoreStep ==
  ASSUME Inv, NEW t \in Threads, NEW o, NEW c \in BOOLEAN,
         o \in Fresh \cup held[t] \cup {None}, Restore(t, o, c)
  PROVE  Inv'
<1> USE DEF Inv
<1>1. pc[t] = "idle" /\ items' = items /\ waiters' = waiters
  BY DEF Restore
<1>2. CASE o # None /\ AsSize(Size) < MaxCnt
  <2>1. /\ pc' = [pc EXCEPT ![t] = "push"]
        /\ arg' = [arg EXCEPT ![t] = o]
        /\ isCreate' = [isCreate EXCEPT ![t] = c]
        /\ held' = [held EXCEPT ![t] = @ \ {o}]
        /\ ret' = ret /\ useCnt' = useCnt /\ net' = net
    BY <1>2 DEF Restore, At
  <2>2. /\ o \in Objects /\ ~Occurs(o, items)
        /\ \A u \in Threads : Owns(u, o) => u = t
    <3>1. CASE o \in Fresh
      BY <3>1, FreshFree
    <3>2. CASE o \in held[t]
      BY <3>2 DEF ObjectInv, Owns, TypeOK
    <3>3. QED
      BY <1>2, <3>1, <3>2
  <2>3. TypeOK'
    BY <1>1, <2>1, <2>2 DEF TypeOK
  <2>4. ObjectInv'
    <3>1. \A u \in Threads, p \in Objects : Owns(u, p)' <=> Owns(u, p) \/ (u = t /\ p = o)
      <4>1. arg[t] = None
        BY <1>1 DEF ArgInv
      <4>2. QED
        BY <2>1, <2>2, <4>1, NoneIsNoObject DEF Owns, TypeOK
    <3>2. \A u \in Threads : arg'[u] \notin held'[u]
      BY <2>1 DEF ObjectInv, TypeOK
    <3>3. QED
      BY <1>1, <2>2, <3>1, <3>2 DEF ObjectInv
  <2>5. WaitInv'
    BY <1>1, <2>1 DEF WaitInv, TypeOK
  <2>6. ArgInv'
    BY <1>1, <1>2, <2>1 DEF ArgInv, TypeOK
  <2>7. RoomInv'
    BY <1>1, <1>2, SizeCheck, PushCount, MaxCntAssumption DEF RoomInv
  <2>8. QED
    BY <2>3, <2>4, <2>5, <2>6, <2>7
<1>3. CASE ~(o # None /\ AsSize(Size) < MaxCnt)
  <2>1. pc' = pc /\ arg' = arg /\ isCreate' = isCreate /\ held' = held
    BY <1>3 DEF Restore
  <2>2. TypeOK'
    BY <1>1, <1>3, <2>1 DEF TypeOK, Restore, Return
  <2>3. ObjectInv' /\ WaitInv' /\ ArgInv'
    BY <1>1, <2>1 DEF ObjectInv, Owns, WaitInv, ArgInv
  <2>4. RoomInv'
    BY <1>1, <2>1 DEF RoomInv, In
  <2>5. QED
    BY <2>2, <2>3, <2>4
<1>4. QED
  BY <1>2, <1>3

(* Restore and Create, push: what it does to the thread and its object. *)
LEMMA PushEffect ==
  ASSUME Inv, NEW t \in Threads, Push(t)
  PROVE  /\ arg[t] \in Objects /\ ~Occurs(arg[t], items) /\ pc[t] = "push"
         /\ pc'[t] \in {"idle", "uncount"}
         /\ arg' = [arg EXCEPT ![t] = None]
         /\ net' \in 0 .. Modulus - 1
         /\ Cardinality(In("push")') = Cardinality(In("push")) - 1
<1> USE DEF Inv
<1>1. pc[t] = "push" /\ arg' = [arg EXCEPT ![t] = None]
  BY DEF Push
<1>2. arg[t] \in Objects /\ ~Occurs(arg[t], items)
  BY <1>1 DEF ArgInv, TypeOK, ObjectInv, Owns
<1>3. net' \in 0 .. Modulus - 1
  <2>1. net + (IF isCreate[t] THEN 1 ELSE 0) - (IF waiters # <<>> THEN 1 ELSE 0) \in Int
    BY DEF TypeOK
  <2>2. QED
    BY <2>1, Wraps DEF Push
<1>4. pc'[t] \in {"idle", "uncount"} /\ \A u \in Threads \ {t} : pc'[u] = "push" <=> pc[u] = "push"
  <2>1. CASE waiters = <<>>
    BY <2>1 DEF Push, At, TypeOK
  <2>2. CASE waiters # <<>>
    <3>1. PICK w \in Threads : w = Head(waiters) /\ pc[w] = "wait"
      BY <2>2, TailDistinct DEF TypeOK, WaitInv
    <3>2. QED
      BY <1>1, <2>2, <3>1 DEF Push, TypeOK
  <2>3. QED
    BY <2>1, <2>2
<1>5. In("push")' = In("push") \ {t} /\ t \in In("push")
  BY <1>1, <1>4 DEF In
<1>6. Cardinality(In("push")') = Cardinality(In("push")) - 1
  BY <1>5, PushCount, FS_RemoveElement
<1>7. QED
  BY <1>1, <1>2, <1>3, <1>4, <1>6

(* push with no thread waiting. *)
LEMMA PushQueueStep ==
  ASSUME Inv, NEW t \in Threads, Push(t), waiters = <<>>
  PROVE  Inv'
<1> USE DEF Inv
<1>1. /\ arg[t] \in Objects /\ ~Occurs(arg[t], items) /\ pc[t] = "push"
      /\ pc'[t] \in {"idle", "uncount"}
      /\ arg' = [arg EXCEPT ![t] = None]
      /\ net' \in 0 .. Modulus - 1
      /\ Cardinality(In("push")') = Cardinality(In("push")) - 1
  BY PushEffect
<1>2. /\ items' = Append(items, arg[t])
      /\ ret' = [ret EXCEPT ![t] = "stored"]
      /\ pc' = [pc EXCEPT ![t] = pc'[t]]
      /\ waiters' = waiters /\ held' = held /\ useCnt' = useCnt /\ isCreate' = isCreate
  BY DEF Push, Return, At, TypeOK
<1>3. /\ Append(items, arg[t]) \in Seq(Objects)
      /\ Len(Append(items, arg[t])) = Len(items) + 1
      /\ Distinct(Append(items, arg[t]))
      /\ \A s : Occurs(s, Append(items, arg[t])) <=> Occurs(s, items) \/ s = arg[t]
  BY <1>1, AppendDistinct DEF TypeOK, ObjectInv
<1>4. TypeOK'
  <2>1. pc' \in [Threads -> {"idle", "pop", "count", "wait", "push", "uncount", "gone"}]
    BY <1>1, <1>2 DEF TypeOK
  <2>2. QED
    BY <1>1, <1>2, <1>3, <2>1 DEF TypeOK
<1>5. ObjectInv'
  <2>1. \A u \in Threads, o \in Objects : Owns(u, o)' <=> Owns(u, o) /\ o # arg[t]
    <3>1. \A u \in Threads \ {t} : ~Owns(u, arg[t])
      BY <1>1 DEF ObjectInv, Owns
    <3>2. \A u \in Threads \ {t} : arg'[u] = arg[u]
      BY <1>1 DEF TypeOK
    <3>3. arg'[t] = None /\ arg[t] \notin held[t]
      BY <1>1 DEF TypeOK, ObjectInv
    <3>4. QED
      BY <1>2, <3>1, <3>2, <3>3, NoneIsNoObject DEF Owns
  <2>2. \A u \in Threads : arg'[u] \notin held'[u]
    BY <1>1, <1>2, NoneIsNoObject DEF ObjectInv, TypeOK
  <2>3. QED
    BY <1>2, <1>3, <2>1, <2>2 DEF ObjectInv
<1>6. WaitInv'
  BY <1>1, <1>2 DEF WaitInv, TypeOK
<1>7. ArgInv'
  BY <1>1, <1>2 DEF ArgInv, TypeOK
<1>8. RoomInv'
  <2>1. Len(items) \in Nat
    BY LenProperties DEF TypeOK
  <2>2. QED
    BY <1>1, <1>2, <1>3, <2>1, PushCount, MaxCntAssumption DEF RoomInv
<1>9. QED
  BY <1>4, <1>5, <1>6, <1>7, <1>8

(* push that serves the thread that has waited longest. *)
LEMMA PushServeStep ==
  ASSUME Inv, NEW t \in Threads, Push(t), waiters # <<>>
  PROVE  Inv'
<1> USE DEF Inv
<1>1. /\ arg[t] \in Objects /\ ~Occurs(arg[t], items) /\ pc[t] = "push"
      /\ pc'[t] \in {"idle", "uncount"}
      /\ arg' = [arg EXCEPT ![t] = None]
      /\ net' \in 0 .. Modulus - 1
      /\ Cardinality(In("push")') = Cardinality(In("push")) - 1
  BY PushEffect
<1>2. PICK w \in Threads : w = Head(waiters)
  BY TailDistinct DEF TypeOK, WaitInv
<1>3. /\ Tail(waiters) \in Seq(Threads)
      /\ Distinct(Tail(waiters))
      /\ Occurs(w, waiters)
      /\ \A s : Occurs(s, Tail(waiters)) <=> Occurs(s, waiters) /\ s # w
  BY <1>2, TailDistinct DEF TypeOK, WaitInv
<1>4. pc[w] = "wait" /\ w # t
  BY <1>1, <1>3 DEF WaitInv
<1>5. /\ waiters' = Tail(waiters)
      /\ held' = [held EXCEPT ![w] = @ \cup {arg[t]}]
      /\ ret' = [ret EXCEPT ![t] = "stored", ![w] = arg[t]]
      /\ items' = items /\ useCnt' = useCnt /\ isCreate' = isCreate
  BY <1>2 DEF Push
<1>6. /\ pc' \in [Threads -> {"idle", "pop", "count", "wait", "push", "uncount", "gone"}]
      /\ pc'[w] = "idle"
      /\ \A u \in Threads \ {t, w} : pc'[u] = pc[u]
  BY <1>2, <1>4 DEF Push, TypeOK
<1>7. TypeOK'
  <2>1. held' \in [Threads -> SUBSET Objects]
    BY <1>1, <1>5 DEF TypeOK
  <2>2. ret' \in [Threads -> Objects \cup {"none", "empty", "stored", "refused", "null"}]
    BY <1>1, <1>5 DEF TypeOK
  <2>3. QED
    BY <1>1, <1>3, <1>5, <1>6, <2>1, <2>2 DEF TypeOK
<1>8. ObjectInv'
  <2>1. \A u \in Threads : Owns(u, arg[t]) => u = t
    BY <1>1 DEF ObjectInv, Owns
  <2>2. \A u \in Threads, o \in Objects :
          Owns(u, o)' <=> IF o = arg[t] THEN u = w ELSE Owns(u, o)
    <3>1. \A u \in Threads : arg'[u] = IF u = t THEN None ELSE arg[u]
      BY <1>1 DEF TypeOK
    <3>2. \A u \in Threads : held'[u] = IF u = w THEN held[u] \cup {arg[t]} ELSE held[u]
      BY <1>5 DEF TypeOK
    <3>3. arg[t] \notin held[t]
      BY DEF ObjectInv
    <3>4. QED
      BY <1>1, <1>4, <2>1, <3>1, <3>2, <3>3, NoneIsNoObject DEF Owns
  <2>3. \A u \in Threads : arg'[u] \notin held'[u]
    BY <1>1, <1>4, <1>5, <2>1, NoneIsNoObject DEF ObjectInv, TypeOK, Owns
  <2>4. QED
    BY <1>1, <1>5, <2>2, <2>3 DEF ObjectInv
<1>9. WaitInv'
  BY <1>1, <1>3, <1>4, <1>5, <1>6, EmptyQueue DEF WaitInv
<1>10. ArgInv'
  BY <1>1, <1>4, <1>6 DEF ArgInv, TypeOK
<1>11. RoomInv'
  <2>1. Len(items) \in Nat
    BY LenProperties DEF TypeOK
  <2>2. QED
    BY <1>1, <1>5, <2>1, PushCount, MaxCntAssumption DEF RoomInv
<1>12. QED
  BY <1>7, <1>8, <1>9, <1>10, <1>11

(* Restore, fetch_sub. *)
LEMMA UncountStep == ASSUME Inv, NEW t \in Threads, Uncount(t) PROVE Inv'
<1> USE DEF Inv
<1>1. /\ pc[t] = "uncount" /\ pc' = [pc EXCEPT ![t] = "idle"]
      /\ items' = items /\ waiters' = waiters /\ arg' = arg /\ held' = held
  BY DEF Uncount, At
<1>2. TypeOK'
  <2>1. useCnt' \in 0 .. Modulus - 1
    BY Wraps DEF Uncount, TypeOK
  <2>2. QED
    BY <1>1, <2>1 DEF TypeOK, Uncount
<1>3. ObjectInv' /\ WaitInv' /\ ArgInv'
  BY <1>1 DEF ObjectInv, Owns, WaitInv, ArgInv, TypeOK
<1>4. RoomInv'
  <2>1. In("push")' = In("push")
    BY <1>1 DEF In, TypeOK
  <2>2. QED
    BY <1>1, <2>1 DEF RoomInv
<1>5. QED
  BY <1>2, <1>3, <1>4

(* A caller lets an object go. *)
LEMMA DropStep == ASSUME Inv, NEW t \in Threads, Drop(t) PROVE Inv'
<1> USE DEF Inv
<1>1. PICK o \in held[t] : held' = [held EXCEPT ![t] = @ \ {o}]
  BY DEF Drop
<1>2. TypeOK'
  BY <1>1 DEF TypeOK, Drop
<1>3. \A u \in Threads : held'[u] \subseteq held[u]
  BY <1>1 DEF TypeOK
<1>4. ObjectInv'
  BY <1>3 DEF ObjectInv, Owns, Drop
<1>5. WaitInv' /\ ArgInv' /\ RoomInv'
  BY DEF WaitInv, ArgInv, RoomInv, In, Drop
<1>6. QED
  BY <1>2, <1>4, <1>5

(* ~Pool. *)
LEMMA ReleaseStep == ASSUME Inv, Release PROVE Inv'
<1> USE DEF Inv
<1>1. /\ items' = <<>> /\ waiters' = waiters /\ arg' = arg /\ held' = held
      /\ \A t \in Threads : pc[t] = "idle" /\ pc'[t] = "gone"
  BY DEF Release
<1>2. TypeOK'
  <2>1. Len(items) \in Nat
    BY LenProperties DEF TypeOK
  <2>2. net' \in 0 .. Modulus - 1
    BY <2>1, Wraps DEF Release, TypeOK
  <2>3. QED
    BY <2>2 DEF Release, TypeOK
<1>3. ObjectInv' /\ WaitInv' /\ ArgInv'
  BY <1>1, EmptyQueue DEF ObjectInv, Owns, WaitInv, ArgInv
<1>4. RoomInv'
  <2>1. In("push")' = {}
    BY <1>1 DEF In
  <2>2. Cardinality(In("push")') = 0
    BY <2>1, FS_EmptySet
  <2>3. Cardinality(Threads) # 0
    BY ThreadsAssumption, FS_EmptySet
  <2>4. QED
    BY <1>1, <2>2, <2>3, EmptyQueue, PushCount, MaxCntAssumption DEF RoomInv
<1>5. QED
  BY <1>2, <1>3, <1>4

(* Every step keeps the invariant. *)
LEMMA NextInv == Inv /\ [Next]_vars => Inv'
<1> SUFFICES ASSUME Inv, [Next]_vars PROVE Inv'
  OBVIOUS
<1>1. ASSUME NEW t \in Threads, Step(t) PROVE Inv'
  <2>1. CASE Push(t)
    BY <2>1, PushQueueStep, PushServeStep
  <2>2. QED
    BY <1>1, <2>1, TryPopStep, CountStep, UncountStep DEF Step
<1>2. ASSUME NEW t \in Threads, Call(t) PROVE Inv'
  <2>1. CASE Create(t)
    BY <2>1, RestoreStep DEF Create
  <2>2. CASE RestoreNew(t)
    BY <2>2, RestoreStep DEF RestoreNew
  <2>3. CASE RestoreHeld(t)
    BY <2>3, RestoreStep DEF RestoreHeld
  <2>4. QED
    BY <1>2, <2>1, <2>2, <2>3, AcquireStep, WaitAcquireStep, DropStep DEF Call
<1>3. CASE UNCHANGED vars
  BY <1>3 DEF vars, Inv, TypeOK, ObjectInv, Owns, WaitInv, ArgInv, RoomInv, In
<1>4. QED
  BY <1>1, <1>2, <1>3, ReleaseStep DEF Next

(* The invariant holds throughout. *)
LEMMA SpecInv == Spec => []Inv
  BY InitInv, NextInv, PTL DEF Spec

-----------------------------------------------------------------------------
(* Variables have their types; the use count, which Restore may take below *)
(* zero, stays a size_t.                                                   *)
THEOREM PoolTypeCorrect == Spec => []TypeOK
<1>1. Inv => TypeOK
  BY DEF Inv
<1>2. QED
  BY <1>1, SpecInv, PTL

(* No object is ever acquired by two threads of any number. *)
THEOREM ObjectExclusive == Spec => []ObjectInOnePlace
<1>1. Inv => ObjectInOnePlace
  <2> SUFFICES ASSUME Inv PROVE ObjectInOnePlace
    OBVIOUS
  <2> USE DEF Inv
  <2>1. \A t \in Threads : \A o \in Has(t) : o \in Objects /\ Owns(t, o)
    BY DEF Has, Owns, TypeOK
  <2>2. \A t \in Threads : Has(t) \cap Elems(items) = {}
    BY <2>1 DEF ObjectInv, Elems, Occurs
  <2>3. \A t, u \in Threads : t # u => Has(t) \cap Has(u) = {}
    BY <2>1 DEF ObjectInv
  <2>4. QED
    BY <2>2, <2>3 DEF ObjectInOnePlace, ObjectInv, Distinct
<1>2. QED
  BY <1>1, SpecInv, PTL

(* The size check of Restore, made apart from the push, lets the pool pass *)
(* its limit by less than the number of threads.                           *)
THEOREM OvershootBounded == Spec => []Overshoot
<1>1. Inv => Overshoot
  <2> SUFFICES ASSUME Inv PROVE Overshoot
    OBVIOUS
  <2>1. Len(items) \in Nat
    BY LenProperties DEF Inv, TypeOK
  <2>2. QED
    BY <2>1, PushCount, MaxCntAssumption DEF Inv, RoomInv, Overshoot
<1>2. QED
  BY <1>1, SpecInv, PTL

(* Once a thread waits and no Restore is past its size check, no later     *)
(* call of any thread ends the wait.                                       *)
THEOREM WaitersStarve == Spec => WaiterStarves
<1> DEFINE A == waiters # <<>> /\ In("push") = {} =>
       /\ In("push")' = {}
       /\ \A i \in DOMAIN waiters : i \in DOMAIN waiters' /\ waiters'[i] = waiters[i]
<1>1. Inv /\ [Next]_vars => [A]_vars
  <2> SUFFICES ASSUME Inv, Next, waiters # <<>>, In("push") = {}
               PROVE  /\ In("push")' = {}
                      /\ \A i \in DOMAIN waiters : i \in DOMAIN waiters' /\ waiters'[i] = waiters[i]
    OBVIOUS
  <2>1. ASSUME NEW t \in Threads, NEW o, NEW c, Restore(t, o, c) PROVE pc' = pc /\ waiters' = waiters
    BY <2>1, SizeCheck DEF Restore
  <2>2. ASSUME NEW t \in Threads, NEW p, p # "push", pc' = [pc EXCEPT ![t] = p] PROVE In("push")' = {}
    BY <2>2 DEF In, Inv, TypeOK
  <2>3. ASSUME NEW t \in Threads, Step(t) PROVE waiters' = waiters /\ In("push")' = {}
    <3>1. pc[t] # "push"
      BY DEF In
    <3>2. ~Push(t)
      BY <3>1 DEF Push
    <3>3. waiters' = waiters /\ \E p : p # "push" /\ pc' = [pc EXCEPT ![t] = p]
      BY <2>3, <3>2 DEF Step, TryPop, Count, Uncount, At
    <3>4. QED
      BY <2>2, <3>3
  <2>4. ASSUME NEW t \in Threads, WaitAcquire(t) PROVE waiters' = Append(waiters, t) /\ In("push")' = {}
    BY <2>2, <2>4 DEF WaitAcquire, At, Inv, WaitInv
  <2>5. ASSUME NEW t \in Threads, Call(t), ~WaitAcquire(t) PROVE waiters' = waiters /\ In("push")' = {}
    <3>1. CASE Acquire(t)
      BY <2>2, <3>1 DEF Acquire, At, In
    <3>2. CASE Drop(t)
      BY <3>2 DEF Drop, In
    <3>3. CASE Create(t) \/ RestoreNew(t) \/ RestoreHeld(t)
      BY <2>1, <3>3 DEF Create, RestoreNew, RestoreHeld, In
    <3>4. QED
      BY <2>5, <3>1, <3>2, <3>3 DEF Call
  <2>6. CASE Release
    BY <2>6 DEF Release, In
  <2>7. ASSUME NEW t \in Threads
        PROVE  \A i \in DOMAIN waiters :
                 i \in DOMAIN Append(waiters, t) /\ Append(waiters, t)[i] = waiters[i]
    <3>1. waiters \in Seq(Threads)
      BY DEF Inv, TypeOK
    <3>2. QED
      BY <3>1, AppendProperties, LenProperties
  <2>8. QED
    BY <2>3, <2>4, <2>5, <2>6, <2>7 DEF Next
<1>2. QED
  BY <1>1, SpecInv, PTL DEF Spec, WaiterStarves

-----------------------------------------------------------------------------
(* What a step does, seen by the callers. *)
Effect == [Promise!Next]_<<items, waiters, ret>>

(* The steps that read or change the queue, one by one. *)
LEMMA TakeEffect ==
  ASSUME Inv, NEW t \in Threads, Acquire(t) \/ TryPop(t) \/ WaitAcquire(t)
  PROVE  Effect
<1> USE DEF Effect, Promise!Next, Promise!Answer
<1>1. CASE Acquire(t) /\ Size <= 0
  <2>1. Len(items) \in Nat /\ Len(waiters) \in Nat
    BY LenProperties DEF Inv, TypeOK
  <2>2. items = <<>>
    <3>1. CASE waiters = <<>>
      BY <1>1, <2>1, <3>1, EmptySeq, EmptyQueue DEF Size, Inv, TypeOK
    <3>2. CASE waiters # <<>>
      BY <3>2 DEF Inv, WaitInv
    <3>3. QED
      BY <3>1, <3>2
  <2>3. Promise!Empty(t)
    BY <1>1, <2>2 DEF Acquire, Return, Promise!Empty
  <2>4. QED
    BY <2>3
<1>2. CASE Acquire(t) /\ ~(Size <= 0)
  BY <1>2 DEF Acquire
<1>3. CASE TryPop(t)
  <2>1. Promise!Empty(t) \/ Promise!Take(t)
    BY <1>3 DEF TryPop, Return, Promise!Empty, Promise!Take
  <2>2. QED
    BY <2>1
<1>4. CASE WaitAcquire(t)
  <2>1. Promise!Wait(t) \/ Promise!Take(t)
    BY <1>4 DEF WaitAcquire, Return, Promise!Wait, Promise!Take
  <2>2. QED
    BY <2>1
<1>5. QED
  BY <1>1, <1>2, <1>3, <1>4

LEMMA RestoreEffect ==
  ASSUME Inv, NEW t \in Threads, NEW o, NEW c, Restore(t, o, c)
  PROVE  Effect
<1> USE DEF Effect, Promise!Next, Promise!Answer
<1>1. CASE o = None
  <2>1. Promise!Reject(t)
    BY <1>1 DEF Restore, Return, Promise!Reject
  <2>2. QED
    BY <2>1
<1>2. CASE o # None /\ AsSize(Size) < MaxCnt
  BY <1>2 DEF Restore
<1>3. CASE o # None /\ ~(AsSize(Size) < MaxCnt)
  <2>1. Promise!Refuse(t)
    BY <1>3, SizeCheck DEF Restore, Return, Promise!Refuse
  <2>2. QED
    BY <2>1
<1>4. QED
  BY <1>1, <1>2, <1>3

LEMMA PushIsStore ==
  ASSUME Inv, NEW t \in Threads, Push(t)
  PROVE  Effect
<1> USE DEF Effect, Promise!Next, Promise!Answer
<1>1. /\ arg[t] \in Objects /\ pc[t] = "push"
      /\ Cardinality(In("push")') = Cardinality(In("push")) - 1
  BY PushEffect
<1>2. CASE waiters = <<>>
  <2>1. Len(items) \in Nat
    BY LenProperties DEF Inv, TypeOK
  <2>2. Len(items) < MaxCnt + (Cardinality(Threads) - 1)
    BY <1>1, <2>1, PushCount, MaxCntAssumption DEF Inv, RoomInv
  <2>3. Promise!Store(t, arg[t])
    BY <1>2, <2>2 DEF Push, Return, Promise!Store
  <2>4. QED
    BY <1>1, <2>3
<1>3. CASE waiters # <<>>
  <2>1. Promise!HandOver(t, arg[t])
    BY <1>3 DEF Push, Promise!HandOver
  <2>2. QED
    BY <1>1, <2>1
<1>4. QED
  BY <1>2, <1>3

LEMMA ReleaseEffect == ASSUME Inv, Release PROVE Effect
<1>1. waiters = <<>>
  <2> SUFFICES ASSUME waiters # <<>> PROVE FALSE
    OBVIOUS
  <2>1. PICK w \in Threads : w = Head(waiters) /\ Occurs(w, waiters)
    BY TailDistinct DEF Inv, TypeOK, WaitInv
  <2>2. QED
    BY <2>1 DEF Inv, WaitInv, Release
<1>2. Promise!Drain
  BY <1>1 DEF Release, Promise!Drain
<1>3. QED
  BY <1>2 DEF Effect, Promise!Next

(* Class Pool implements PoolSpec: whatever the interleaving, each call    *)
(* takes effect in one step, in the order of the queue, and Restore        *)
(* refuses for want of room or because a thread waits, and only then.      *)
THEOREM PoolLinearizable == Spec => Linearizable
<1>1. Init => Promise!Init
  BY DEF Init, Promise!Init, None
<1>2. Inv /\ [Next]_vars => Effect
  <2> SUFFICES ASSUME Inv, [Next]_vars PROVE Effect
    OBVIOUS
  <2>1. ASSUME NEW t \in Threads, Step(t) PROVE Effect
    <3>1. CASE Count(t) \/ Uncount(t)
      BY <3>1 DEF Count, Uncount, Effect
    <3>2. QED
      BY <2>1, <3>1, TakeEffect, PushIsStore DEF Step
  <2>2. ASSUME NEW t \in Threads, Call(t) PROVE Effect
    <3>1. CASE Create(t) \/ RestoreNew(t) \/ RestoreHeld(t)
      BY <3>1, RestoreEffect DEF Create, RestoreNew, RestoreHeld
    <3>2. CASE Drop(t)
      BY <3>2 DEF Drop, Effect
    <3>3. QED
      BY <2>2, <3>1, <3>2, TakeEffect DEF Call
  <2>3. CASE UNCHANGED vars
    BY <2>3 DEF vars, Effect
  <2>4. QED
    BY <2>1, <2>2, <2>3, ReleaseEffect DEF Next
<1>3. QED
  BY <1>1, <1>2, SpecInv, PTL DEF Spec, Linearizable, Promise!Spec, Effect
=============================================================================
