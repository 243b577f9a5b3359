------------------------ MODULE SkeletonServerProofs ------------------------
(***************************************************************************)
(* Proofs about SkeletonServer, for every number of sessions, workers,     *)
(* connections and packets, every set of handlers and every body length.   *)
(***************************************************************************)
EXTENDS SkeletonServer, QueueLemmas

(* The pool chosen for a length is one of the eight. *)
LEMMA PoolOfType == ASSUME NEW n \in Nat PROVE PoolOf(n) \in DOMAIN Units
<1>1. DOMAIN Units = 1 .. 8 /\ Len(Units) = 8
  BY DEF Units
<1>2. CASE Fits(n) = {}
  BY <1>1, <1>2 DEF PoolOf
<1>3. CASE Fits(n) # {}
  <2>1. Fits(n) \subseteq 1 .. 8
    BY <1>1 DEF Fits
  <2>2. \E p \in Fits(n) : \A q \in Fits(n) : p <= q
    BY <1>3, <2>1
  <2>3. QED
    BY <1>1, <1>3, <2>1, <2>2 DEF PoolOf
<1>4. QED
  BY <1>2, <1>3

(* Delete keeps a heap a heap. *)
LEMMA DeleteType ==
  ASSUME NEW h \in Seq(Chunk), NEW b, NEW n \in Nat
  PROVE  /\ Delete(h, b, n) \in Seq(Chunk)
         /\ Len(Delete(h, b, n)) = Len(h)
<1>1. PoolOf(n) \in DOMAIN Units
  BY PoolOfType
<1>2. CASE b \in 1 .. Len(h)
  <2> DEFINE e == [h[b] EXCEPT !.freed = Append(@, PoolOf(n))]
  <2>1. h[b] \in Chunk
    BY <1>2, ElementOfSeq
  <2>2. Append(h[b].freed, PoolOf(n)) \in Seq(DOMAIN Units)
    BY <1>1, <2>1, AppendProperties DEF Chunk
  <2>3. e \in Chunk
    BY <2>1, <2>2 DEF Chunk
  <2>4. Delete(h, b, n) = [h EXCEPT ![b] = e]
    BY DEF Delete
  <2> HIDE DEF e
  <2>5. QED
    BY <1>2, <2>3, <2>4, ExceptSeq
<1>3. CASE b \notin 1 .. Len(h)
  <2>1. Delete(h, b, n) = h
    BY <1>3, LenProperties DEF Delete
  <2>2. QED
    BY <2>1
<1>4. QED
  BY <1>2, <1>3

-----------------------------------------------------------------------------
(***************************************************************************)
(* The inductive invariant.  SessionInOnePlace and OpenConnectionIsRead    *)
(* need each other's company: connection numbers are never reused, a       *)
(* coroutine that is still running knows its session, and the lengths and  *)
(* protocol numbers that ReadBody copies into a packet come from a header. *)
(***************************************************************************)
PoolInv ==
  /\ Distinct(queue)
  /\ Len(queue) <= PoolCnt
  /\ UseCountExact
  /\ \A s \in Sessions : Occurs(s, queue) => s # acc
  /\ \A s \in Sessions : Occurs(s, queue) \/ s = acc => ~Restorable(s) /\ sock[s] = Closed

ConnInv ==
  /\ \A s \in Sessions : sock[s] <= conns
  /\ OpenConnectionIsRead

ReaderInv ==
  \A c \in Conns :
    /\ reader[c].phase \in Live => reader[c].sess \in Sessions
    /\ reader[c].phase = "body" =>
         /\ rx[reader[c].sess].proto \in Protocols
         /\ rx[reader[c].sess].size >= EnderSize

WorkerInv == \A w \in Workers : worker[w].pc # "wait" => worker[w].pkt \in Packet

Inv == TypeOK /\ PoolInv /\ ConnInv /\ ReaderInv /\ WorkerInv

(* The state SkltServer's constructor leaves satisfies the invariant. *)
LEMMA InitInv == Init => Inv
<1> SUFFICES ASSUME Init PROVE Inv
  OBVIOUS
<1> USE PoolAssumption, BoundsAssumption, SizesAssumption
<1>1. /\ queue \in Seq(Sessions)
      /\ Len(queue) = PoolCnt
      /\ DOMAIN queue = 1 .. PoolCnt
      /\ \A i \in 1 .. PoolCnt : queue[i] = i - 1
  <2>1. queue \in [1 .. PoolCnt -> Sessions]
    BY DEF Init, Sessions
  <2>2. QED
    BY <2>1 DEF Init
<1>2. TypeOK
  <2>1. /\ rx \in [Sessions -> Rx]
        /\ reader \in [Conns -> Reader]
        /\ worker \in [Workers -> Worker]
    BY DEF Init, Members, Rx, Reader, Worker, Live, Null, Closed
  <2>2. packets \in Seq(Packet) /\ heap \in Seq(Chunk)
    BY DEF Init
  <2>3. QED
    BY <1>1, <2>1, <2>2 DEF Init, TypeOK, Closed
<1>3. PoolInv
  <2>1. Distinct(queue)
    BY <1>1 DEF Distinct
  <2>2. QED
    BY <1>1, <2>1 DEF Init, PoolInv, UseCountExact, Restorable, NoSession, Sessions
<1>4. ConnInv
  BY DEF Init, ConnInv, OpenConnectionIsRead, Closed
<1>5. ReaderInv
  BY DEF Init, ReaderInv, Live
<1>6. WorkerInv
  BY DEF Init, WorkerInv
<1>7. QED
  BY <1>2, <1>3, <1>4, <1>5, <1>6 DEF Inv

(* Acquire, once the accept coroutine has disposed of its session: what it *)
(* leaves in the queue and in acc.                                         *)
LEMMA AcquireStep ==
  ASSUME TypeOK, PoolInv, Acquire
  PROVE  /\ queue' \in Seq(Sessions)
         /\ useCnt' \in Nat
         /\ acc' \in Sessions \cup {NoSession}
         /\ up' \in BOOLEAN
         /\ Distinct(queue')
         /\ Len(queue') <= PoolCnt
         /\ UseCountExact'
         /\ \A s \in Sessions : Occurs(s, queue') => Occurs(s, queue) /\ s # acc'
         /\ acc' # NoSession => Occurs(acc', queue)
<1> USE PoolAssumption
<1>1. CASE queue = <<>>
  <2>1. /\ acc' = NoSession
        /\ queue' = queue
        /\ useCnt' = useCnt
        /\ up' = FALSE
    BY <1>1 DEF Acquire
  <2>2. \A s \in Sessions : s # NoSession
    BY DEF Sessions, NoSession
  <2>3. QED
    BY <2>1, <2>2 DEF TypeOK, PoolInv, UseCountExact
<1>2. CASE queue # <<>>
  <2>1. /\ acc' = Head(queue)
        /\ queue' = Tail(queue)
        /\ useCnt' = useCnt + 1
        /\ up' = up
    BY <1>2 DEF Acquire
  <2>2. /\ Head(queue) \in Sessions
        /\ Occurs(Head(queue), queue)
        /\ Tail(queue) \in Seq(Sessions)
        /\ Len(Tail(queue)) = Len(queue) - 1
        /\ Distinct(Tail(queue))
        /\ \A s : Occurs(s, Tail(queue)) <=> Occurs(s, queue) /\ s # Head(queue)
    BY <1>2, TailDistinct DEF TypeOK, PoolInv
  <2>3. Len(queue) \in Nat /\ useCnt \in Nat /\ up \in BOOLEAN
    BY LenProperties DEF TypeOK
  <2>4. QED
    BY <2>1, <2>2, <2>3 DEF PoolInv, UseCountExact
<1>3. QED
  BY <1>1, <1>2

(* Close, from whichever handler, and whatever the session is by then:     *)
(* it closes that socket and no other, and the pool stays in order.        *)
LEMMA CloseStep ==
  ASSUME TypeOK, PoolInv, NEW s \in Sessions, NEW h \in Seq(Chunk), Close(s, h), acc' = acc
  PROVE  /\ queue' \in Seq(Sessions)
         /\ useCnt' \in Nat
         /\ poolState' \in [Sessions -> {"kNoneRegister", "kAcquire", "kRestore"}]
         /\ sock' \in [Sessions -> Conns \cup {Closed}]
         /\ sock' = [sock EXCEPT ![s] = Closed]
         /\ heap' \in Seq(Chunk)
         /\ faults' \in 0 .. MaxFaults
         /\ PoolInv'
         /\ \/ UNCHANGED <<queue, poolState>>
            \/ /\ Restorable(s) /\ ~Occurs(s, queue) /\ s # acc
               /\ poolState' = [poolState EXCEPT ![s] = "kRestore"]
               /\ \A x : Occurs(x, queue') <=> Occurs(x, queue) \/ x = s
<1> USE PoolAssumption, BoundsAssumption
<1>0. /\ sock' = [sock EXCEPT ![s] = Closed]
      /\ sock' \in [Sessions -> Conns \cup {Closed}]
      /\ faults' \in 0 .. MaxFaults
  BY DEF Close, TypeOK
<1>1. heap' \in Seq(Chunk)
  <2>1. rx[s].prev \in Nat
    BY DEF TypeOK, Rx
  <2>2. ReleaseBody(s, h) \in Seq(Chunk)
    BY <2>1, DeleteType DEF ReleaseBody
  <2>3. QED
    BY <2>2 DEF Close
<1>2. CASE UNCHANGED <<queue, useCnt, poolState>>
  BY <1>0, <1>1, <1>2 DEF TypeOK, PoolInv, UseCountExact, Restorable, Closed
<1>3. CASE /\ Restorable(s)
           /\ Restore(s)
           /\ poolState' = [poolState EXCEPT ![s] = "kRestore"]
  <2>1. ~Occurs(s, queue) /\ s # acc
    BY <1>3 DEF PoolInv
  <2>2. poolState' \in [Sessions -> {"kNoneRegister", "kAcquire", "kRestore"}]
    BY <1>3 DEF TypeOK
  <2>3. Len(queue) \in Nat /\ useCnt \in Nat
    BY LenProperties DEF TypeOK
  <2>4. Len(queue) < PoolCnt
    <3>1. IsFiniteSet(Sessions) /\ Cardinality(Sessions) = PoolCnt
      BY FS_Interval DEF Sessions
    <3>2. QED
      BY <2>1, <3>1, MissingElement DEF TypeOK, PoolInv
  <2>5. queue' = Append(queue, s) /\ useCnt' = useCnt - 1
    BY <1>3, <2>4 DEF Restore
  <2>6. /\ queue' \in Seq(Sessions)
        /\ Len(queue') = Len(queue) + 1
        /\ Distinct(queue')
        /\ \A x : Occurs(x, queue') <=> Occurs(x, queue) \/ x = s
    BY <2>1, <2>5, AppendDistinct DEF TypeOK, PoolInv
  <2>7. useCnt' \in Nat /\ Len(queue') <= PoolCnt /\ UseCountExact'
    BY <2>3, <2>4, <2>5, <2>6 DEF PoolInv, UseCountExact
  <2>8. \A x \in Sessions : Occurs(x, queue') => x # acc'
    BY <2>1, <2>6 DEF PoolInv
  <2>9. \A x \in Sessions : Occurs(x, queue') \/ x = acc' => ~Restorable(x)' /\ sock'[x] = Closed
    BY <1>0, <1>3, <2>1, <2>6 DEF TypeOK, PoolInv, Restorable
  <2>10. QED
    BY <1>0, <1>1, <1>3, <2>1, <2>2, <2>6, <2>7, <2>8, <2>9 DEF PoolInv
<1>4. QED
  BY <1>2, <1>3 DEF Close

(* The accept coroutine: the session it held is marked or dropped before   *)
(* the next one is taken, so it is neither in the pool nor offered again.  *)
LEMMA AcceptInv == ASSUME Inv, Accept PROVE Inv'
<1> USE PoolAssumption, BoundsAssumption
<1>0. TypeOK /\ PoolInv /\ ConnInv /\ ReaderInv /\ WorkerInv
  BY DEF Inv
<1>1. Acquire
  BY DEF Accept, StartAccept, Accepted, AcceptFailed
<1>2. /\ queue' \in Seq(Sessions)
      /\ useCnt' \in Nat
      /\ acc' \in Sessions \cup {NoSession}
      /\ up' \in BOOLEAN
      /\ Distinct(queue')
      /\ Len(queue') <= PoolCnt
      /\ UseCountExact'
      /\ \A s \in Sessions : Occurs(s, queue') => Occurs(s, queue) /\ s # acc'
      /\ acc' # NoSession => Occurs(acc', queue)
  BY <1>0, <1>1, AcquireStep
<1>3. \A s \in Sessions : s # NoSession
  BY DEF Sessions, NoSession
<1>4. CASE UNCHANGED <<poolState, sock, rx, reader, packets, worker, writes, heap,
                       conns, headers, gone>> /\ faults' \in 0 .. MaxFaults
  <2>1. TypeOK'
    BY <1>0, <1>2, <1>4 DEF TypeOK
  <2>2. PoolInv'
    BY <1>0, <1>2, <1>3, <1>4 DEF PoolInv, Restorable
  <2>3. ConnInv' /\ ReaderInv' /\ WorkerInv'
    BY <1>0, <1>4 DEF ConnInv, OpenConnectionIsRead, ReaderInv, WorkerInv
  <2>4. QED
    BY <2>1, <2>2, <2>3 DEF Inv
<1>5. CASE Accepted
  <2> DEFINE c == conns + 1
  <2>1. /\ acc \in Sessions
        /\ conns \in Nat
        /\ c \in Conns
        /\ conns' = c
        /\ sock' = [sock EXCEPT ![acc] = c]
        /\ poolState' = [poolState EXCEPT ![acc] = "kAcquire"]
        /\ UNCHANGED <<rx, packets, worker, writes, heap, headers, gone, faults>>
    BY <1>0, <1>5 DEF Accepted, TypeOK, Conns
  <2>2. reader' = [reader EXCEPT ![c] = [phase |-> "header", sess |-> acc, on |-> c,
                                         buf |-> Null, size |-> 0]]
    BY <1>0, <1>5, <2>1 DEF Accepted, Receive, TypeOK
  <2> HIDE DEF c
  <2>3. TypeOK'
    <3>1. reader' \in [Conns -> Reader]
      BY <1>0, <2>1, <2>2 DEF TypeOK, Reader, Live, Null
    <3>2. conns' \in 0 .. MaxConns
      BY <2>1 DEF Conns
    <3>3. QED
      BY <1>0, <1>2, <2>1, <3>1, <3>2 DEF TypeOK
  <2>4. PoolInv'
    <3>1. \A s \in Sessions : Occurs(s, queue') => s # acc
      BY <1>0, <1>2 DEF PoolInv
    <3>2. acc' # acc
      BY <1>0, <1>2, <1>3, <2>1 DEF PoolInv
    <3>3. QED
      BY <1>0, <1>2, <1>3, <2>1, <3>1, <3>2 DEF PoolInv, Restorable, TypeOK
  <2>5. ConnInv'
    <3>1. \A s \in Sessions : sock[s] \in Nat /\ sock[s] < c
      BY <1>0, <2>1 DEF ConnInv, TypeOK, Conns, Closed, c
    <3>2. \A s \in Sessions : sock'[s] <= conns'
      BY <1>0, <2>1, <3>1 DEF TypeOK, Conns
    <3>3. OpenConnectionIsRead'
      BY <1>0, <2>1, <2>2, <3>1 DEF ConnInv, OpenConnectionIsRead, TypeOK, Conns, Closed, Live
    <3>4. QED
      BY <3>2, <3>3 DEF ConnInv
  <2>6. ReaderInv'
    BY <1>0, <2>1, <2>2 DEF ReaderInv, TypeOK, Live
  <2>7. WorkerInv'
    BY <1>0, <2>1 DEF WorkerInv
  <2>8. QED
    BY <2>3, <2>4, <2>5, <2>6, <2>7 DEF Inv
<1>6. QED
  BY <1>0, <1>4, <1>5 DEF Accept, StartAccept, AcceptFailed, TypeOK

(* A handler that closes its session: the three failing outcomes of a      *)
(* receive, which end the coroutine, and a failed write.                   *)
LEMMA ClosingInv ==
  ASSUME Inv, NEW s \in Sessions, NEW h \in Seq(Chunk), Close(s, h),
         rx' \in [Sessions -> Rx],
         \A x \in Sessions : rx[x].proto \in Protocols => rx'[x].proto \in Protocols,
         \A x \in Sessions : rx'[x].size = rx[x].size \/ rx'[x].size >= EnderSize,
         writes' \subseteq writes,
         \/ reader' = reader
         \/ \E c \in Conns : /\ reader[c].sess = s
                             /\ reader' = [reader EXCEPT ![c].phase = "ended"],
         UNCHANGED <<acc, up, packets, worker, conns, headers, gone>>
  PROVE  Inv'
<1>0. TypeOK /\ PoolInv /\ ConnInv /\ ReaderInv /\ WorkerInv
  BY DEF Inv
<1>1. /\ queue' \in Seq(Sessions)
      /\ useCnt' \in Nat
      /\ poolState' \in [Sessions -> {"kNoneRegister", "kAcquire", "kRestore"}]
      /\ sock' \in [Sessions -> Conns \cup {Closed}]
      /\ sock' = [sock EXCEPT ![s] = Closed]
      /\ heap' \in Seq(Chunk)
      /\ faults' \in 0 .. MaxFaults
      /\ PoolInv'
  BY <1>0, CloseStep
<1>2. /\ reader' \in [Conns -> Reader]
      /\ \A c \in Conns : /\ reader'[c].sess = reader[c].sess
                          /\ \/ reader'[c].phase = reader[c].phase
                             \/ reader'[c].phase = "ended" /\ reader[c].sess = s
  <2>1. CASE reader' = reader
    BY <1>0, <2>1 DEF TypeOK
  <2>2. ASSUME NEW c \in Conns, reader[c].sess = s,
               reader' = [reader EXCEPT ![c].phase = "ended"]
        PROVE  <1>2!1 /\ <1>2!2
    <3>1. reader[c] \in Reader
      BY <1>0 DEF TypeOK
    <3>2. [reader[c] EXCEPT !.phase = "ended"] \in Reader
      BY <3>1 DEF Reader
    <3>3. reader' \in [Conns -> Reader]
      BY <1>0, <2>2, <3>2 DEF TypeOK
    <3>4. /\ reader'[c].sess = s
          /\ reader'[c].phase = "ended"
          /\ \A d \in Conns : d # c => reader'[d] = reader[d]
      BY <1>0, <2>2, <3>1 DEF TypeOK, Reader
    <3>5. QED
      BY <2>2, <3>3, <3>4
  <2>3. QED
    BY <2>1, <2>2
<1>3. TypeOK'
  BY <1>0, <1>1, <1>2 DEF TypeOK
<1>4. ConnInv'
  <2>1. \A x \in Sessions : sock'[x] <= conns'
    BY <1>0, <1>1 DEF ConnInv, TypeOK, Closed
  <2>2. OpenConnectionIsRead'
    BY <1>0, <1>1, <1>2 DEF ConnInv, OpenConnectionIsRead, TypeOK, Closed
  <2>3. QED
    BY <2>1, <2>2 DEF ConnInv
<1>5. ReaderInv'
  BY <1>0, <1>2 DEF ReaderInv, Live
<1>6. WorkerInv'
  BY <1>0 DEF WorkerInv
<1>7. QED
  BY <1>1, <1>3, <1>4, <1>5, <1>6 DEF Inv

(* The receive coroutine of a connection. *)
LEMMA ReadInv == ASSUME Inv, NEW c \in Conns, Read(c) PROVE Inv'
<1> DEFINE s == reader[c].sess
<1>0. TypeOK /\ PoolInv /\ ConnInv /\ ReaderInv /\ WorkerInv
  BY DEF Inv
<1>1. s \in Sessions /\ heap \in Seq(Chunk)
  BY <1>0 DEF Read, HeaderFailed, HeaderRefused, HeaderAccepted, BodyReceived, BodyFailed,
              ReaderInv, TypeOK, Live
<1>2. CASE HeaderFailed(c) \/ BodyFailed(c)
  <2>1. rx' = rx /\ rx \in [Sessions -> Rx]
    BY <1>0, <1>2 DEF HeaderFailed, BodyFailed, TypeOK
  <2>2. QED
    BY <1>1, <1>2, <2>1, ClosingInv DEF HeaderFailed, BodyFailed, Ends
<1>3. CASE HeaderRefused(c)
  <2>1. PICK p \in Protocols, b \in Bodies :
          \/ rx' = [rx EXCEPT ![s].proto = p]
          \/ rx' = [rx EXCEPT ![s] = Members(@.buf, @.prev, b + EnderSize, p)]
    BY <1>3 DEF HeaderRefused
  <2>2. b \in Nat /\ EnderSize \in Nat
    BY SizesAssumption
  <2>3. rx[s] \in Rx /\ rx \in [Sessions -> Rx]
    BY <1>0, <1>1 DEF TypeOK
  <2>4. /\ rx' \in [Sessions -> Rx]
        /\ \A x \in Sessions : rx[x].proto \in Protocols => rx'[x].proto \in Protocols
        /\ \A x \in Sessions : rx'[x].size = rx[x].size \/ rx'[x].size >= EnderSize
    <3> DEFINE q == [rx[s] EXCEPT !.proto = p]
               r == Members(rx[s].buf, rx[s].prev, b + EnderSize, p)
    <3>1. /\ q \in Rx /\ q.proto = p /\ q.size = rx[s].size
          /\ r \in Rx /\ r.proto = p /\ r.size = b + EnderSize
      BY <2>2, <2>3 DEF Rx, Members
    <3>2. rx' = [rx EXCEPT ![s] = q] \/ rx' = [rx EXCEPT ![s] = r]
      BY <2>1
    <3> HIDE DEF s, q, r
    <3>3. b + EnderSize >= EnderSize
      BY <2>2
    <3>4. QED
      BY <1>1, <2>3, <3>1, <3>2, <3>3
  <2>5. QED
    BY <1>1, <1>3, <2>4, ClosingInv DEF HeaderRefused, Ends
<1>4. CASE HeaderAccepted(c)
  <2>1. PICK p \in Protocols, b \in Bodies :
          /\ IF b + EnderSize > 0
               THEN /\ heap' = Append(heap, New(b + EnderSize))
                    /\ rx' = [rx EXCEPT ![s] = Members(Len(heap) + 1, b + EnderSize,
                                                       b + EnderSize, p)]
               ELSE /\ rx' = [rx EXCEPT ![s] = Members(@.buf, @.prev, b + EnderSize, p)]
                    /\ UNCHANGED heap
          /\ UNCHANGED sock
          /\ reader' = [reader EXCEPT ![c] = Receive(s, "body", rx'[s].buf, b + EnderSize)]
    BY <1>4 DEF HeaderAccepted
  <2>2. /\ b + EnderSize \in Nat
        /\ EnderSize \in Nat
        /\ b + EnderSize >= EnderSize
        /\ Len(heap) \in Nat
    BY <1>1, SizesAssumption, LenProperties
  <2>3. rx[s] \in Rx /\ rx \in [Sessions -> Rx]
    BY <1>0, <1>1 DEF TypeOK
  <2>4. /\ rx' \in [Sessions -> Rx]
        /\ rx'[s].proto \in Protocols
        /\ rx'[s].size >= EnderSize
        /\ \A x \in Sessions : x # s => rx'[x] = rx[x]
    <3> DEFINE n == b + EnderSize
               q == Members(Len(heap) + 1, n, n, p)
               r == Members(rx[s].buf, rx[s].prev, n, p)
    <3>1. /\ q \in Rx /\ q.proto = p /\ q.size = n
          /\ r \in Rx /\ r.proto = p /\ r.size = n
      BY <2>2, <2>3 DEF Rx, Members
    <3>2. rx' = [rx EXCEPT ![s] = q] \/ rx' = [rx EXCEPT ![s] = r]
      BY <2>1
    <3> HIDE DEF s, q, r
    <3>3. QED
      BY <1>1, <2>2, <2>3, <3>1, <3>2
  <2>5. heap' \in Seq(Chunk)
    <3>1. New(b + EnderSize) \in Chunk
      BY <2>2, EmptySeq DEF New, Chunk
    <3>2. QED
      <4>1. heap' = Append(heap, New(b + EnderSize)) \/ heap' = heap
        BY <2>1
      <4>2. Append(heap, New(b + EnderSize)) \in Seq(Chunk)
        BY <1>1, <3>1, AppendProperties
      <4>3. QED
        BY <1>1, <4>1, <4>2
  <2>6. /\ reader' \in [Conns -> Reader]
        /\ reader'[c].sess = s
        /\ reader'[c].phase = "body"
        /\ \A d \in Conns : d # c => reader'[d] = reader[d]
    <3>1. sock'[s] \in Conns \cup {Closed} /\ rx'[s].buf \in Nat
      BY <1>0, <1>1, <2>1, <2>4 DEF TypeOK, Rx
    <3>2. Receive(s, "body", rx'[s].buf, b + EnderSize) \in Reader
      BY <1>1, <2>2, <3>1 DEF Receive, Reader, Live
    <3>3. QED
      BY <1>0, <2>1, <3>2 DEF TypeOK, Receive
  <2>7. /\ headers' \in 0 .. MaxHeaders
        /\ reader[c].phase = "header"
        /\ UNCHANGED <<queue, useCnt, acc, up, poolState, sock, packets, worker, writes,
                       conns, gone, faults>>
    BY <1>0, <1>4, <2>1, BoundsAssumption DEF HeaderAccepted, TypeOK
  <2>8. TypeOK'
    BY <1>0, <2>4, <2>5, <2>6, <2>7 DEF TypeOK
  <2>9. PoolInv'
    BY <1>0, <2>7 DEF PoolInv, UseCountExact, Restorable
  <2>10. ConnInv'
    <3> HIDE DEF s
    <3>1. \A x \in Sessions : sock[x] # Closed => sock[x] \in Conns
      BY <1>0 DEF TypeOK
    <3>2. \A d \in Conns : reader'[d].sess = reader[d].sess
      BY <2>6 DEF s
    <3>3. \A d \in Conns : reader[d].phase \in Live => reader'[d].phase \in Live
      BY <2>6 DEF Live
    <3>4. QED
      BY <1>0, <2>7, <3>1, <3>2, <3>3 DEF ConnInv, OpenConnectionIsRead
  <2>11. ReaderInv'
    BY <1>0, <1>1, <2>4, <2>6 DEF ReaderInv, Live
  <2>12. WorkerInv'
    BY <1>0, <2>7 DEF WorkerInv
  <2>13. QED
    BY <2>8, <2>9, <2>10, <2>11, <2>12 DEF Inv
<1>5. CASE BodyReceived(c)
  <2>1. /\ reader[c].phase = "body"
        /\ packets' = Append(packets, PacketOf(s))
        /\ rx' = [rx EXCEPT ![s].buf = Null]
        /\ reader' = [reader EXCEPT ![c] = Receive(s, "header", Null, 0)]
        /\ UNCHANGED <<queue, useCnt, acc, up, poolState, sock, worker, writes, heap,
                       conns, headers, gone, faults>>
    BY <1>5 DEF BodyReceived, ForgetBody
  <2>2. rx[s] \in Rx /\ rx \in [Sessions -> Rx]
    BY <1>0, <1>1 DEF TypeOK
  <2>3. rx[s].proto \in Protocols /\ rx[s].size - EnderSize \in Nat
    BY <1>0, <2>1, <2>2, SizesAssumption DEF ReaderInv, Rx
  <2>4. packets' \in Seq(Packet)
    <3>1. PacketOf(s) \in Packet
      BY <1>1, <2>2, <2>3 DEF PacketOf, Packet, Rx
    <3>2. QED
      BY <1>0, <2>1, <3>1, AppendProperties DEF TypeOK
  <2>5. /\ rx' \in [Sessions -> Rx]
        /\ \A x \in Sessions : rx'[x].proto = rx[x].proto /\ rx'[x].size = rx[x].size
    BY <1>1, <2>1, <2>2 DEF Rx, Null
  <2>6. /\ reader' \in [Conns -> Reader]
        /\ reader'[c].sess = s
        /\ reader'[c].phase = "header"
        /\ \A d \in Conns : d # c => reader'[d] = reader[d]
    <3>1. sock'[s] \in Conns \cup {Closed}
      BY <1>0, <1>1, <2>1 DEF TypeOK
    <3>2. Receive(s, "header", Null, 0) \in Reader
      BY <1>1, <3>1 DEF Receive, Reader, Live, Null
    <3>3. QED
      BY <1>0, <2>1, <3>2 DEF TypeOK, Receive
  <2>7. TypeOK'
    BY <1>0, <2>1, <2>4, <2>5, <2>6 DEF TypeOK
  <2>8. PoolInv'
    BY <1>0, <2>1 DEF PoolInv, UseCountExact, Restorable
  <2>9. ConnInv'
    BY <1>0, <2>1, <2>6 DEF ConnInv, OpenConnectionIsRead, Live
  <2>10. ReaderInv'
    BY <1>0, <1>1, <2>5, <2>6 DEF ReaderInv, Live
  <2>11. WorkerInv'
    BY <1>0, <2>1 DEF WorkerInv
  <2>12. QED
    BY <2>7, <2>8, <2>9, <2>10, <2>11 DEF Inv
<1>6. QED
  BY <1>2, <1>3, <1>4, <1>5 DEF Read

(* A worker thread. *)
LEMMA WorkInv == ASSUME Inv, NEW w \in Workers, Work(w) PROVE Inv'
<1>0. TypeOK /\ PoolInv /\ ConnInv /\ ReaderInv /\ WorkerInv
  BY DEF Inv
<1>1. /\ UNCHANGED <<queue, useCnt, acc, up, poolState, sock, rx, reader, conns,
                     headers, gone, faults>>
  BY DEF Work, GetPacketInfo, Handle, Send
<1>2. PoolInv' /\ ConnInv' /\ ReaderInv'
  BY <1>0, <1>1 DEF PoolInv, UseCountExact, Restorable, ConnInv, OpenConnectionIsRead, ReaderInv
<1>3. worker[w] \in Worker /\ worker \in [Workers -> Worker]
  BY <1>0 DEF TypeOK
<1>4. SUFFICES /\ packets' \in Seq(Packet)
               /\ worker' \in [Workers -> Worker]
               /\ writes' \subseteq Write
               /\ heap' \in Seq(Chunk)
               /\ worker'[w].pc # "wait" => worker'[w].pkt \in Packet
               /\ \A v \in Workers : v # w => worker'[v] = worker[v]
  <2>1. TypeOK'
    BY <1>0, <1>1, <1>4 DEF TypeOK
  <2>2. WorkerInv'
    BY <1>0, <1>4 DEF WorkerInv
  <2>3. QED
    BY <1>2, <2>1, <2>2 DEF Inv
<1>5. CASE GetPacketInfo(w)
  <2>1. Head(packets) \in Packet /\ Tail(packets) \in Seq(Packet)
    BY <1>0, <1>5, HeadTailProperties DEF GetPacketInfo, TypeOK
  <2>2. worker' = [worker EXCEPT ![w].pc = "work", ![w].pkt = Head(packets)]
    BY <1>5 DEF GetPacketInfo
  <2>3. /\ worker' \in [Workers -> Worker]
        /\ worker'[w].pkt \in Packet
        /\ \A v \in Workers : v # w => worker'[v] = worker[v]
    BY <1>3, <2>1, <2>2 DEF Worker
  <2>4. QED
    BY <1>0, <1>5, <2>1, <2>3 DEF GetPacketInfo, TypeOK
<1>6. CASE Handle(w)
  <2> DEFINE pkt == worker[w].pkt
  <2>1. pkt \in Packet
    BY <1>0, <1>6 DEF Handle, WorkerInv
  <2>2. ReleasePacket(pkt) \in Seq(Chunk)
    BY <1>0, <2>1, DeleteType DEF ReleasePacket, TypeOK, Packet
  <2>3. New(ReplySize) \in Chunk
    BY SizesAssumption, EmptySeq DEF New, Chunk
  <2>4. heap' \in Seq(Chunk)
    BY <1>6, <2>2, <2>3, AppendProperties DEF Handle
  <2>5. /\ worker' \in [Workers -> Worker]
        /\ worker'[w].pc # "wait" => worker'[w].pkt \in Packet
        /\ \A v \in Workers : v # w => worker'[v] = worker[v]
    <3>1. Len(heap) + 1 \in Nat
      BY <1>0, LenProperties DEF TypeOK
    <3>2. CASE worker' = [worker EXCEPT ![w].pc = "send", ![w].reply = Len(heap) + 1]
      BY <1>3, <2>1, <3>1, <3>2 DEF Worker
    <3>3. CASE worker' = [worker EXCEPT ![w].pc = "wait", ![w].pkt = NoPacket]
      BY <1>3, <3>3 DEF Worker
    <3>4. QED
      BY <1>6, <3>2, <3>3 DEF Handle
  <2>6. QED
    BY <1>0, <1>6, <2>4, <2>5 DEF Handle, TypeOK
<1>7. CASE Send(w)
  <2> DEFINE s == worker[w].pkt.sess
  <2>1. s \in Sessions /\ worker[w].reply \in Nat
    BY <1>0, <1>3, <1>7 DEF Send, WorkerInv, Packet, Worker
  <2>2. sock[s] \in Conns \cup {Closed}
    BY <1>0, <2>1 DEF TypeOK
  <2>3. writes' \subseteq Write
    BY <1>0, <1>7, <2>1, <2>2 DEF Send, TypeOK, Write
  <2>4. /\ worker' \in [Workers -> Worker]
        /\ worker'[w].pc = "wait"
        /\ \A v \in Workers : v # w => worker'[v] = worker[v]
    BY <1>3, <1>7 DEF Send, Worker, Null
  <2>5. QED
    BY <1>0, <1>7, <2>3, <2>4 DEF Send, TypeOK
<1>8. QED
  BY <1>5, <1>6, <1>7 DEF Work

(* A completed write. *)
LEMMA WrittenInv == ASSUME Inv, NEW o \in writes, Written(o) PROVE Inv'
<1>0. TypeOK /\ PoolInv /\ ConnInv /\ ReaderInv /\ WorkerInv
  BY DEF Inv
<1>1. o.sess \in Sessions /\ rx \in [Sessions -> Rx]
  BY <1>0 DEF TypeOK, Write
<1>2. \A n \in StackLengths : Delete(heap, o.buf, n) \in Seq(Chunk)
  BY <1>0, SizesAssumption, DeleteType DEF TypeOK
<1>3. CASE WriteSucceeded(o)
  <2>1. /\ heap' \in Seq(Chunk)
        /\ writes' \subseteq writes
        /\ UNCHANGED <<queue, useCnt, acc, up, poolState, sock, rx, reader, packets,
                       worker, conns, headers, gone, faults>>
    BY <1>2, <1>3 DEF WriteSucceeded
  <2>2. TypeOK'
    BY <1>0, <2>1 DEF TypeOK
  <2>3. QED
    BY <1>0, <2>1, <2>2 DEF Inv, PoolInv, UseCountExact, Restorable, ConnInv,
                            OpenConnectionIsRead, ReaderInv, WorkerInv
<1>4. CASE WriteFailed(o)
  <2>1. PICK n \in StackLengths : Close(o.sess, Delete(heap, o.buf, n))
    BY <1>4 DEF WriteFailed
  <2>2. /\ writes' \subseteq writes
        /\ UNCHANGED <<acc, up, rx, reader, packets, worker, conns, headers, gone>>
    BY <1>4 DEF WriteFailed
  <2>3. QED
    BY <1>1, <1>2, <2>1, <2>2, ClosingInv
<1>5. QED
  BY <1>3, <1>4 DEF Written

(* Every step, stuttering included, keeps the invariant. *)
LEMMA NextInv == Inv /\ [Next]_vars => Inv'
<1> SUFFICES ASSUME Inv, [Next]_vars PROVE Inv'
  OBVIOUS
<1>1. CASE Accept
  BY <1>1, AcceptInv
<1>2. ASSUME NEW c \in Conns, Read(c) PROVE Inv'
  BY <1>2, ReadInv
<1>3. ASSUME NEW w \in Workers, Work(w) PROVE Inv'
  BY <1>3, WorkInv
<1>4. ASSUME NEW o \in writes, Written(o) PROVE Inv'
  BY <1>4, WrittenInv
<1>5. ASSUME NEW c \in Conns, Disconnect(c) PROVE Inv'
  BY <1>5 DEF Disconnect, Inv, TypeOK, PoolInv, UseCountExact, Restorable, ConnInv,
              OpenConnectionIsRead, ReaderInv, WorkerInv
<1>6. CASE UNCHANGED vars
  BY <1>6 DEF vars, Inv, TypeOK, PoolInv, UseCountExact, Restorable, ConnInv,
              OpenConnectionIsRead, ReaderInv, WorkerInv
<1>7. QED
  BY <1>1, <1>2, <1>3, <1>4, <1>5, <1>6 DEF Next

(* The invariant holds in every reachable state. *)
LEMMA SpecInv == Spec => []Inv
  BY InitInv, NextInv, PTL DEF Spec
-----------------------------------------------------------------------------
(* The state of the server is always of its type; in particular the        *)
(* unsigned use count of the session pool does not wrap below zero.        *)
THEOREM TypeCorrect == Spec => []TypeOK
<1>1. Inv => TypeOK
  BY DEF Inv
<1>2. QED
  BY <1>1, SpecInv, PTL

(* No session is ever offered to two clients, whatever late receives and   *)
(* late writes call Close.                                                 *)
THEOREM SessionExclusive == Spec => []SessionInOnePlace
<1>1. Inv => SessionInOnePlace
  BY DEF Inv, PoolInv, SessionInOnePlace, Distinct, InQueue, Occurs
<1>2. QED
  BY <1>1, SpecInv, PTL

(* The pool never refuses the session Close gives back, so ignoring the    *)
(* result of Restore loses no session.                                     *)
THEOREM RestoreAccepted == Spec => []RoomToRestore
<1>1. Inv => RoomToRestore
  <2> SUFFICES ASSUME Inv, NEW s \in Sessions, Restorable(s)
               PROVE  Len(queue) < PoolCnt
    BY DEF RoomToRestore
  <2>1. queue \in Seq(Sessions) /\ Distinct(queue) /\ ~Occurs(s, queue)
    BY DEF Inv, TypeOK, PoolInv
  <2>2. IsFiniteSet(Sessions) /\ Cardinality(Sessions) = PoolCnt
    BY PoolAssumption, FS_Interval DEF Sessions
  <2>3. QED
    BY <2>1, <2>2, MissingElement
<1>2. QED
  BY <1>1, SpecInv, PTL

(* The use count is the number of sessions out of the pool. *)
THEOREM UseCountCorrect == Spec => []UseCountExact
<1>1. Inv => UseCountExact
  BY DEF Inv, PoolInv
<1>2. QED
  BY <1>1, SpecInv, PTL

(* Every open connection has its own receive pending. *)
THEOREM ConnectionsAreRead == Spec => []OpenConnectionIsRead
<1>1. Inv => OpenConnectionIsRead
  BY DEF Inv, ConnInv
<1>2. QED
  BY <1>1, SpecInv, PTL
-----------------------------------------------------------------------------
(* The stages of the sessions, the state of SessionLife. *)
Stages == [s \in Sessions |-> Stage(s)]

(* What a step does to the stages when it only moves the session the       *)
(* accept coroutine held, out to stage st, and takes the next one.         *)
LEMMA AcquireStages ==
  ASSUME Inv, Acquire, NEW f,
         f = [s \in Sessions |->
                IF s = acc THEN IF poolState'[s] = "kAcquire" THEN "serving" ELSE "lost"
                ELSE Stage(s)],
         \A s \in Sessions : s # acc => poolState'[s] = poolState[s]
  PROVE  \/ \E t \in Sessions : /\ Stages[t] = "free"
                                /\ Stages' = [f EXCEPT ![t] = "offered"]
                                /\ up' = up
         \/ /\ \A t \in Sessions : Stages[t] # "free"
            /\ Stages' = f
            /\ up' = FALSE
<1>0. TypeOK /\ PoolInv
  BY DEF Inv
<1>1. \A s \in Sessions : s # NoSession
  BY PoolAssumption DEF Sessions, NoSession
<1>2. \A s : InQueue(s) <=> Occurs(s, queue)
  BY DEF InQueue, Occurs
<1>3. \A s : InQueue(s)' <=> Occurs(s, queue')
  BY DEF InQueue, Occurs
<1>4. CASE queue = <<>>
  <2>1. acc' = NoSession /\ up' = FALSE /\ queue' = queue
    BY <1>4 DEF Acquire
  <2>2. \A s : ~Occurs(s, queue)
    BY <1>4 DEF Occurs
  <2>3. \A s \in Sessions : Stage(s)' = f[s]
    BY <1>1, <1>2, <1>3, <2>1, <2>2 DEF Stage, Restorable
  <2>4. Stages' = f
    BY <2>3 DEF Stages
  <2>5. \A t \in Sessions : Stages[t] # "free"
    BY <1>2, <2>2 DEF Stages, Stage
  <2>6. QED
    BY <2>1, <2>4, <2>5
<1>5. CASE queue # <<>>
  <2>0. PICK t : t = Head(queue)
    OBVIOUS
  <2>1. acc' = t /\ up' = up /\ queue' = Tail(queue)
    BY <1>5, <2>0 DEF Acquire
  <2>2. /\ t \in Sessions
        /\ Occurs(t, queue)
        /\ \A s : Occurs(s, queue') <=> Occurs(s, queue) /\ s # t
    BY <1>0, <1>5, <2>0, <2>1, TailDistinct DEF TypeOK, PoolInv
  <2>3. t # acc
    BY <1>0, <2>2 DEF PoolInv
  <2>4. Stages[t] = "free"
    BY <1>2, <2>2 DEF Stages, Stage
  <2>5. \A s \in Sessions : s # t /\ s # acc => Stage(s)' = Stage(s)
    BY <1>2, <1>3, <2>1, <2>2 DEF Stage, Restorable
  <2>6. Stage(t)' = "offered"
    BY <1>3, <2>1, <2>2 DEF Stage
  <2>7. \A s \in Sessions : s = acc => Stage(s)' = f[s]
    <3>1. acc \in Sessions => ~Occurs(acc, queue)
      BY <1>0 DEF PoolInv
    <3>2. QED
      BY <1>3, <2>1, <2>2, <2>3, <3>1 DEF Stage, Restorable
  <2>8. Stages' = [f EXCEPT ![t] = "offered"]
    BY <2>2, <2>5, <2>6, <2>7 DEF Stages
  <2>9. QED
    BY <2>1, <2>2, <2>4, <2>8
<1>6. QED
  BY <1>4, <1>5

(* A step of the accept coroutine is a step of SessionLife. *)
LEMMA AcceptLife == ASSUME Inv, up, Accept PROVE Life!Next
<1>0. TypeOK /\ PoolInv /\ Acquire
  BY DEF Inv, Accept, StartAccept, Accepted, AcceptFailed
<1>1. \A s \in Sessions : s # NoSession
  BY PoolAssumption DEF Sessions, NoSession
<1>2. acc \in Sessions => Stages[acc] = "offered" /\ ~Restorable(acc)
  BY <1>0 DEF PoolInv, Stages, Stage, InQueue, Occurs
<1> DEFINE f == [s \in Sessions |->
                   IF s = acc THEN IF poolState'[s] = "kAcquire" THEN "serving" ELSE "lost"
                   ELSE Stage(s)]
<1>3. \A s \in Sessions : s # acc => poolState'[s] = poolState[s]
  BY <1>0 DEF Accept, StartAccept, Accepted, AcceptFailed, TypeOK
<1>4. Life!Take(f)
  <2>1. \/ \E t \in Sessions : Stages[t] = "free" /\ Stages' = [f EXCEPT ![t] = "offered"] /\ up' = up
        \/ (\A t \in Sessions : Stages[t] # "free") /\ Stages' = f /\ up' = FALSE
    <3> HIDE DEF f
    <3>1. QED
      BY <1>0, <1>3, AcquireStages DEF f
  <2> HIDE DEF f
  <2>2. QED
    BY <2>1 DEF Life!Take, Stages
<1>5. CASE StartAccept
  <2>1. acc = NoSession
    BY <1>5 DEF StartAccept
  <2>2. f = Stages
    BY <1>1, <2>1 DEF Stages
  <2>3. \A s \in Sessions : Stages[s] # "offered"
    BY <1>1, <2>1 DEF Stages, Stage
  <2> HIDE DEF f
  <2>4. QED
    BY <1>4, <2>2, <2>3 DEF Life!Next, Life!First, Stages
<1>6. CASE Accepted
  <2>1. acc \in Sessions /\ poolState'[acc] = "kAcquire"
    BY <1>0, <1>6 DEF Accepted, TypeOK
  <2>2. f = [Stages EXCEPT ![acc] = "serving"]
    BY <2>1 DEF Stages, Restorable
  <2> HIDE DEF f
  <2>3. QED
    BY <1>2, <1>4, <2>1, <2>2 DEF Life!Next, Life!Serve, Stages
<1>7. CASE AcceptFailed
  <2>1. acc \in Sessions /\ poolState' = poolState
    BY <1>0, <1>7 DEF AcceptFailed, TypeOK
  <2>2. f = [Stages EXCEPT ![acc] = "lost"]
    BY <1>2, <2>1 DEF Stages, Restorable
  <2> HIDE DEF f
  <2>3. QED
    BY <1>2, <1>4, <2>1, <2>2 DEF Life!Next, Life!Lose, Stages
<1>8. QED
  BY <1>5, <1>6, <1>7 DEF Accept

(* A call of Close changes no stage, or returns the session it closes. *)
LEMMA CloseLife ==
  ASSUME Inv, up, NEW s \in Sessions, NEW h \in Seq(Chunk), Close(s, h), UNCHANGED <<acc, up>>
  PROVE  Life!Next \/ Stages' = Stages
<1>0. TypeOK /\ PoolInv
  BY DEF Inv
<1>1. \/ UNCHANGED <<queue, poolState>>
      \/ /\ Restorable(s) /\ ~Occurs(s, queue) /\ s # acc
         /\ poolState' = [poolState EXCEPT ![s] = "kRestore"]
         /\ \A x : Occurs(x, queue') <=> Occurs(x, queue) \/ x = s
  BY <1>0, CloseStep
<1>2. \A x : (InQueue(x) <=> Occurs(x, queue)) /\ (InQueue(x)' <=> Occurs(x, queue'))
  BY DEF InQueue, Occurs
<1>3. CASE UNCHANGED <<queue, poolState>>
  BY <1>3 DEF Stages, Stage, InQueue, Restorable
<1>4. CASE ~UNCHANGED <<queue, poolState>>
  <2>1. Stages[s] = "serving"
    BY <1>1, <1>2, <1>4 DEF Stages, Stage
  <2>2. \A x \in Sessions : Stage(x)' = IF x = s THEN "free" ELSE Stage(x)
    BY <1>0, <1>1, <1>2, <1>4 DEF Stage, Restorable, TypeOK
  <2>3. Stages' = [Stages EXCEPT ![s] = "free"]
    BY <2>2 DEF Stages
  <2>4. QED
    BY <2>1, <2>3 DEF Life!Next, Life!Return, Stages
<1>5. QED
  BY <1>3, <1>4

(* Every step of the server is a step of SessionLife, or leaves it alone. *)
LEMMA NextLife == Inv /\ [Next]_vars => [Life!Next]_<<Stages, ~up>>
<1> SUFFICES ASSUME Inv, [Next]_vars PROVE Life!Next \/ UNCHANGED <<Stages, up>>
  OBVIOUS
<1>0. TypeOK /\ ReaderInv
  BY DEF Inv
<1>1. ASSUME UNCHANGED <<queue, acc, poolState, up>> PROVE UNCHANGED <<Stages, up>>
  BY <1>1 DEF Stages, Stage, InQueue, Restorable
<1>2. CASE UNCHANGED vars
  BY <1>1, <1>2 DEF vars
<1>3. CASE up /\ Accept
  BY <1>3, AcceptLife
<1>4. ASSUME up, NEW c \in Conns, Read(c) \/ Disconnect(c)
      PROVE  Life!Next \/ UNCHANGED <<Stages, up>>
  <2>1. CASE HeaderFailed(c) \/ HeaderRefused(c) \/ BodyFailed(c)
    <3>1. reader[c].sess \in Sessions /\ heap \in Seq(Chunk)
      BY <1>0, <2>1 DEF HeaderFailed, HeaderRefused, BodyFailed, ReaderInv, TypeOK, Live
    <3>2. Close(reader[c].sess, heap) /\ UNCHANGED <<acc, up>>
      BY <2>1 DEF HeaderFailed, HeaderRefused, BodyFailed
    <3>3. QED
      BY <1>4, <3>1, <3>2, CloseLife
  <2>2. CASE HeaderAccepted(c) \/ BodyReceived(c) \/ Disconnect(c)
    BY <1>1, <2>2 DEF HeaderAccepted, BodyReceived, Disconnect
  <2>3. QED
    BY <1>4, <2>1, <2>2 DEF Read
<1>5. ASSUME NEW w \in Workers, Work(w) PROVE UNCHANGED <<Stages, up>>
  BY <1>1, <1>5 DEF Work, GetPacketInfo, Handle, Send
<1>6. ASSUME up, NEW o \in writes, Written(o)
      PROVE  Life!Next \/ UNCHANGED <<Stages, up>>
  <2>1. CASE WriteSucceeded(o)
    BY <1>1, <2>1 DEF WriteSucceeded
  <2>2. CASE WriteFailed(o)
    <3>1. o.sess \in Sessions /\ o.buf \in Nat /\ StackLengths \subseteq Nat
      BY <1>0, SizesAssumption DEF TypeOK, Write
    <3>2. PICK n \in StackLengths : Close(o.sess, Delete(heap, o.buf, n))
      BY <2>2 DEF WriteFailed
    <3>3. Delete(heap, o.buf, n) \in Seq(Chunk)
      BY <1>0, <3>1, <3>2, DeleteType DEF TypeOK
    <3>4. QED
      BY <1>6, <2>2, <3>1, <3>2, <3>3, CloseLife DEF WriteFailed
  <2>3. QED
    BY <1>6, <2>1, <2>2 DEF Written
<1>7. QED
  BY <1>2, <1>3, <1>4, <1>5, <1>6 DEF Next

(* The server implements the life cycle of a session: whatever receives,   *)
(* workers and write handlers call Close late or twice, a session goes     *)
(* from free to offered to serving to free, and to no other client.        *)
THEOREM ImplementsLifeCycle == Spec => LifeCycle
<1>1. Init => Life!Init
  <2> SUFFICES ASSUME Init PROVE Life!Init
    OBVIOUS
  <2>1. \A s \in Sessions : s + 1 \in DOMAIN queue /\ queue[s + 1] = s
    BY PoolAssumption DEF Init, Sessions
  <2>2. \A s \in Sessions : InQueue(s)
    BY <2>1 DEF InQueue
  <2>3. QED
    BY <2>2 DEF Init, Life!Init, Stage
<1>2. Inv /\ [Next]_vars => [Life!Next]_<<[s \in Sessions |-> Stage(s)], ~up>>
  BY NextLife DEF Stages
<1>3. QED
  BY <1>1, <1>2, SpecInv, PTL DEF Spec, LifeCycle, Life!Spec
=============================================================================
