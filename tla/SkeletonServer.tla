--------------------------- MODULE SkeletonServer ---------------------------
(***************************************************************************)
(* The server side of the library: the accept coroutine of SkltServer, the *)
(* pool of sessions it draws from (AsyncSessionPool), the receive          *)
(* coroutines and write completions of AsyncSessionImpl, the packet queue  *)
(* of PacketWorkerManager and the worker threads that drain it.            *)
(*                                                                         *)
(* Threads.  SkltServer::Run calls m_ioService.run() from one thread.  The *)
(* accept coroutine, every receive coroutine and every write completion    *)
(* run there, so a handler runs from one suspension point to the next      *)
(* without another handler in between: each is one action.  The workers    *)
(* are threads of their own and interleave with the handlers.              *)
(*                                                                         *)
(* A session is recycled: Close puts it back in the pool while a receive   *)
(* or a write that was started on it may still wait for its completion     *)
(* handler, and while a worker may still hold a packet that names it.  The *)
(* handlers therefore keep the session, not the connection, and the model  *)
(* numbers connections so that properties can tell the two apart.          *)
(*                                                                         *)
(* The initial state is the one SkltServer's constructor leaves: the pool  *)
(* is full, the workers wait for packets, the accept coroutine is spawned. *)
(***************************************************************************)
EXTENDS Integers, Sequences, FiniteSets, CommonPool

CONSTANTS
  PoolCnt,       \* SESSION_POOL_COUNT
  Workers,       \* the worker threads, WORKER_COUNT of them
  MaxBuffer,     \* m_sizeOfMaxBuffer
  EnderSize,     \* m_spHeader->GetEnderSize()
  Bodies,        \* the values GetBodySize() takes in received headers
  Protocols,     \* the protocol numbers received headers carry
  Handler,       \* registered protocols -> the handler returns a buffer
  ReplySize,     \* the length of such a buffer
  StackLengths,  \* what the dangling data_length of a write may read as
  MaxConns,      \* bound: connections accepted in a behaviour
  MaxHeaders,    \* bound: headers accepted in a behaviour
  MaxFaults      \* bound: failed accepts and failed close() calls

ASSUME PoolAssumption == PoolCnt \in Nat \ {0}

ASSUME SizesAssumption ==
  /\ MaxBuffer \in Nat
  /\ EnderSize \in Nat
  /\ Bodies \subseteq Nat
  /\ ReplySize \in Nat \ {0}
  /\ StackLengths \subseteq Nat

ASSUME BoundsAssumption == MaxConns \in Nat /\ MaxHeaders \in Nat /\ MaxFaults \in Nat

ASSUME HandlerAssumption == \A p \in DOMAIN Handler : Handler[p] \in BOOLEAN

Sessions == 0 .. PoolCnt - 1      \* by the id AsyncSessionPool gives them
Conns == 1 .. MaxConns            \* connections, in the order of accept
NoSession == -1
NoProto == -1
Closed == 0                       \* what sock holds when the socket is not open
Null == 0                         \* a null buffer pointer

VARIABLES
  queue,      \* m_queue of the session pool
  useCnt,     \* m_sizeUseCnt of the session pool
  acc,        \* the session the accept coroutine waits with
  up,         \* FALSE once the process has died
  poolState,  \* m_nSessionPoolState of each session
  sock,       \* the connection open on m_tcpSocket of each session
  rx,         \* the receive members of each session
  reader,     \* the receive coroutine started for each connection
  packets,    \* m_packetQueue
  worker,     \* the local state of each worker's Processing
  writes,     \* async_write operations waiting for their handler
  heap,       \* the chunks New has handed out, by order of allocation
  conns,      \* number of connections accepted
  headers,    \* number of headers accepted
  gone,       \* connections whose client has disconnected
  faults      \* number of failed accepts and failed close() calls

vars == <<queue, useCnt, acc, up, poolState, sock, rx, reader, packets,
          worker, writes, heap, conns, headers, gone, faults>>

Live == {"header", "body"}        \* phases of a coroutine that has not ended

Packet == [sess : Sessions, proto : Protocols, buf : Nat, size : Nat]
NoPacket == [sess |-> NoSession, proto |-> NoProto, buf |-> Null, size |-> 0]
Rx == [buf : Nat, prev : Nat, size : Nat, proto : Protocols \cup {NoProto}]
Reader == [phase : Live \cup {"none", "ended"}, sess : Sessions \cup {NoSession},
           on : Conns \cup {Closed}, buf : Nat, size : Nat]
Worker == [pc : {"wait", "work", "send"}, pkt : Packet \cup {NoPacket}, reply : Nat]
Write == [sess : Sessions, on : Conns \cup {Closed}, buf : Nat]

(* The receive members of a session: m_szBodyBuffer, the length it was     *)
(* allocated with, m_sizeOfBodyBuffer, and m_spHeader's protocol number.   *)
Members(buf, prev, size, proto) ==
  [buf |-> buf, prev |-> prev, size |-> size, proto |-> proto]

Init ==
  /\ queue = [i \in 1 .. PoolCnt |-> i - 1]
  /\ useCnt = 0
  /\ acc = NoSession
  /\ up = TRUE
  /\ poolState = [s \in Sessions |-> "kNoneRegister"]
  /\ sock = [s \in Sessions |-> Closed]
  /\ rx = [s \in Sessions |-> Members(Null, 0, 0, NoProto)]
  /\ reader = [c \in Conns |-> [phase |-> "none", sess |-> NoSession, on |-> Closed,
                                buf |-> Null, size |-> 0]]
  /\ packets = <<>>
  /\ worker = [w \in Workers |-> [pc |-> "wait", pkt |-> NoPacket, reply |-> Null]]
  /\ writes = {}
  /\ heap = <<>>
  /\ conns = 0
  /\ headers = 0
  /\ gone = {}
  /\ faults = 0
-----------------------------------------------------------------------------
(***************************************************************************)
(* The session pool.  Only the io thread calls Acquire and Restore on it,  *)
(* so each is one step here; module Pool takes them apart for the pools    *)
(* that several threads share.                                             *)
(***************************************************************************)

(* Mutation of Acquire: a front() for a pop. *)
AcquireFront ==
  /\ queue # <<>>
  /\ acc' = Head(queue)
  /\ useCnt' = useCnt + 1
  /\ UNCHANGED <<queue, up>>

(* SessionPool::Acquire by the accept coroutine.  When the pool is empty   *)
(* the optional is empty too, StartAccept logs that and goes on to         *)
(* dereference it: the process dies.                                       *)
Acquire ==
  IF queue = <<>>
    THEN /\ acc' = NoSession
         /\ up' = FALSE
         /\ UNCHANGED <<queue, useCnt>>
    ELSE /\ acc' = Head(queue)
         /\ queue' = Tail(queue)
         /\ useCnt' = useCnt + 1
         /\ UNCHANGED up

(* Mutations of Restore: the creating variant, which leaves the count      *)
(* alone, and a size check the wrong way round.                            *)
RestoreAsCreated(s) ==
  IF Len(queue) < PoolCnt
    THEN queue' = Append(queue, s) /\ UNCHANGED useCnt
    ELSE UNCHANGED <<queue, useCnt>>

RestoreInverted(s) ==
  IF Len(queue) > PoolCnt
    THEN queue' = Append(queue, s) /\ useCnt' = useCnt - 1
    ELSE UNCHANGED <<queue, useCnt>>

(* SessionPool::Restore: a full pool refuses the session. *)
Restore(s) ==
  IF Len(queue) < PoolCnt
    THEN /\ queue' = Append(queue, s)
         /\ useCnt' = useCnt - 1
    ELSE UNCHANGED <<queue, useCnt>>

(* Mutation of Restorable: every session that was ever accepted. *)
RestorableAgain(s) == poolState[s] # "kNoneRegister"

Restorable(s) == poolState[s] = "kAcquire"

(* Mutation of ReleaseBody: the buffer is left to the next header. *)
ReleaseNothing(s, h) == h

(* BufferRelease of the body buffer by Close.  It clears its own copy of   *)
(* the pointer: m_szBodyBuffer keeps its value.                            *)
ReleaseBody(s, h) ==
  IF rx[s].buf # Null /\ rx[s].prev # 0 THEN Delete(h, rx[s].buf, rx[s].prev) ELSE h

(* AsyncSessionImpl::Close, called by a handler that has changed the heap  *)
(* to h.  In the first disjunct m_tcpSocket.close() throws: the socket is  *)
(* closed and the catch block leaves the rest undone.                      *)
Close(s, h) ==
  \/ /\ sock[s] # Closed
     /\ faults < MaxFaults
     /\ faults' = faults + 1
     /\ sock' = [sock EXCEPT ![s] = Closed]
     /\ heap' = h
     /\ UNCHANGED <<queue, useCnt, poolState>>
  \/ /\ sock' = [sock EXCEPT ![s] = Closed]
     /\ heap' = ReleaseBody(s, h)
     /\ IF Restorable(s)
          THEN Restore(s) /\ poolState' = [poolState EXCEPT ![s] = "kRestore"]
          ELSE UNCHANGED <<queue, useCnt, poolState>>
     /\ UNCHANGED faults
-----------------------------------------------------------------------------
(***************************************************************************)
(* SkltServer::StartAccept.                                                *)
(***************************************************************************)

(* The coroutine starts and takes its first session. *)
StartAccept ==
  /\ acc = NoSession
  /\ Acquire
  /\ UNCHANGED <<poolState, sock, rx, reader, packets, worker, writes, heap,
                 conns, headers, gone, faults>>

(* A receive on session s, started on whatever its socket is then. *)
Receive(s, phase, buf, size) ==
  [phase |-> phase, sess |-> s, on |-> sock'[s], buf |-> buf, size |-> size]

(* async_accept succeeds: the session is marked, Recv starts its first     *)
(* receive, and the loop takes the next session.                           *)
Accepted ==
  /\ acc # NoSession
  /\ sock[acc] = Closed
  /\ conns < MaxConns
  /\ conns' = conns + 1
  /\ sock' = [sock EXCEPT ![acc] = conns + 1]
  /\ poolState' = [poolState EXCEPT ![acc] = "kAcquire"]
  /\ reader' = [reader EXCEPT ![conns + 1] = Receive(acc, "header", Null, 0)]
  /\ Acquire
  /\ UNCHANGED <<rx, packets, worker, writes, heap, headers, gone, faults>>

(* async_accept fails: the error is logged, the loop takes the next        *)
(* session, and nothing holds this one any more.                           *)
AcceptFailed ==
  /\ acc # NoSession
  /\ faults < MaxFaults
  /\ faults' = faults + 1
  /\ Acquire
  /\ UNCHANGED <<poolState, sock, rx, reader, packets, worker, writes, heap,
                 conns, headers, gone>>
-----------------------------------------------------------------------------
(***************************************************************************)
(* The receive coroutine of connection c, on session reader[c].sess.  A    *)
(* receive that was started on an open socket may complete either way,     *)
(* also after the socket has been closed, since it may have completed      *)
(* before; one that was started on a closed socket fails.                  *)
(***************************************************************************)
MaySucceed(c) == reader[c].on # Closed

Ends(c) == reader' = [reader EXCEPT ![c].phase = "ended"]

(* Mutation of HeaderFailed: the handler returns without closing. *)
HeaderAbandoned(c) ==
  /\ reader[c].phase = "header"
  /\ Ends(c)
  /\ UNCHANGED <<queue, useCnt, acc, up, poolState, sock, rx, packets, worker,
                 writes, heap, conns, headers, gone, faults>>

(* ReadHeader: an error or a short read. *)
HeaderFailed(c) ==
  /\ reader[c].phase = "header"
  /\ Close(reader[c].sess, heap)
  /\ Ends(c)
  /\ UNCHANGED <<acc, up, rx, packets, worker, writes, conns, headers, gone>>

(* ReadHeader: a header that Validate refuses, or whose body would not fit *)
(* the largest buffer.  Deserialize has stored it in m_spHeader by then.   *)
HeaderRefused(c) ==
  /\ reader[c].phase = "header"
  /\ MaySucceed(c)
  /\ LET s == reader[c].sess IN
     /\ \E p \in Protocols, b \in Bodies :
          \/ rx' = [rx EXCEPT ![s].proto = p]
          \/ /\ MaxBuffer < b + EnderSize
             /\ rx' = [rx EXCEPT ![s] = Members(@.buf, @.prev, b + EnderSize, p)]
     /\ Close(s, heap)
  /\ Ends(c)
  /\ UNCHANGED <<acc, up, packets, worker, writes, conns, headers, gone>>

(* ReadHeader: the body buffer is allocated and its receive started. *)
HeaderAccepted(c) ==
  /\ reader[c].phase = "header"
  /\ MaySucceed(c)
  /\ headers < MaxHeaders
  /\ headers' = headers + 1
  /\ \E p \in Protocols, b \in Bodies :
       LET s == reader[c].sess
           n == b + EnderSize
       IN /\ n <= MaxBuffer
          /\ IF n > 0
               THEN /\ heap' = Append(heap, New(n))
                    /\ rx' = [rx EXCEPT ![s] = Members(Len(heap) + 1, n, n, p)]
               ELSE /\ rx' = [rx EXCEPT ![s] = Members(@.buf, @.prev, n, p)]
                    /\ UNCHANGED heap
          /\ UNCHANGED sock
          /\ reader' = [reader EXCEPT ![c] = Receive(s, "body", rx'[s].buf, n)]
  /\ UNCHANGED <<queue, useCnt, acc, up, poolState, packets, worker, writes,
                 conns, gone, faults>>


(* The test of ReadBody: the receive delivered as many bytes, at least one *)
(* and at most those it asked for, as the session's body length is now.  A *)
(* receive of no bytes succeeds at once, on any socket.                    *)
BodyComplete(c) ==
  LET n == rx[reader[c].sess].size IN
  IF reader[c].size = 0 THEN n = 0 ELSE MaySucceed(c) /\ 0 < n /\ n <= reader[c].size

(* ReadBody: the packet goes to the workers with the buffer, the session   *)
(* forgets the buffer, and RecvProcess starts the next header receive.     *)
PacketOf(s) ==
  [sess |-> s, proto |-> rx[s].proto, buf |-> rx[s].buf, size |-> rx[s].size - EnderSize]


ForgetBody(s) == rx' = [rx EXCEPT ![s].buf = Null]

BodyReceived(c) ==
  /\ reader[c].phase = "body"
  /\ BodyComplete(c)
  /\ LET s == reader[c].sess IN
     /\ packets' = Append(packets, PacketOf(s))
     /\ ForgetBody(s)
     /\ UNCHANGED sock
     /\ reader' = [reader EXCEPT ![c] = Receive(s, "header", Null, 0)]
  /\ UNCHANGED <<queue, useCnt, acc, up, poolState, worker, writes, heap, conns,
                 headers, gone, faults>>

(* Mutations of BodyFailed: the handler returns without closing; it closes *)
(* and goes on to the next header.                                         *)
BodyAbandoned(c) ==
  /\ reader[c].phase = "body"
  /\ Ends(c)
  /\ UNCHANGED <<queue, useCnt, acc, up, poolState, sock, rx, packets, worker,
                 writes, heap, conns, headers, gone, faults>>

BodyFailedGoesOn(c) ==
  /\ reader[c].phase = "body"
  /\ Close(reader[c].sess, heap)
  /\ reader' = [reader EXCEPT ![c] = Receive(reader[c].sess, "header", Null, 0)]
  /\ UNCHANGED <<acc, up, rx, packets, worker, writes, conns, headers, gone>>

(* ReadBody: an error, a short read, a bad end marker, another length. *)
BodyFailed(c) ==
  /\ reader[c].phase = "body"
  /\ Close(reader[c].sess, heap)
  /\ Ends(c)
  /\ UNCHANGED <<acc, up, rx, packets, worker, writes, conns, headers, gone>>
-----------------------------------------------------------------------------
(***************************************************************************)
(* PacketWorker::Processing on worker thread w.                            *)
(***************************************************************************)

(* GetPacketInfo: the blocking pop. *)
GetPacketInfo(w) ==
  /\ worker[w].pc = "wait"
  /\ packets # <<>>
  /\ packets' = Tail(packets)
  /\ worker' = [worker EXCEPT ![w].pc = "work", ![w].pkt = Head(packets)]
  /\ UNCHANGED <<queue, useCnt, acc, up, poolState, sock, rx, reader, writes,
                 heap, conns, headers, gone, faults>>

(* HandlerManager::Processing: an unregistered protocol has no result, and *)
(* neither has one whose handler returns none.                             *)
HasResult(p) == p \in DOMAIN Handler /\ Handler[p]

ReleasePacket(pkt) ==
  IF pkt.buf # Null /\ pkt.size > 0 THEN Delete(heap, pkt.buf, pkt.size) ELSE heap

(* The handler runs (a replying one allocates its reply), then the body    *)
(* buffer is released, by the length of the body without its ender.        *)
Handle(w) ==
  /\ worker[w].pc = "work"
  /\ LET pkt == worker[w].pkt IN
     IF HasResult(pkt.proto)
       THEN /\ heap' = Append(ReleasePacket(pkt), New(ReplySize))
            /\ worker' = [worker EXCEPT ![w].pc = "send", ![w].reply = Len(heap) + 1]
       ELSE /\ heap' = ReleasePacket(pkt)
            /\ worker' = [worker EXCEPT ![w].pc = "wait", ![w].pkt = NoPacket]
  /\ UNCHANGED <<queue, useCnt, acc, up, poolState, sock, rx, reader, packets,
                 writes, conns, headers, gone, faults>>

(* Mutation of Send: the thread ends with its first reply. *)
SendAndExit(w) ==
  /\ worker[w].pc = "send"
  /\ LET s == worker[w].pkt.sess IN
     writes' = writes \cup {[sess |-> s, on |-> sock[s], buf |-> worker[w].reply]}
  /\ worker' = [worker EXCEPT ![w].pc = "exit"]
  /\ UNCHANGED <<queue, useCnt, acc, up, poolState, sock, rx, reader, packets,
                 heap, conns, headers, gone, faults>>

(* AsyncSessionImpl::Send: the worker starts an async_write on the socket  *)
(* of the session the packet came from, open or not.                       *)
Send(w) ==
  /\ worker[w].pc = "send"
  /\ LET s == worker[w].pkt.sess IN
     writes' = writes \cup {[sess |-> s, on |-> sock[s], buf |-> worker[w].reply]}
  /\ worker' = [worker EXCEPT ![w] = [pc |-> "wait", pkt |-> NoPacket, reply |-> Null]]
  /\ UNCHANGED <<queue, useCnt, acc, up, poolState, sock, rx, reader, packets,
                 heap, conns, headers, gone, faults>>

(* The completion handler of SendProcess, on the io thread.  It captured   *)
(* data_length by reference, and that parameter is gone: the length it     *)
(* passes to Delete is whatever the worker's stack holds there.            *)
WriteSucceeded(o) ==
  /\ o.on # Closed
  /\ \E n \in StackLengths : heap' = Delete(heap, o.buf, n)
  /\ writes' = writes \ {o}
  /\ UNCHANGED <<queue, useCnt, acc, up, poolState, sock, rx, reader, packets,
                 worker, conns, headers, gone, faults>>

WriteFailed(o) ==
  /\ \E n \in StackLengths : Close(o.sess, Delete(heap, o.buf, n))
  /\ writes' = writes \ {o}
  /\ UNCHANGED <<acc, up, rx, reader, packets, worker, conns, headers, gone>>
-----------------------------------------------------------------------------
(* A client disconnects. *)
Disconnect(c) ==
  /\ reader[c].phase \in Live
  /\ c \notin gone
  /\ gone' = gone \cup {c}
  /\ UNCHANGED <<queue, useCnt, acc, up, poolState, sock, rx, reader, packets,
                 worker, writes, heap, conns, headers, faults>>

Accept == StartAccept \/ Accepted \/ AcceptFailed

Read(c) ==
  \/ HeaderFailed(c)
  \/ HeaderRefused(c)
  \/ HeaderAccepted(c)
  \/ BodyReceived(c)
  \/ BodyFailed(c)

Work(w) == GetPacketInfo(w) \/ Handle(w) \/ Send(w)

Written(o) == WriteSucceeded(o) \/ WriteFailed(o)

Next ==
  /\ up
  /\ \/ Accept
     \/ \E c \in Conns : Read(c) \/ Disconnect(c)
     \/ \E w \in Workers : Work(w)
     \/ \E o \in writes : Written(o)

Spec == Init /\ [][Next]_vars
-----------------------------------------------------------------------------
(***************************************************************************)
(* Fairness.  The io thread dispatches what is ready: the start of the     *)
(* accept coroutine, a receive or a write whose socket has been closed or  *)
(* whose client has gone.  The workers are threads that run.  Nothing      *)
(* obliges a client to connect, to send or to read.                        *)
(***************************************************************************)
Doomed(s, on) == on = Closed \/ on \in gone \/ sock[s] # on

Fairness ==
  /\ WF_vars(up /\ StartAccept)
  /\ \A c \in Conns : WF_vars(up /\ Read(c) /\ Doomed(reader[c].sess, reader[c].on))
  /\ \A w \in Workers : WF_vars(up /\ Work(w))
  /\ WF_vars(up /\ \E o \in writes : Doomed(o.sess, o.on) /\ Written(o))

FairSpec == Spec /\ Fairness
-----------------------------------------------------------------------------
(***************************************************************************)
(* Properties that hold whatever the handlers do.                          *)
(***************************************************************************)

(* Type correctness.  It includes that m_sizeUseCnt, a size_t decremented  *)
(* by Restore, never goes below zero.                                      *)
TypeOK ==
  /\ queue \in Seq(Sessions)
  /\ useCnt \in Nat
  /\ acc \in Sessions \cup {NoSession}
  /\ up \in BOOLEAN
  /\ poolState \in [Sessions -> {"kNoneRegister", "kAcquire", "kRestore"}]
  /\ sock \in [Sessions -> Conns \cup {Closed}]
  /\ rx \in [Sessions -> Rx]
  /\ reader \in [Conns -> Reader]
  /\ packets \in Seq(Packet)
  /\ worker \in [Workers -> Worker]
  /\ writes \subseteq Write
  /\ heap \in Seq(Chunk)
  /\ conns \in 0 .. MaxConns
  /\ headers \in 0 .. MaxHeaders
  /\ gone \subseteq Conns
  /\ faults \in 0 .. MaxFaults

InQueue(s) == \E i \in DOMAIN queue : queue[i] = s

(* A session is never offered to two clients: it is in the pool at most    *)
(* once, and one that is in the pool, or that the accept coroutine waits   *)
(* with, is nobody else's: it is not marked kAcquire and its socket is     *)
(* closed, so async_accept finds a socket it can use.  The marks of Close  *)
(* and StartAccept have to keep this although Close may run again, from a  *)
(* late receive or write, at any moment of a session's next life.          *)
SessionInOnePlace ==
  /\ \A i, j \in DOMAIN queue : queue[i] = queue[j] => i = j
  /\ \A s \in Sessions : InQueue(s) => s # acc
  /\ \A s \in Sessions : InQueue(s) \/ s = acc => ~Restorable(s) /\ sock[s] = Closed

(* Close ignores the result of Restore.  It may: whenever a session could  *)
(* be given back, the pool has room for it.                                *)
RoomToRestore == \A s \in Sessions : Restorable(s) => Len(queue) < PoolCnt

(* GetUseCount tells the number of sessions out of the pool, late and      *)
(* repeated calls of Close notwithstanding.                                *)
UseCountExact == useCnt + Len(queue) = PoolCnt

(* Every open connection has a receive of its own pending, so that its     *)
(* client's disconnection will be noticed: no handler, not even a stale    *)
(* one, ends the receive loop of a connection and leaves its socket open.  *)
OpenConnectionIsRead ==
  \A s \in Sessions : sock[s] # Closed =>
    /\ reader[sock[s]].sess = s
    /\ reader[sock[s]].phase \in Live

(* The accept loop runs out of sessions, and the process dies in it, only  *)
(* when every session is marked as in use or was lost to a failed accept:  *)
(* closed connections do give their session back.                          *)
DiesOnlyExhausted ==
  ~up => Cardinality({s \in Sessions : Restorable(s)}) + faults >= PoolCnt

(* Where pointers to chunks are kept. *)
Pointers ==
  [kind : {"session"}, at : Sessions] \cup [kind : {"queued"}, at : DOMAIN packets]
    \cup [kind : {"worker", "reply"}, at : Workers] \cup [kind : {"write"}, at : writes]

PointerAt(x) ==
  CASE x.kind = "session" -> rx[x.at].buf
    [] x.kind = "queued" -> packets[x.at].buf
    [] x.kind = "worker" -> worker[x.at].pkt.buf
    [] x.kind = "reply" -> worker[x.at].reply
    [] x.kind = "write" -> x.at.buf


(* The length a packet carries is that of its own buffer less the ender,   *)
(* so a handler that reads no further than its length stays inside it,     *)
(* although the session's length and buffer are shared by the coroutines   *)
(* of two connections when the session was recycled early.                 *)
FitsBuffer(pkt) == pkt.buf # Null => heap[pkt.buf].asked = pkt.size + EnderSize


(* The stage of a session in the sense of SessionLife. *)
Stage(s) ==
  IF InQueue(s) THEN "free"
  ELSE IF s = acc THEN "offered"
  ELSE IF Restorable(s) THEN "serving"
  ELSE "lost"

Life == INSTANCE SessionLife WITH life <- [s \in Sessions |-> Stage(s)], dead <- ~up

(* Pool, accept loop and session marks implement the life cycle of module  *)
(* SessionLife: what Close does late, twice or for the wrong client moves  *)
(* no session except from serving to free.                                 *)
LifeCycle == Life!Spec
-----------------------------------------------------------------------------
(***************************************************************************)
(* Properties of a server none of whose handlers replies, so that no write *)
(* completes late and Close is called by the receive coroutine only.       *)
(***************************************************************************)
Freed(b) == heap[b].freed # <<>>

(* A connection is closed by its own receive coroutine only, in the step   *)
(* that ends that coroutine: no handler left over from the session's       *)
(* previous client closes the connection of the next one.                  *)
ClosedByOwnReader ==
  [][\A s \in Sessions : sock[s] # Closed /\ sock'[s] # sock[s]
       => reader[sock[s]].phase \in Live /\ reader'[sock[s]].phase = "ended"]_vars


(* A body buffer that has not been released is still reachable, unless its *)
(* packet had an empty body: Processing releases only lengths above zero.  *)
NoBufferLost ==
  \A b \in DOMAIN heap :
    \/ Freed(b)
    \/ \E x \in Pointers : PointerAt(x) = b
    \/ heap[b].asked = EnderSize
-----------------------------------------------------------------------------
(***************************************************************************)
(* Liveness.                                                               *)
(***************************************************************************)

(* When its client disconnects, a session comes back to the pool, unless   *)
(* the process dies first.  (close() does not throw: MaxFaults is 0.)      *)
SessionReturns ==
  \A s \in Sessions :
    (sock[s] # Closed /\ sock[s] \in gone) ~> (InQueue(s) \/ ~up)

(* The workers drain the packet queue and come back to wait for more. *)
PacketsDrain ==
  []<>(~up \/ (packets = <<>> /\ \A w \in Workers : worker[w].pc = "wait"))
-----------------------------------------------------------------------------
(***************************************************************************)
(* What the repository says of COMMON_POOL and the server does not keep.   *)
(***************************************************************************)

(* A buffer goes back to the allocator once, as CommonPoolTest of          *)
(* test/test_module.cpp does it: one _delete for one _new.                 *)
ReleasedOnce == \A b \in DOMAIN heap : Len(heap[b].freed) <= 1

(* A buffer goes back to the pool it came from: the test passes _delete    *)
(* the length it passed _new.                                              *)
ReleasedToItsPool ==
  \A b \in DOMAIN heap : \A i \in DOMAIN heap[b].freed :
    heap[b].freed[i] = PoolOf(heap[b].asked)
=============================================================================
