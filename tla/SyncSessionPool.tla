-------------------------- MODULE SyncSessionPool ---------------------------
(***************************************************************************)
(* SyncSessionPool (src/lib/sync_session_pool.cpp): threads that exchange  *)
(* packets over a pool of client sessions, and make up for lost sessions   *)
(* themselves, in the MaintenanceManager each Acquire begins with.  Every  *)
(* access to the pool, to the connection count and to the timer is a step. *)
(*                                                                         *)
(* A call of the pool of sessions is one step (class Pool implements       *)
(* PoolSpec; nothing here waits in WaitAcquire).  A session is known by    *)
(* what SyncExchange says of it: the replies due on it and whether its     *)
(* stream is torn (SyncSession implements SyncExchange).                   *)
(***************************************************************************)
EXTENDS Naturals, Sequences, FiniteSets

CONSTANTS
  Threads,      \* the threads that call PacketProcess
  PoolCnt,      \* m_sizePoolCnt, the number of sessions wanted
  MaxCnt,       \* the limit of the pool, 5000 in session_pool.h
  Modulus,      \* 2^w, for the w bits of size_t
  MaxCalls,     \* bound: calls of each thread
  MaxFaults     \* bound: failures of Send and first misses of Recv

ASSUME CountsAssumption ==
  /\ IsFiniteSet(Threads)
  /\ PoolCnt \in Nat \ {0} /\ MaxCnt \in Nat /\ PoolCnt <= MaxCnt
  /\ Modulus \in Nat /\ Modulus > MaxCnt + Cardinality(Threads)
  /\ MaxCalls \in Nat /\ MaxFaults \in Nat

VARIABLES
  pool,      \* the sessions in m_spSessionContainer
  conn,      \* m_sizeConnectionCnt
  due,       \* the maintenance interval has passed since the last Reset
  pc,        \* where each thread is
  sess,      \* the session each thread has a pointer to
  remain,    \* how many sessions CreateObject(count) has still to make
  stream,    \* the replies due on each session; whether it is torn
  got,       \* the thread whose reply the last call received
  missed,    \* history: threads whose call returned true without a reply
  calls,     \* calls made by each thread
  faults,    \* failures of Send and close()
  lost       \* history: sessions that are gone but still counted

vars == <<pool, conn, due, pc, sess, remain, stream, got, missed, calls, faults, lost>>

None == 0
NoReply == "none"
Sessions == 1..(MaxCnt + Cardinality(Threads))
Unused == [owed |-> <<>>, torn |-> FALSE]

Elems(q) == {q[i] : i \in DOMAIN q}
InHand == {sess[t] : t \in Threads} \ {None}
Fresh == CHOOSE s \in Sessions : s \notin Elems(pool) \cup InHand

(* The constructor: initialize has made the sessions it could. *)
Init ==
  /\ \E k \in 0..PoolCnt : pool = [i \in 1..k |-> i] /\ conn = k
  /\ due = FALSE
  /\ pc = [t \in Threads |-> "idle"]
  /\ sess = [t \in Threads |-> None]
  /\ remain = [t \in Threads |-> 0]
  /\ stream = [s \in Sessions |-> Unused]
  /\ got = [t \in Threads |-> NoReply]
  /\ missed = {}
  /\ calls = [t \in Threads |-> 0]
  /\ faults = 0
  /\ lost = 0

Goto(t, p) == pc' = [pc EXCEPT ![t] = p]
Hold(t, s) == sess' = [sess EXCEPT ![t] = s]

(* The last pointer to a session goes: its destructor closes it. *)
Drop(t) ==
  /\ Hold(t, None)
  /\ stream' = IF sess[t] = None THEN stream ELSE [stream EXCEPT ![sess[t]] = Unused]
-----------------------------------------------------------------------------
PacketProcess(t) ==
  /\ pc[t] = "idle" /\ calls[t] < MaxCalls
  /\ calls' = [calls EXCEPT ![t] = @ + 1]
  /\ got' = [got EXCEPT ![t] = NoReply]
  /\ Goto(t, "timer")
  /\ UNCHANGED <<pool, conn, due, sess, remain, stream, missed, faults, lost>>

(* MaintenanceManager: is it time? *)
CheckTimer(t) ==
  /\ pc[t] = "timer"
  /\ Goto(t, IF due THEN "load" ELSE "acquire")
  /\ UNCHANGED <<pool, conn, due, sess, remain, stream, got, missed, calls, faults, lost>>

(* Mutation of LoadCount: the sessions in the pool are compared. *)
LoadCountOfPool(t) ==
  /\ pc[t] = "load"
  /\ Goto(t, IF Len(pool) < PoolCnt THEN "remain" ELSE "reset")
  /\ UNCHANGED <<pool, conn, due, sess, remain, stream, got, missed, calls, faults, lost>>

(* MaintenanceManager: the first load of the count. *)
LoadCount(t) ==
  /\ pc[t] = "load"
  /\ Goto(t, IF conn < PoolCnt THEN "remain" ELSE "reset")
  /\ UNCHANGED <<pool, conn, due, sess, remain, stream, got, missed, calls, faults, lost>>

(* Mutation of LoadRemain: the difference is signed. *)
LoadRemainSigned(t) ==
  /\ pc[t] = "remain"
  /\ remain' = [remain EXCEPT ![t] = PoolCnt - conn]
  /\ Goto(t, "create")
  /\ UNCHANGED <<pool, conn, due, sess, stream, got, missed, calls, faults, lost>>

(* MaintenanceManager: the second load, in an unsigned subtraction. *)
LoadRemain(t) ==
  /\ pc[t] = "remain"
  /\ remain' = [remain EXCEPT ![t] = (PoolCnt + Modulus - conn) % Modulus]
  /\ Goto(t, "create")
  /\ UNCHANGED <<pool, conn, due, sess, stream, got, missed, calls, faults, lost>>

(* CreateObject: the loop has come to its end. *)
CreateDone(t) ==
  /\ pc[t] = "create" /\ remain[t] = 0
  /\ Goto(t, "reset")
  /\ UNCHANGED <<pool, conn, due, sess, remain, stream, got, missed, calls, faults, lost>>

(* CreateObject: a new session connects. *)
CreateObject(t) ==
  /\ pc[t] = "create" /\ remain[t] > 0
  /\ Hold(t, Fresh)
  /\ Goto(t, "push")
  /\ UNCHANGED <<pool, conn, due, remain, stream, got, missed, calls, faults, lost>>

(* CreateObject: Connect returns false, which ends the loop. *)
CreateFailed(t) ==
  /\ pc[t] = "create" /\ remain[t] > 0
  /\ remain' = [remain EXCEPT ![t] = 0]
  /\ Goto(t, "reset")
  /\ UNCHANGED <<pool, conn, due, sess, stream, got, missed, calls, faults, lost>>

(* CreateObject: resolve() throws; no handler up to the caller of          *)
(* PacketProcess catches it, so the timer is not reset.                    *)
CreateThrows(t) ==
  /\ pc[t] = "create" /\ remain[t] > 0
  /\ remain' = [remain EXCEPT ![t] = 0]
  /\ Goto(t, "idle")
  /\ UNCHANGED <<pool, conn, due, sess, stream, got, missed, calls, faults, lost>>

(* Connetion: the session goes to the pool, or is dropped by a full one. *)
Connetion(t) ==
  /\ pc[t] = "push"
  /\ IF Len(pool) < MaxCnt
       THEN /\ pool' = Append(pool, sess[t])
            /\ Hold(t, None)
            /\ Goto(t, "count")
            /\ UNCHANGED <<stream, remain>>
       ELSE /\ Drop(t)
            /\ Goto(t, "reset")
            /\ remain' = [remain EXCEPT ![t] = 0]
            /\ UNCHANGED pool
  /\ UNCHANGED <<conn, due, got, missed, calls, faults, lost>>

(* Connetion: only now the session is counted. *)
ConnectionCountAdd(t) ==
  /\ pc[t] = "count"
  /\ conn' = (conn + 1) % Modulus
  /\ remain' = [remain EXCEPT ![t] = @ - 1]
  /\ Goto(t, "create")
  /\ UNCHANGED <<pool, due, sess, stream, got, missed, calls, faults, lost>>

(* MaintenanceManager: m_pTimer->Reset(). *)
ResetTimer(t) ==
  /\ pc[t] = "reset"
  /\ due' = FALSE
  /\ Goto(t, "acquire")
  /\ UNCHANGED <<pool, conn, sess, remain, stream, got, missed, calls, faults, lost>>

(* Mutation of Acquire: the session stays in the pool. *)
AcquireShared(t) ==
  /\ pc[t] = "acquire"
  /\ Hold(t, IF pool = <<>> THEN None ELSE Head(pool))
  /\ Goto(t, "guard")
  /\ UNCHANGED <<pool, conn, due, remain, stream, got, missed, calls, faults, lost>>

(* Acquire: the pool gives a session or nothing. *)
Acquire(t) ==
  /\ pc[t] = "acquire"
  /\ IF pool = <<>>
       THEN UNCHANGED <<pool, sess>>
       ELSE Hold(t, Head(pool)) /\ pool' = Tail(pool)
  /\ Goto(t, "guard")
  /\ UNCHANGED <<conn, due, remain, stream, got, missed, calls, faults, lost>>
-----------------------------------------------------------------------------
(* PacketProcess: no connection is counted, the call returns false.  A     *)
(* session it has acquired, not yet counted by its maker, is dropped.      *)
NoConnection(t) ==
  /\ pc[t] = "guard" /\ conn = 0
  /\ Drop(t)
  /\ Goto(t, "idle")
  /\ lost' = lost + (IF sess[t] = None THEN 0 ELSE 1)
  /\ UNCHANGED <<pool, conn, due, remain, got, missed, calls, faults>>

(* PacketProcess: connections but no session: try again. *)
NoSession(t) ==
  /\ pc[t] = "guard" /\ conn # 0 /\ sess[t] = None
  /\ Goto(t, "timer")
  /\ UNCHANGED <<pool, conn, due, sess, remain, stream, got, missed, calls, faults, lost>>

(* Mutation of Send: the request is written a second time. *)
SendTwice(t) ==
  /\ pc[t] = "guard" /\ conn # 0 /\ sess[t] # None
  /\ stream' = IF stream[sess[t]].torn
                 THEN stream
                 ELSE [stream EXCEPT ![sess[t]].owed = @ \o <<t, t>>]
  /\ Goto(t, "recv")
  /\ UNCHANGED <<pool, conn, due, sess, remain, got, missed, calls, faults, lost>>

(* PacketProcess: Send succeeds. *)
Send(t) ==
  /\ pc[t] = "guard" /\ conn # 0 /\ sess[t] # None
  /\ stream' = IF stream[sess[t]].torn
                 THEN stream
                 ELSE [stream EXCEPT ![sess[t]].owed = Append(@, t)]
  /\ Goto(t, "recv")
  /\ UNCHANGED <<pool, conn, due, sess, remain, got, missed, calls, faults, lost>>

(* PacketProcess: Send fails. *)
SendFailed(t) ==
  /\ pc[t] = "guard" /\ conn # 0 /\ sess[t] # None
  /\ faults + Cardinality(missed) < MaxFaults /\ faults' = faults + 1
  /\ Goto(t, "close")
  /\ UNCHANGED <<pool, conn, due, sess, remain, stream, got, missed, calls, lost>>

(* PacketProcess: Recv returns, always with true, the outcomes of          *)
(* SyncExchange: the oldest reply, no reply, a part of one, or anything    *)
(* from a stream that is torn.                                             *)
Recv(t) ==
  /\ pc[t] = "recv"
  /\ LET x == stream[sess[t]]
         Outcome(y, g) == /\ stream' = [stream EXCEPT ![sess[t]] = y]
                          /\ got' = [got EXCEPT ![t] = g]
                          /\ missed' = IF g = NoReply THEN missed \cup {t} ELSE missed
     IN  \/ ~x.torn /\ Outcome([x EXCEPT !.owed = Tail(@)], Head(x.owed))
         \/ /\ ~x.torn /\ faults + Cardinality(missed) < MaxFaults
            /\ Outcome(x, NoReply) \/ Outcome([owed |-> <<>>, torn |-> TRUE], NoReply)
         \/ x.torn /\ \E g \in Threads \cup {NoReply} : Outcome(x, g)
  /\ Goto(t, "restore")
  /\ UNCHANGED <<pool, conn, due, sess, remain, calls, faults, lost>>

(* PacketProcess: the session of a failed Send is closed.  The session     *)
(* object goes with the next pointer that is overwritten.                  *)
Close(t) ==
  /\ pc[t] = "close"
  /\ Goto(t, "sub")
  /\ UNCHANGED <<pool, conn, due, sess, remain, stream, got, missed, calls, faults, lost>>

(* Close throws: the exception leaves PacketProcess, the count stays. *)
CloseThrows(t) ==
  /\ pc[t] = "close"
  /\ Drop(t)
  /\ Goto(t, "idle")
  /\ lost' = lost + 1
  /\ UNCHANGED <<pool, conn, due, remain, got, missed, calls, faults>>

(* Mutation of ConnectionCountSub: the count is reset. *)
ConnectionCountZero(t) ==
  /\ pc[t] = "sub"
  /\ conn' = 0
  /\ Drop(t)
  /\ Goto(t, "timer")
  /\ UNCHANGED <<pool, due, remain, got, missed, calls, faults, lost>>

(* PacketProcess: ConnectionCountSub, then the next round. *)
ConnectionCountSub(t) ==
  /\ pc[t] = "sub"
  /\ conn' = (conn + Modulus - 1) % Modulus
  /\ Drop(t)
  /\ Goto(t, "timer")
  /\ UNCHANGED <<pool, due, remain, got, missed, calls, faults, lost>>


(* PacketProcess: Restore, whose result is ignored, and the return of true *)
Restore(t) ==
  /\ pc[t] = "restore"
  /\ IF Len(pool) < MaxCnt
       THEN pool' = Append(pool, sess[t]) /\ Hold(t, None) /\ UNCHANGED <<stream, lost>>
       ELSE Drop(t) /\ lost' = lost + 1 /\ UNCHANGED pool
  /\ Goto(t, "idle")
  /\ UNCHANGED <<conn, due, remain, got, missed, calls, faults>>

(* The interval passes. *)
Elapse ==
  /\ ~due /\ due' = TRUE
  /\ UNCHANGED <<pool, conn, pc, sess, remain, stream, got, missed, calls, faults, lost>>

Step(t) ==
  \/ CheckTimer(t) \/ LoadCount(t) \/ LoadRemain(t)
  \/ CreateDone(t) \/ CreateObject(t) \/ CreateFailed(t) \/ CreateThrows(t)
  \/ Connetion(t) \/ ConnectionCountAdd(t) \/ ResetTimer(t) \/ Acquire(t)
  \/ NoConnection(t) \/ NoSession(t) \/ Send(t) \/ SendFailed(t) \/ Recv(t)
  \/ Close(t) \/ CloseThrows(t) \/ ConnectionCountSub(t) \/ Restore(t)

Next == Elapse \/ \E t \in Threads : PacketProcess(t) \/ Step(t)

Spec == Init /\ [][Next]_vars

(* Threads run, and both time-outs of the sessions are set, so a call of   *)
(* Send or Recv ends; nothing obliges a thread to make a call.             *)
FairSpec == Spec /\ \A t \in Threads : WF_vars(Step(t))
-----------------------------------------------------------------------------
(* The variables have their types; the count and the number of sessions to  *)
(* make stay unsigned numbers of their width.                              *)
TypeOK ==
  /\ pool \in Seq(Sessions)
  /\ conn \in 0..(Modulus - 1) /\ due \in BOOLEAN
  /\ pc \in [Threads -> {"idle", "timer", "load", "remain", "create", "push", "count", "reset",
                         "acquire", "guard", "recv", "close", "sub", "restore"}]
  /\ sess \in [Threads -> Sessions \cup {None}]
  /\ remain \in [Threads -> 0..(Modulus - 1)]
  /\ stream \in [Sessions -> [owed : Seq(Threads), torn : BOOLEAN]]
  /\ got \in [Threads -> Threads \cup {NoReply}]
  /\ missed \subseteq Threads
  /\ calls \in [Threads -> 0..MaxCalls] /\ faults \in 0..MaxFaults /\ lost \in Nat

(* A session is in one place: no two threads exchange packets over one     *)
(* connection and none is in the pool while a thread uses it.              *)
SessionExclusive ==
  /\ \A i, j \in DOMAIN pool : pool[i] = pool[j] => i = j
  /\ \A t \in Threads : sess[t] # None => sess[t] \notin Elems(pool)
  /\ \A t, u \in Threads : t # u /\ sess[t] # None => sess[t] # sess[u]

(* The sessions that are or will be counted: in the pool or in use. *)
InUse == {t \in Threads : sess[t] # None /\ pc[t] # "push"}
Uncounted == {t \in Threads : pc[t] = "count"}

(* The count is exact but for two things: sessions pushed and not counted  *)
(* yet, and sessions that went without being discounted, when a call       *)
(* returned false with a session in hand, when Close threw, or when a full *)
(* pool refused one.  It wraps below zero only for a moment, also when the *)
(* unsigned difference of the two loads makes maintenance fill the pool.   *)
CountBalance ==
  conn = (Len(pool) + Cardinality(InUse) + lost + Modulus - Cardinality(Uncounted)) % Modulus

(* A caller receives the reply to another caller's request only after some *)
(* call has returned true without its own.                                 *)
ForeignReply == \A t \in Threads : got[t] \in Threads \ {t} => missed # {}

(* As many sessions are lost as are wanted, and none is left or being made. *)
Exhausted ==
  /\ lost >= PoolCnt /\ lost < Modulus /\ pool = <<>>
  /\ \A t \in Threads : sess[t] = None /\ pc[t] \notin {"remain", "create", "count"}

(* Once that is so no session is ever made again: the count, which         *)
(* MaintenanceManager compares with the number wanted, says all are there. *)
ExhaustedForGood == [][Exhausted => Exhausted']_vars

(* A call returns, with or without a reply, or throws, unless the count    *)
(* includes sessions that are lost: then callers may wait for them         *)
(* forever.  Threads are interchangeable, so it is stated of one of them.  *)
CallReturns ==
  LET t == CHOOSE u \in Threads : TRUE
  IN  pc[t] # "idle" ~> pc[t] = "idle" \/ lost > 0
=============================================================================
