------------------------------ MODULE PoolSpec ------------------------------
(***************************************************************************)
(* What class Pool promises its callers: each call takes effect at one     *)
(* moment between its start and its end.  Acquire takes the oldest object  *)
(* or finds the pool empty; WaitAcquire takes the oldest object or joins   *)
(* the threads that wait; Restore adds an object, hands it to the thread   *)
(* that has waited longest, or is refused.  A refusal needs a full pool or *)
(* a waiting thread.  The limit is soft: concurrent calls of Restore may   *)
(* pass it, by less than one object per thread.                            *)
(***************************************************************************)
EXTENDS Naturals, Sequences

CONSTANTS
  Threads,   \* the callers
  Objects,   \* what the pool keeps
  Limit,     \* the number of objects from which Restore refuses
  Slack      \* how far concurrent calls may pass it

VARIABLES
  avail,     \* the objects in the pool, oldest first
  waiting,   \* the threads that wait for an object, longest first
  answer     \* what the last call of each thread has come to

Answers == Objects \cup {"none", "empty", "stored", "refused", "null"}

Init ==
  /\ avail = <<>>
  /\ waiting = <<>>
  /\ answer = [t \in Threads |-> "none"]

Answer(t, r) == answer' = [answer EXCEPT ![t] = r]

Take(t) ==
  /\ avail # <<>>
  /\ Answer(t, Head(avail))
  /\ avail' = Tail(avail)
  /\ UNCHANGED waiting

Empty(t) == avail = <<>> /\ Answer(t, "empty") /\ UNCHANGED <<avail, waiting>>

Wait(t) ==
  /\ avail = <<>>
  /\ waiting' = Append(waiting, t)
  /\ UNCHANGED <<avail, answer>>

Store(t, o) ==
  /\ waiting = <<>>
  /\ Len(avail) < Limit + Slack
  /\ avail' = Append(avail, o)
  /\ Answer(t, "stored")
  /\ UNCHANGED waiting

HandOver(t, o) ==
  /\ waiting # <<>>
  /\ waiting' = Tail(waiting)
  /\ answer' = [answer EXCEPT ![t] = "stored", ![Head(waiting)] = o]
  /\ UNCHANGED avail

Refuse(t) ==
  /\ Len(avail) >= Limit \/ waiting # <<>>
  /\ Answer(t, "refused")
  /\ UNCHANGED <<avail, waiting>>

(* Restore of a null object. *)
Reject(t) == Answer(t, "null") /\ UNCHANGED <<avail, waiting>>

(* The pool is destroyed, with what is in it. *)
Drain == waiting = <<>> /\ avail' = <<>> /\ UNCHANGED <<waiting, answer>>

Next ==
  \/ \E t \in Threads :
       \/ Take(t) \/ Empty(t) \/ Wait(t) \/ Refuse(t) \/ Reject(t)
       \/ \E o \in Objects : Store(t, o) \/ HandOver(t, o)
  \/ Drain

Spec == Init /\ [][Next]_<<avail, waiting, answer>>
=============================================================================
