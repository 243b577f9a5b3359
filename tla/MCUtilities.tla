---------------------------- MODULE MCUtilities ----------------------------
(***************************************************************************)
(* The instance of the small parts that share no state: the calculation,   *)
(* the task threads, the start of the server and the chunks of the buffer  *)
(* pool.  A behaviour picks one of them and is a behaviour of it; the      *)
(* variables of the others stay at an initial value.                       *)
(***************************************************************************)
EXTENDS Calculation

CONSTANTS MaxRuns, MaxTasks, WorkerCnt, MaxPackets, MaxChunks

VARIABLES
  which,                                                           \* the part
  kind, owner, thread, taskQueue, taskInserted, processed, lost,   \* TaskThread
  main, closure, registered, handler, manager, failed, made,       \* ServerStart
  m_pThread, workers, task, packet, queue, headers, packets,
  free, live, overlong                                             \* CommonPoolChunks

SomeValues == {-1, 2}
Garbage == {7}
SomeRegistrations ==
  <<[no |-> 101, func |-> "TestProtocol"], [no |-> 501, func |-> "KeepAlive"],
    [no |-> 101, func |-> "KeepAlive"]>>

Task == INSTANCE TaskThread WITH queue <- taskQueue, inserted <- taskInserted
Start == INSTANCE ServerStart WITH
           Registrations <- SomeRegistrations, Protocols <- {101, 501, 999}
Chunk == INSTANCE CommonPoolChunks WITH SizeDefault <- 2, Requests <- {2, 8, 256, 257, 513}

taskVars == <<kind, owner, thread, taskQueue, taskInserted, processed, lost>>
startVars == <<main, closure, registered, handler, manager, failed, made, m_pThread, workers,
               task, packet, queue, headers, packets>>
chunkVars == <<free, live, overlong>>
MCvars == <<which, vars, taskVars, startVars, chunkVars>>

(* The part that was not picked has one initial state. *)
MCInit ==
  /\ which \in {"calculation", "task", "start", "chunk"}
  /\ Init /\ Task!Init /\ Start!Init /\ Chunk!Init
  /\ which # "task" => kind = "AutoTask"

Calculates ==
  which = "calculation" /\ Next /\ UNCHANGED <<which, taskVars, startVars, chunkVars>>
Tasks(A) == which = "task" /\ A /\ UNCHANGED <<which, vars, startVars, chunkVars>>
Starts == which = "start" /\ Start!Next /\ UNCHANGED <<which, vars, taskVars, chunkVars>>
Chunks == which = "chunk" /\ Chunk!Next /\ UNCHANGED <<which, vars, taskVars, startVars>>

MCNext == Calculates \/ Tasks(Task!Next) \/ Starts \/ Chunks

(* The fairness of TaskThread. *)
MCSpec ==
  /\ MCInit /\ [][MCNext]_MCvars
  /\ WF_MCvars(Tasks(Task!Joined))
  /\ \A t \in 1..MaxRuns : WF_MCvars(Tasks(t \in DOMAIN thread /\ Task!Step(t)))
-----------------------------------------------------------------------------



(* A PacketWorker that has a packet finds its m_pThread assigned, and,     *)
(* unless the creation of a thread failed, every handler registered and    *)
(* the HandlerManager alive.                                               *)
ReadyForPackets == Start!TypeOK /\ Start!ThreadKnownWhenProcessing /\ Start!HandlersReady

=============================================================================
