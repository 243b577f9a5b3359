---------------------------- MODULE ServerStart ----------------------------
(***************************************************************************)
(* The start of dummyServer (src/dummyServer/dummyServer.cpp): the main    *)
(* thread loads the configuration, sets the header closure, registers the  *)
(* handlers, starts the packet workers, makes the sessions and only then   *)
(* accepts, while the workers it has started already run.                  *)
(*                                                                         *)
(* Every PacketWorker holds the one HandlerManager in a shared_ptr of its  *)
(* own, so the end of any worker deletes it; and it reads m_pThread, which *)
(* Run assigns after the thread has been created.                          *)
(***************************************************************************)
EXTENDS Naturals, Sequences

CONSTANTS
  WorkerCnt,      \* CONFIGURE.WORKER_COUNT
  Registrations,  \* the calls of ProtocolRegister: [no, func]
  Protocols,      \* the protocol numbers of arriving packets
  MaxPackets      \* bound: packets that arrive

NoFunc == "none"

VARIABLES
  main,        \* the next step of the main thread; "run" in io_service::run, "ended"
  closure,     \* m_pClosure of the HeaderFactory is set
  registered,  \* calls of ProtocolRegister made
  handler,     \* m_cacheContainer: protocol number -> function
  manager,     \* the HandlerManager: "none", "alive", "deleted"
  failed,      \* a worker thread could not be created
  made,        \* PacketWorkers constructed
  m_pThread,   \* the workers whose m_pThread is assigned
  workers,     \* m_workers, by number
  task,        \* task[w]: "none", "start", "loop", "processing"
  packet,      \* packet[w]: the protocol number it works on
  queue,       \* m_packetQueue
  headers,     \* the sessions have a header
  packets      \* packets that arrived

vars == <<main, closure, registered, handler, manager, failed, made, m_pThread, workers,
          task, packet, queue, headers, packets>>
setup == <<closure, registered, handler, headers>>
traffic == <<packet, queue, packets>>

Init ==
  /\ main = "load" /\ closure = FALSE /\ headers = FALSE
  /\ registered = 0 /\ handler = [p \in Protocols |-> NoFunc]
  /\ manager = "none" /\ failed = FALSE
  /\ made = 0 /\ m_pThread = {} /\ workers = {}
  /\ task = [w \in 1..WorkerCnt |-> "none"]
  /\ packet \in [1..WorkerCnt -> {CHOOSE p \in Protocols : TRUE}]
  /\ queue = <<>> /\ packets = 0

(* LoadCofigureFile: without the file, or with one that does not parse,    *)
(* the program ends.                                                       *)
LoadCofigureFile ==
  /\ main = "load" /\ main' \in {"closure", "ended"}
  /\ UNCHANGED <<setup, manager, failed, made, m_pThread, workers, task, traffic>>

SetClosure ==
  /\ main = "closure" /\ main' = "register"
  /\ closure' = TRUE /\ manager' = "alive"
  /\ UNCHANGED <<registered, handler, headers, failed, made, m_pThread, workers, task, traffic>>

(* MapContainer::Insert: only when Find finds nothing. *)
Insert(key, value) == handler' = [handler EXCEPT ![key] = IF @ = NoFunc THEN value ELSE @]

(* HandlerSet: one ProtocolRegister after the other. *)
ProtocolRegister ==
  /\ main = "register" /\ registered < Len(Registrations)
  /\ LET r == Registrations[registered + 1] IN Insert(r.no, r.func)
  /\ registered' = registered + 1
  /\ UNCHANGED <<main, closure, headers, manager, failed, made, m_pThread, workers, task, traffic>>

(* The acceptor of SkltServer; when the port is taken the exception ends   *)
(* the program.                                                            *)
Listen ==
  /\ main = "register" /\ registered = Len(Registrations)
  /\ main' \in {"make", "ended"}
  /\ UNCHANGED <<setup, manager, failed, made, m_pThread, workers, task, traffic>>
-----------------------------------------------------------------------------
(* PacketWorkerManager::Initialize, one turn of its loop in four steps. *)
MakeWorker ==
  /\ main = "make" /\ made < WorkerCnt
  /\ made' = made + 1 /\ main' = "thread"
  /\ UNCHANGED <<setup, manager, failed, m_pThread, workers, task, traffic>>

CreateThread ==
  /\ main = "thread" /\ main' = "assign"
  /\ task' = [task EXCEPT ![made] = "start"]
  /\ UNCHANGED <<setup, manager, failed, made, m_pThread, workers, traffic>>

(* The exception leaves the loop and ends the worker just made, and with   *)
(* it the HandlerManager; Initialize returns false, which nobody reads.    *)
CreateThreadFailed ==
  /\ main = "thread" /\ main' = "sessions"
  /\ failed' = TRUE /\ manager' = "deleted"
  /\ UNCHANGED <<setup, made, m_pThread, workers, task, traffic>>

(* Mutation of AssignThread: the thread goes to the next worker. *)
AssignThreadNext ==
  /\ main = "assign" /\ main' = "push"
  /\ m_pThread' = m_pThread \cup {made + 1}
  /\ UNCHANGED <<setup, manager, failed, made, workers, task, traffic>>

AssignThread ==
  /\ main = "assign" /\ main' = "push"
  /\ m_pThread' = m_pThread \cup {made}
  /\ UNCHANGED <<setup, manager, failed, made, workers, task, traffic>>

(* Mutation of PushBack: the worker is not kept and ends with the turn. *)
PushBackForgotten ==
  /\ main = "push" /\ main' = "make"
  /\ manager' = "deleted"
  /\ UNCHANGED <<setup, failed, made, m_pThread, workers, task, traffic>>

PushBack ==
  /\ main = "push" /\ main' = "make"
  /\ workers' = workers \cup {made}
  /\ UNCHANGED <<setup, manager, failed, made, m_pThread, task, traffic>>

(* AsyncSessionPool: every session gets a header of the factory's closure; *)
(* then StartAccept and Run.                                               *)
MakeSessions ==
  /\ main = "sessions" \/ (main = "make" /\ made = WorkerCnt)
  /\ main' = "run" /\ headers' = closure
  /\ UNCHANGED <<closure, registered, handler, manager, failed, made, m_pThread, workers, task,
                 traffic>>

(* Mutation of PacketArrives: the sessions receive while workers are made. *)
PacketArrivesEarly(p) ==
  /\ main # "ended" /\ packets < MaxPackets
  /\ queue' = Append(queue, p) /\ packets' = packets + 1
  /\ UNCHANGED <<main, setup, manager, failed, made, m_pThread, workers, task, packet>>

(* A session hands a packet over (modelled in SkeletonServer). *)
PacketArrives(p) ==
  /\ main = "run" /\ headers /\ packets < MaxPackets
  /\ queue' = Append(queue, p) /\ packets' = packets + 1
  /\ UNCHANGED <<main, setup, manager, failed, made, m_pThread, workers, task, packet>>
-----------------------------------------------------------------------------
(* The worker's thread: Task logs the thread's id through m_pThread, which *)
(* may not be assigned yet; the read of it may end the program.            *)
TaskBegins(w) ==
  /\ main # "ended" /\ task[w] = "start"
  /\ task' = [task EXCEPT ![w] = "loop"]
  /\ main' \in IF w \in m_pThread THEN {main} ELSE {main, "ended"}
  /\ UNCHANGED <<setup, manager, failed, made, m_pThread, workers, traffic>>

GetPacketInfo(w) ==
  /\ main # "ended" /\ task[w] = "loop" /\ queue # <<>>
  /\ task' = [task EXCEPT ![w] = "processing"]
  /\ packet' = [packet EXCEPT ![w] = Head(queue)] /\ queue' = Tail(queue)
  /\ UNCHANGED <<main, setup, manager, failed, made, m_pThread, workers, packets>>

(* Processing logs through m_pThread and asks the HandlerManager, both of  *)
(* them memory it must still own: a deleted manager may end the program.   *)
Processing(w) ==
  /\ main # "ended" /\ task[w] = "processing"
  /\ task' = [task EXCEPT ![w] = "loop"]
  /\ main' \in IF manager = "alive" /\ w \in m_pThread THEN {main} ELSE {main, "ended"}
  /\ UNCHANGED <<setup, manager, failed, made, m_pThread, workers, traffic>>

Main ==
  \/ LoadCofigureFile \/ SetClosure \/ ProtocolRegister \/ Listen \/ MakeWorker
  \/ CreateThread \/ CreateThreadFailed \/ AssignThread \/ PushBack \/ MakeSessions

Worker(w) == TaskBegins(w) \/ GetPacketInfo(w) \/ Processing(w)

Next ==
  \/ Main
  \/ \E p \in Protocols : PacketArrives(p)
  \/ \E w \in 1..WorkerCnt : Worker(w)

Spec == Init /\ [][Next]_vars
-----------------------------------------------------------------------------
Busy == {w \in 1..WorkerCnt : task[w] = "processing"}

(* The variables have their types; a worker in m_workers has a thread. *)
TypeOK ==
  /\ main \in {"load", "closure", "register", "make", "thread", "assign", "push", "sessions",
               "run", "ended"}
  /\ registered \in 0..Len(Registrations) /\ manager \in {"none", "alive", "deleted"}
  /\ made \in 0..WorkerCnt /\ workers \subseteq m_pThread /\ m_pThread \subseteq 1..made
  /\ \A w \in 1..WorkerCnt : w \in m_pThread => task[w] # "none"
  /\ packet \in [1..WorkerCnt -> Protocols] /\ queue \in Seq(Protocols)
  /\ packets \in 0..MaxPackets

(* A worker that has a packet reads an assigned m_pThread: the race of     *)
(* Task with Run is over before the first packet can arrive, however slow  *)
(* the main thread is.                                                     *)
ThreadKnownWhenProcessing == Busy \subseteq m_pThread

(* Unless the creation of a thread failed, the HandlerManager a worker     *)
(* asks is alive, and every function of HandlerSet is registered, the      *)
(* first one where a number was registered twice.                          *)
HandlersReady ==
  Busy # {} /\ ~failed =>
    /\ manager = "alive"
    /\ \A i \in DOMAIN Registrations :
         (\A j \in 1..(i - 1) : Registrations[j].no # Registrations[i].no)
           => handler[Registrations[i].no] = Registrations[i].func
=============================================================================
