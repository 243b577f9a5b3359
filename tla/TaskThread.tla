----------------------------- MODULE TaskThread -----------------------------
(***************************************************************************)
(* AutoTask (include/util/auto_task.h) and RepeateTask                     *)
(* (include/util/repeate_task.h): an object whose owner starts a           *)
(* boost::thread, and ends it with an interrupt and a join.  An interrupt  *)
(* is noticed at an interruption point only: the sleep of RepeateTaskRun,  *)
(* or one the derived class's Processing happens to contain.               *)
(***************************************************************************)
EXTENDS Naturals, Sequences

CONSTANTS
  MaxRuns,    \* bound: threads the owner starts
  MaxTasks    \* bound: objects inserted

VARIABLES
  kind,       \* "AutoTask" or "RepeateTask"
  owner,      \* "new", "live", "joining" (in Stop), "dying" (in ~AutoTask), "stopped", "gone"
  thread,     \* the threads started; m_thread is the last of them
  queue,      \* m_taskContainer; a task is its number
  inserted,   \* the number of tasks inserted
  processed,  \* the tasks whose Processing returned
  lost        \* the tasks whose Processing was interrupted

vars == <<kind, owner, thread, queue, inserted, processed, lost>>
tasks == <<queue, inserted, processed, lost>>

Started == [pc |-> "start", task |-> 0, interrupted |-> FALSE]
m_thread == Len(thread)

Init ==
  /\ kind \in {"AutoTask", "RepeateTask"} /\ owner = "new"
  /\ thread = <<>> /\ queue = <<>> /\ inserted = 0 /\ processed = {} /\ lost = {}

(* The constructor: AutoTask's calls Run. *)
Construct ==
  /\ owner = "new" /\ owner' = "live"
  /\ thread' = IF kind = "AutoTask" THEN <<Started>> ELSE <<>>
  /\ UNCHANGED <<kind, tasks>>

Insert ==
  /\ kind = "AutoTask" /\ owner \in {"live", "stopped"} /\ inserted < MaxTasks
  /\ queue' = Append(queue, inserted + 1) /\ inserted' = inserted + 1
  /\ UNCHANGED <<kind, owner, thread, processed, lost>>

(* Run: a further thread takes the place of the last one in m_thread. *)
Run ==
  /\ owner \in {"live", "stopped"} /\ m_thread < MaxRuns
  /\ thread' = Append(thread, Started) /\ owner' = "live"
  /\ UNCHANGED <<kind, tasks>>

(* Stop: interrupt, then join.  It needs a thread to stop. *)
Stop ==
  /\ owner = "live" /\ m_thread > 0
  /\ thread' = [thread EXCEPT ![m_thread].interrupted = TRUE] /\ owner' = "joining"
  /\ UNCHANGED <<kind, tasks>>


Joined ==
  /\ owner \in {"joining", "dying"} /\ thread[m_thread].pc = "ended"
  /\ owner' = IF owner = "joining" THEN "stopped" ELSE "gone"
  /\ UNCHANGED <<kind, thread, tasks>>

(* The destructor: AutoTask's calls Stop, RepeateTask's does nothing; its  *)
(* owner is taken to stop it first.                                        *)
Destroy ==
  /\ \/ /\ kind = "AutoTask" /\ owner \in {"live", "stopped"}
        /\ thread' = [thread EXCEPT ![m_thread].interrupted = TRUE] /\ owner' = "dying"
     \/ /\ kind = "RepeateTask" /\ (owner = "stopped" \/ (owner = "live" /\ m_thread = 0))
        /\ owner' = "gone" /\ UNCHANGED thread
  /\ UNCHANGED <<kind, tasks>>
-----------------------------------------------------------------------------
Goes(t, pc) == thread' = [thread EXCEPT ![t].pc = pc]

(* Mutation of AutoTaskPop: the task is read and left in the queue. *)
AutoTaskPeek(t) ==
  /\ kind = "AutoTask" /\ thread[t].pc = "start" /\ queue # <<>>
  /\ thread' = [thread EXCEPT ![t].pc = "processing", ![t].task = Head(queue)]
  /\ UNCHANGED <<kind, owner, tasks>>

(* AutoTaskRun: one try_pop; with nothing in the queue the thread ends. *)
AutoTaskPop(t) ==
  /\ kind = "AutoTask" /\ thread[t].pc = "start" /\ queue # <<>>
  /\ thread' = [thread EXCEPT ![t].pc = "processing", ![t].task = Head(queue)]
  /\ queue' = Tail(queue)
  /\ UNCHANGED <<kind, owner, inserted, processed, lost>>

(* Mutation of AutoTaskEmpty: the result of try_pop is not looked at. *)
AutoTaskUnchecked(t) ==
  /\ kind = "AutoTask" /\ thread[t].pc = "start" /\ queue = <<>>
  /\ Goes(t, "processing")
  /\ UNCHANGED <<kind, owner, tasks>>

AutoTaskEmpty(t) ==
  /\ kind = "AutoTask" /\ thread[t].pc = "start" /\ queue = <<>>
  /\ Goes(t, "ended")
  /\ UNCHANGED <<kind, owner, tasks>>


(* RepeateTaskRun: sleep, then Processing, again and again. *)
RepeateTaskSleep(t) ==
  /\ kind = "RepeateTask" /\ thread[t].pc = "start"
  /\ Goes(t, IF thread[t].interrupted THEN "ended" ELSE "processing")
  /\ UNCHANGED <<kind, owner, tasks>>

(* Mutation of Processing: AutoTaskRun looks for a further task. *)
ProcessingAgain(t) ==
  /\ thread[t].pc = "processing"
  /\ Goes(t, "start")
  /\ processed' = processed \cup (IF kind = "AutoTask" THEN {thread[t].task} ELSE {})
  /\ UNCHANGED <<kind, owner, queue, inserted, lost>>

(* Processing returns. *)
Processing(t) ==
  /\ thread[t].pc = "processing"
  /\ Goes(t, IF kind = "AutoTask" THEN "ended" ELSE "start")
  /\ processed' = processed \cup (IF kind = "AutoTask" THEN {thread[t].task} ELSE {})
  /\ UNCHANGED <<kind, owner, queue, inserted, lost>>

(* Processing met an interruption point; thread_interrupted is caught. *)
Interrupted(t) ==
  /\ thread[t].pc = "processing" /\ thread[t].interrupted
  /\ Goes(t, "ended")
  /\ lost' = lost \cup (IF kind = "AutoTask" THEN {thread[t].task} ELSE {})
  /\ UNCHANGED <<kind, owner, queue, inserted, processed>>

Step(t) ==
  \/ AutoTaskPop(t) \/ AutoTaskEmpty(t) \/ RepeateTaskSleep(t)
  \/ Processing(t) \/ Interrupted(t)

Next ==
  \/ Construct \/ Insert \/ Run \/ Stop \/ Joined \/ Destroy
  \/ \E t \in DOMAIN thread : Step(t)

(* Fairness: a thread that can run does, and Processing comes to an end. *)
Spec ==
  /\ Init /\ [][Next]_vars /\ WF_vars(Joined)
  /\ \A t \in 1..MaxRuns : WF_vars(t \in DOMAIN thread /\ Step(t))
-----------------------------------------------------------------------------
Held == {thread[t].task : t \in {u \in DOMAIN thread : thread[u].pc = "processing"}} \ {0}

(* The variables have their types. *)
TypeOK ==
  /\ owner \in {"new", "live", "joining", "dying", "stopped", "gone"}
  /\ thread \in Seq([pc : {"start", "processing", "ended"}, task : 0..MaxTasks,
                     interrupted : BOOLEAN])
  /\ Len(thread) <= MaxRuns
  /\ queue \in Seq(1..MaxTasks) /\ inserted \in 0..MaxTasks
  /\ processed \subseteq 1..MaxTasks /\ lost \subseteq 1..MaxTasks

(* A task inserted is in one place: waiting in the queue, in the order of  *)
(* Insert, in the hands of one thread, processed, or lost to an interrupt. *)
TaskInOnePlace ==
  /\ queue = [i \in 1..Len(queue) |-> inserted - Len(queue) + i]
  /\ Held \cup processed \cup lost = 1..(inserted - Len(queue))
  /\ Held \cap processed = {} /\ Held \cap lost = {} /\ processed \cap lost = {}
  /\ \A t, u \in DOMAIN thread :
       t # u /\ thread[t].pc = "processing" /\ thread[u].pc = "processing"
         => kind = "RepeateTask" \/ thread[t].task # thread[u].task

(* A thread of AutoTask processes one task at the most: the tasks taken    *)
(* never outnumber the calls of Run (AutoTaskRun has no loop).             *)
OneTaskPerRun == kind = "AutoTask" => inserted - Len(queue) <= m_thread

(* When Stop or the destructor has returned, the thread of the last Run    *)
(* has ended.  Threads of earlier Runs (AutoTask's constructor has made    *)
(* one) are not covered: nobody interrupts or joins them.                  *)
StoppedQuiet ==
  owner \in {"stopped", "gone"} /\ m_thread > 0 => thread[m_thread].pc = "ended"

=============================================================================
