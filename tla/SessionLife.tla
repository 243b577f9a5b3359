---------------------------- MODULE SessionLife ----------------------------
(***************************************************************************)
(* What the session pool and the accept loop promise together, without     *)
(* sockets, coroutines, packets or buffers: a session is free, or offered  *)
(* to the next client, or serving one, or lost.  One session at most is    *)
(* offered, whatever the number of clients; a session that serves a client *)
(* is not offered to another before it has been given back; and the server *)
(* dies only at a moment when no session is free.                          *)
(***************************************************************************)
CONSTANT Sessions

VARIABLES
  life,   \* the stage of each session
  dead    \* the server has died

Stages == {"free", "offered", "serving", "lost"}

Init ==
  /\ life = [s \in Sessions |-> "free"]
  /\ dead = FALSE

(* Session s (if there is one) leaves the accept loop for stage st, and    *)
(* the loop takes a free session, or dies for want of one.                 *)
Take(f) ==
  \/ \E t \in Sessions :
       /\ life[t] = "free"
       /\ life' = [f EXCEPT ![t] = "offered"]
       /\ UNCHANGED dead
  \/ /\ \A t \in Sessions : life[t] # "free"
     /\ life' = f
     /\ dead' = TRUE

First == (\A s \in Sessions : life[s] # "offered") /\ Take(life)

Serve(s) == life[s] = "offered" /\ Take([life EXCEPT ![s] = "serving"])

Lose(s) == life[s] = "offered" /\ Take([life EXCEPT ![s] = "lost"])

Return(s) ==
  /\ life[s] = "serving"
  /\ life' = [life EXCEPT ![s] = "free"]
  /\ UNCHANGED dead

Next ==
  /\ ~dead
  /\ First \/ \E s \in Sessions : Serve(s) \/ Lose(s) \/ Return(s)

Spec == Init /\ [][Next]_<<life, dead>>
=============================================================================
