---------------------------- MODULE SyncExchange ----------------------------
(***************************************************************************)
(* What a client session promises its caller: one request and one call of  *)
(* Recv after the other on one connection, seen at the moments when a      *)
(* request has been sent whole and when Recv returns.  Nothing here knows  *)
(* of headers, pieces or time-outs.  Recv may return without a reply; the  *)
(* reply it missed is then the first one the next Recv meets.  When it     *)
(* stops in the middle of a reply, the stream is torn and anything may     *)
(* follow.                                                                 *)
(***************************************************************************)
EXTENDS Naturals, Sequences

CONSTANTS
  Requests,   \* names of requests; a reply has the name of its request
  NoReply     \* what Recv has when it has no whole reply

VARIABLES
  owed,       \* the requests whose replies have not been read, oldest first
  torn,       \* a reply was read in part
  got         \* what the last Recv returned

vars == <<owed, torn, got>>

Init == owed = <<>> /\ torn = FALSE /\ got = NoReply

(* A request has been sent; on a torn stream it is not told apart. *)
Ask(r) ==
  /\ owed' = IF torn THEN owed ELSE Append(owed, r)
  /\ UNCHANGED <<torn, got>>

(* Recv returns with the oldest reply. *)
Read ==
  /\ ~torn /\ owed # <<>>
  /\ got' = Head(owed)
  /\ owed' = Tail(owed)
  /\ UNCHANGED torn

(* Recv returns without a reply and has read nothing. *)
Miss == ~torn /\ got' = NoReply /\ UNCHANGED <<owed, torn>>

(* Recv returns after reading a part of what is due. *)
Tear == ~torn /\ owed # <<>> /\ got' = NoReply /\ torn' = TRUE /\ owed' = <<>>

(* Recv on a torn stream. *)
Stray == torn /\ got' \in Requests \cup {NoReply} /\ UNCHANGED <<owed, torn>>

(* The session is closed, after a failed Send or by itself, or connected   *)
(* again.                                                                  *)
Renew == owed' = <<>> /\ torn' = FALSE /\ got' \in {got, NoReply}

Next == (\E r \in Requests : Ask(r)) \/ Read \/ Miss \/ Tear \/ Stray \/ Renew

Spec == Init /\ [][Next]_vars
=============================================================================
