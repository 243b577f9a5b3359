---------------------------- MODULE SyncSession -----------------------------
(***************************************************************************)
(* SyncSessionImpl (src/lib/sync_session_impl.cpp), a blocking client      *)
(* session: Connect, Send with its bounded number of send() calls, Recv    *)
(* with the header peek and the body loop, Close.  The caller uses it as   *)
(* PacketProcess does: Recv follows a Send that succeeded, Close one that  *)
(* failed.  A request and a reply are counted in units; the units of a     *)
(* reply carry its request and their place, so a buffer can be compared    *)
(* with the reply it should hold.                                          *)
(*                                                                         *)
(* The socket, the network and the server are external: send() takes some  *)
(* of what it is given or fails, recv() gives some of what has arrived, or *)
(* fails when nothing arrives before the time-out or the peer has left.    *)
(***************************************************************************)
EXTENDS Naturals, Sequences

CONSTANTS
  MaxRequests,   \* bound: requests made in one behaviour
  SendSize,      \* the length of a request
  TryCount,      \* try_count of Send
  HeaderSize,    \* GetHeaderSize()
  ReplySize,     \* GetTotalSize() of a reply
  Garbage,       \* total sizes read from bytes that are not a header
  MaxConnects    \* bound: calls of Connect

ASSUME SizesAssumption ==
  /\ MaxRequests \in Nat /\ MaxConnects \in Nat
  /\ SendSize \in Nat \ {0} /\ TryCount \in Nat \ {0}
  /\ HeaderSize \in Nat \ {0} /\ ReplySize \in Nat /\ ReplySize >= HeaderSize
  /\ Garbage \subseteq {n \in Nat : n >= HeaderSize}

VARIABLES
  sock,     \* "closed", "bare" (open, not connected) or "open"
  gone,     \* the peer has closed its end
  asked,    \* requests the server has received and not answered in full
  answered, \* how many units of the reply to Head(asked) have arrived
  inbound,  \* the receive buffer of the socket
  pc,       \* where the caller is
  req,      \* the request of the call under way
  total,    \* total_transferred of Send, total_length of Recv
  moved,    \* try count of Send, bytes_transferred of Recv
  buf,      \* what recv() has written to the caller's buffer
  result,   \* the last outcome: what was returned, for which request
  late,     \* a Recv on this connection has returned without its reply
  exch,     \* history: replies due and whether the stream is torn
  connects  \* calls of Connect

net == <<gone, asked, answered, inbound>>
vars == <<sock, net, pc, req, total, moved, buf, result, late, exch, connects>>

Requests == 1..MaxRequests
NoReply == 0

Reply(r) == [i \in 1..ReplySize |-> <<r, i>>]

(* The reply a buffer holds, if it holds a whole one. *)
Content(b) ==
  IF \E r \in Requests : b = Reply(r) THEN CHOOSE r \in Requests : b = Reply(r) ELSE NoReply

Connection(s) ==
  /\ sock' = s /\ gone' = FALSE /\ asked' = <<>> /\ answered' = 0 /\ inbound' = <<>>
  /\ late' = FALSE
  /\ exch' = [owed |-> <<>>, torn |-> FALSE]

Init ==
  /\ sock = "closed" /\ gone = FALSE /\ asked = <<>> /\ answered = 0 /\ inbound = <<>>
  /\ pc = "idle" /\ req = 0 /\ total = 0 /\ moved = 0 /\ buf = <<>>
  /\ result = [ok |-> FALSE, req |-> 0, got |-> NoReply, late |-> FALSE]
  /\ late = FALSE
  /\ exch = [owed |-> <<>>, torn |-> FALSE]
  /\ connects = 0
-----------------------------------------------------------------------------
(* IsConnection: is_open(), true as well after a failed connect. *)
IsConnection == sock # "closed"

(* Mutation of Connect: an open session is not closed first, so what its   *)
(* last connection has left stays in the receive buffer.                   *)
ConnectOver(s) ==
  /\ pc = "idle"
  /\ connects < MaxConnects /\ connects' = connects + 1
  /\ sock' = s /\ late' = FALSE /\ exch' = [owed |-> <<>>, torn |-> FALSE]
  /\ UNCHANGED <<net, pc, req, total, moved, buf, result>>

(* Connect: an open session is closed first.  It ends connected, or with   *)
(* an open socket that is not connected, or, when resolve() throws, with   *)
(* the socket closed and the exception in the caller.                      *)
Connect(s) ==
  /\ pc = "idle"
  /\ connects < MaxConnects /\ connects' = connects + 1
  /\ Connection(s)
  /\ UNCHANGED <<pc, req, total, moved, buf, result>>

(* Send: the checks before the loop. *)
Send ==
  /\ pc = "idle" /\ req < MaxRequests
  /\ req' = req + 1
  /\ total' = 0 /\ moved' = 0 /\ buf' = <<>>
  /\ pc' = IF IsConnection THEN "send" ELSE "failed"
  /\ UNCHANGED <<sock, net, result, late, exch, connects>>

(* Mutation of SendSome: the loop has no limit. *)
SendSomeMore(k) ==
  /\ pc = "send" /\ sock = "open"
  /\ total' = total + k
  /\ moved' = moved + 1
  /\ IF total' = SendSize
       THEN /\ pc' = "peek"
            /\ asked' = IF gone THEN asked ELSE Append(asked, req)
            /\ exch' = IF exch.torn THEN exch ELSE [exch EXCEPT !.owed = Append(@, req)]
       ELSE UNCHANGED <<pc, asked, exch>>
  /\ UNCHANGED <<sock, gone, answered, inbound, req, buf, result, late, connects>>

(* One send() of the loop of Send, which takes k units.  After TryCount    *)
(* calls an incomplete request is a failure.                               *)
SendSome(k) ==
  /\ pc = "send" /\ sock = "open"
  /\ total' = total + k
  /\ moved' = moved + 1
  /\ IF total' = SendSize
       THEN /\ pc' = "peek"
            /\ asked' = IF gone THEN asked ELSE Append(asked, req)
            /\ exch' = IF exch.torn THEN exch ELSE [exch EXCEPT !.owed = Append(@, req)]
       ELSE /\ pc' = IF moved' = TryCount THEN "failed" ELSE "send"
            /\ UNCHANGED <<asked, exch>>
  /\ UNCHANGED <<sock, gone, answered, inbound, req, buf, result, late, connects>>

(* send() returns -1: an error, a time-out, or no connection. *)
SendError ==
  /\ pc = "send"
  /\ pc' = "failed"
  /\ UNCHANGED <<sock, net, req, total, moved, buf, result, late, exch, connects>>

(* The caller closes the session of a failed Send; Close also serves an    *)
(* idle caller.  An error of close() leaves the socket closed too; the     *)
(* error_code thrown for it passes the handlers of Close to the caller.    *)
Close ==
  /\ pc = "failed" \/ (pc = "idle" /\ IsConnection)
  /\ result' = IF pc = "failed"
                 THEN [ok |-> FALSE, req |-> req, got |-> NoReply, late |-> late]
                 ELSE result
  /\ pc' = "idle"
  /\ Connection("closed")
  /\ UNCHANGED <<req, total, moved, buf, connects>>
-----------------------------------------------------------------------------
(* Recv returns, always with true: it ignores what Paser returns.  b is    *)
(* the caller's buffer, n the number of units taken from the socket.       *)
Return(b, n) ==
  /\ pc' = "idle"
  /\ result' = [ok |-> TRUE, req |-> req, got |-> Content(b), late |-> late]
  /\ late' = (late \/ Content(b) # req)
  /\ exch' = CASE exch.torn -> exch
               [] n = 0 -> exch
               [] n = ReplySize -> [exch EXCEPT !.owed = Tail(@)]
               [] OTHER -> [owed |-> <<>>, torn |-> TRUE]
  /\ buf' = b

(* What the header gives as the total size: a header is what it should be, *)
(* anything else is read as one too (Validate of HeaderCCT accepts all).   *)
TotalSizes(h) ==
  IF \E r \in Requests : h = SubSeq(Reply(r), 1, HeaderSize) THEN {ReplySize} ELSE Garbage

(* HeaderPaser: a whole header is peeked at. *)
HeaderPaser ==
  /\ pc = "peek" /\ Len(inbound) >= HeaderSize
  /\ buf' = SubSeq(inbound, 1, HeaderSize)
  /\ total' \in TotalSizes(buf')
  /\ moved' = 0
  /\ pc' = "body"
  /\ UNCHANGED <<sock, net, req, result, late, exch, connects>>

(* HeaderPaser: recv() returns less than a header - a part of one, nothing *)
(* before the time-out, or the end of the stream - and the result 0 is not *)
(* an error to Paser, whose test for it is total_length < 0, unsigned.     *)
HeaderMissing ==
  /\ pc = "peek" /\ Len(inbound) < HeaderSize
  /\ Return(inbound, 0)
  /\ UNCHANGED <<sock, net, req, total, moved, connects>>

(* memcpy of units to buf + n. *)
Overwrite(b, n, units) ==
  SubSeq(b, 1, n) \o units \o SubSeq(b, n + Len(units) + 1, Len(b))

(* Mutation of BodyPaser: the body is peeked at like the header. *)
BodyPeeked ==
  /\ pc = "body" /\ inbound # <<>>
  /\ LET k == IF Len(inbound) < total THEN Len(inbound) ELSE total
         b == Overwrite(buf, 0, SubSeq(inbound, 1, k))
     IN  /\ moved' = k
         /\ IF k = total THEN Return(b, k) ELSE buf' = b /\ UNCHANGED <<pc, result, late, exch>>
  /\ UNCHANGED <<sock, net, req, total, connects>>

(* BodyPaser: one recv() of the loop, which takes what is there. *)
BodyPaser ==
  /\ pc = "body" /\ inbound # <<>>
  /\ LET k == IF Len(inbound) < total - moved THEN Len(inbound) ELSE total - moved
         b == Overwrite(buf, moved, SubSeq(inbound, 1, k))
     IN  /\ inbound' = SubSeq(inbound, k + 1, Len(inbound))
         /\ moved' = moved + k
         /\ IF moved + k = total
              THEN Return(b, moved + k)
              ELSE buf' = b /\ UNCHANGED <<pc, result, late, exch>>
  /\ UNCHANGED <<sock, gone, asked, answered, req, total, connects>>

(* Mutation of BodyFailed: the end of the stream is not an error. *)
BodyFailedUnlessGone ==
  /\ pc = "body" /\ inbound = <<>> /\ ~gone
  /\ Return(buf, moved)
  /\ UNCHANGED <<sock, net, req, total, moved, connects>>

(* BodyPaser: recv() times out, fails or meets the end of the stream. *)
BodyFailed ==
  /\ pc = "body" /\ inbound = <<>>
  /\ Return(buf, moved)
  /\ UNCHANGED <<sock, net, req, total, moved, connects>>
-----------------------------------------------------------------------------
(* External: the next unit of a reply arrives.  Replies come in order. *)
Arrive ==
  /\ sock = "open" /\ ~gone /\ asked # <<>>
  /\ inbound' = Append(inbound, <<Head(asked), answered + 1>>)
  /\ IF answered + 1 = ReplySize
       THEN asked' = Tail(asked) /\ answered' = 0
       ELSE answered' = answered + 1 /\ UNCHANGED asked
  /\ UNCHANGED <<sock, gone, pc, req, total, moved, buf, result, late, exch, connects>>

(* External: the peer closes its end; what has not arrived never will. *)
PeerCloses ==
  /\ sock = "open" /\ ~gone
  /\ gone' = TRUE
  /\ UNCHANGED <<sock, asked, answered, inbound, pc, req, total, moved, buf, result, late,
                 exch, connects>>

Caller ==
  \/ \E k \in 1..(SendSize - total) : SendSome(k)
  \/ SendError \/ (pc = "failed" /\ Close)
  \/ HeaderPaser \/ HeaderMissing \/ BodyPaser \/ BodyFailed

Next ==
  \/ \E s \in {"open", "bare", "closed"} : Connect(s)
  \/ Send \/ Caller \/ (pc = "idle" /\ Close) \/ Arrive \/ PeerCloses

(* A call under way goes on; both time-outs are set, so no recv() or       *)
(* send() blocks for ever.                                                 *)
Spec == Init /\ [][Next]_vars /\ WF_vars(Caller)
-----------------------------------------------------------------------------
(* The type of the state; Send never makes more than TryCount calls. *)
TypeOK ==
  /\ sock \in {"closed", "bare", "open"} /\ gone \in BOOLEAN
  /\ asked \in Seq(Requests) /\ answered \in 0..(ReplySize - 1)
  /\ inbound \in Seq(Requests \X (1..ReplySize))
  /\ pc \in {"idle", "send", "failed", "peek", "body"}
  /\ req \in 0..MaxRequests
  /\ total \in Nat /\ moved \in Nat /\ (pc = "send" => moved < TryCount)
  /\ buf \in Seq(Requests \X (1..ReplySize))
  /\ result \in [ok : BOOLEAN, req : 0..MaxRequests, got : {NoReply} \cup Requests, late : BOOLEAN]
  /\ late \in BOOLEAN
  /\ exch \in [owed : Seq(Requests), torn : BOOLEAN]
  /\ connects \in 0..MaxConnects

(* A whole reply that Recv hands out is the reply to the caller's own      *)
(* request, unless an earlier Recv on the same connection went without     *)
(* its reply: only a missed reply can reach a later request.               *)
OwnReply == result.got \in Requests => result.got = result.req \/ result.late

(* Until a reply is missed, nothing is left of an exchange when the next   *)
(* one begins, neither in the receive buffer nor under way.                *)
InStep == pc = "idle" /\ sock = "open" /\ ~late => inbound = <<>> /\ asked = <<>>

(* A call of Send or Recv returns, whatever the peer does. *)
CallReturns == pc # "idle" ~> pc = "idle"

Exchange == INSTANCE SyncExchange WITH
  owed <- exch.owed, torn <- exch.torn, got <- result.got

(* The session keeps the contract SyncExchange: replies are handed out in  *)
(* the order of the requests, each at most once, until the stream is torn. *)
KeepsContract == Exchange!Spec

(* When PacketProcess has returned true, the buffer holds the reply to the *)
(* request: test/test_module.cpp reports a failure only when it is false.  *)
SuccessHasReply == result.ok => result.got = result.req
=============================================================================
