-------------------------- MODULE RedisConnector ---------------------------
(***************************************************************************)
(* RedisConnector (src/lib/redis_connector.cpp): a client session whose    *)
(* Paser reads a Redis reply.  The reply comes in pieces; the parsers look *)
(* for the end of line and the end of string in a buffer the caller passes *)
(* from call to call without clearing it (test/test_module.cpp).           *)
(*                                                                         *)
(* A unit of a reply is a type character, a number, a letter, CR or LF.    *)
(* The constructor calls through m_functionContainer, which nothing        *)
(* creates; the model begins where it would have registered the parsers.   *)
(***************************************************************************)
EXTENDS Integers, Sequences, TLC

CONSTANTS
  Replies,      \* the replies of the server: [kind, value]
  BufferSize,   \* buffer_size
  MaxRequests,  \* bound: requests made in one behaviour
  MaxCuts       \* bound: arrivals of less than all that was sent

NUL == "nul"
NoPiece == -2
CRLF == <<"CR", "LF">>

(* atoi of the numbers that occur; of anything else it is 0. *)
Numbers == ("-1" :> -1) @@ ("0" :> 0) @@ ("1" :> 1) @@ ("2" :> 2) @@ ("3" :> 3)
Atoi(s) == IF s # <<>> /\ s[1] \in DOMAIN Numbers THEN Numbers[s[1]] ELSE 0
Itoa(n) == CHOOSE d \in DOMAIN Numbers : Numbers[d] = n

(* External: how the server writes a reply. *)
EncodedBulk(t) == <<"$", Itoa(Len(t))>> \o CRLF \o t \o CRLF
Encoded(r) ==
  CASE r.kind \in {"-", "+"} -> <<r.kind>> \o r.value \o CRLF
    [] r.kind = ":" -> <<":", Itoa(r.value)>> \o CRLF
    [] r.kind = "$" -> EncodedBulk(r.value)
    [] r.kind = "nil" -> <<"$", "-1">> \o CRLF
    [] r.kind = "*" -> LET e[i \in 0..Len(r.value)] ==
                             IF i = 0 THEN <<"*", Itoa(Len(r.value))>> \o CRLF
                                      ELSE e[i - 1] \o EncodedBulk(r.value[i])
                       IN  e[Len(r.value)]

ASSUME RepliesAssumption ==
  /\ BufferSize \in Nat /\ MaxRequests \in Nat /\ MaxCuts \in Nat
  /\ \A r \in Replies : MaxRequests * Len(Encoded(r)) < BufferSize
-----------------------------------------------------------------------------
(* A string ends at the first NUL; strstr finds the first CRLF before it. *)
CString(s) ==
  LET ends == {i \in DOMAIN s : s[i] = NUL}
  IN  IF ends = {} THEN s ELSE SubSeq(s, 1, (CHOOSE i \in ends : \A j \in ends : i <= j) - 1)
Lines(s) == {i \in 1..(Len(s) - 1) : s[i] = "CR" /\ s[i + 1] = "LF"}
Line(s) == SubSeq(s, 1, (CHOOSE i \in Lines(s) : \A j \in Lines(s) : i <= j) - 1)
After(s, n) == SubSeq(s, n + 1, Len(s))

(* The text before the end of line, and the rest with the end of line; a   *)
(* null pointer when there is none.                                        *)
IdentifierParseToString(s, old) ==
  IF Lines(s) = {} THEN [null |-> TRUE, val |-> old, rest |-> <<>>]
                   ELSE [null |-> FALSE, val |-> Line(s), rest |-> After(s, Len(Line(s)))]

IdentifierParseToInt(s, old) ==
  IF Lines(s) = {} THEN [null |-> TRUE, val |-> old, rest |-> <<>>]
                   ELSE [null |-> FALSE, val |-> Atoi(Line(s)), rest |-> After(s, Len(Line(s)))]

(* Mutation of Bulk: the end of line is taken with the body. *)
BulkWithEnd(s, old) ==
  LET n == IdentifierParseToInt(s, 0)
      p == After(n.rest, Len(CRLF))
      short == n.null \/ Len(p) < n.val + Len(CRLF)
  IN  IF short THEN [null |-> TRUE, retry |-> ~n.null, threw |-> FALSE, val |-> old, rest |-> <<>>]
               ELSE [null |-> FALSE, retry |-> FALSE, threw |-> FALSE,
                     val |-> SubSeq(p, 1, n.val + Len(CRLF)),
                     rest |-> After(p, n.val + Len(CRLF))]

(* Bulk.  The lengths are compared as size_t, so a length of -1 asks for   *)
(* one more character; with it assign() throws.                            *)
Bulk(s, old) ==
  LET n == IdentifierParseToInt(s, 0)
      p == After(n.rest, Len(CRLF))
  IN  CASE n.null -> [null |-> TRUE, retry |-> FALSE, threw |-> FALSE, val |-> old, rest |-> <<>>]
        [] ~n.null /\ Len(p) < n.val + Len(CRLF) ->
             [null |-> TRUE, retry |-> TRUE, threw |-> FALSE, val |-> old, rest |-> <<>>]
        [] ~n.null /\ Len(p) >= n.val + Len(CRLF) /\ n.val < 0 ->
             [null |-> TRUE, retry |-> FALSE, threw |-> TRUE, val |-> old, rest |-> <<>>]
        [] OTHER -> [null |-> FALSE, retry |-> FALSE, threw |-> FALSE,
                     val |-> SubSeq(p, 1, n.val), rest |-> After(p, n.val + Len(CRLF))]

(* The elements before the first one that is not complete; an element that *)
(* is not a bulk is passed over without advancing.                         *)
MultiBulk(s, count) ==
  LET step[i \in 0..count] ==
        IF i = 0
        THEN [null |-> FALSE, retry |-> FALSE, threw |-> FALSE, vals |-> <<>>, rest |-> s]
        ELSE LET old == step[i - 1]
                 new == Bulk(Tail(old.rest), <<>>)
             IN  IF old.null \/ old.rest = <<>> \/ Head(old.rest) # "$"
                 THEN old
                 ELSE [null |-> new.null, retry |-> new.retry, threw |-> new.threw,
                       rest |-> new.rest,
                       vals |-> IF new.null THEN old.vals ELSE Append(old.vals, new.val)]
  IN  step[count]
-----------------------------------------------------------------------------
VARIABLES
  endpoint,   \* the address and the port the session connects to
  pc,         \* "new", "idle" between calls of Recv, "recv" inside one, "closed"
  m,          \* m_error, m_inline, m_bulk, m_multiBulk and m_int
  buffer,     \* the caller's buffer
  at,         \* availablebytes_transferred: where the next piece goes
  retry,      \* retry
  stream,     \* what the server sent and recv has not taken
  avail,      \* how much of it has arrived
  wanted,     \* the reply the call is for
  first,      \* what the first recv of the call took; NoPiece before it
  inStep,     \* nothing of an earlier reply was left when the call began
  closed,     \* the server closed the connection
  requests,   \* requests made
  cuts        \* arrivals of a part only

vars == <<endpoint, pc, m, buffer, at, retry, stream, avail, wanted, first, inStep,
          closed, requests, cuts>>
caller == <<endpoint, wanted, inStep, requests, cuts>>

Init ==
  /\ endpoint = [ip |-> "unset", port |-> "unset"]
  /\ pc = "new"
  /\ m = [error |-> <<>>, inline |-> <<>>, bulk |-> <<>>, multi |-> <<>>, int |-> 0]
  /\ buffer = [i \in 1..BufferSize |-> NUL]
  /\ at = 0 /\ retry = FALSE
  /\ stream = <<>> /\ avail = 0 /\ closed = FALSE
  /\ wanted = (CHOOSE r \in Replies : TRUE) /\ first = NoPiece /\ inStep = TRUE /\ requests = 0 /\ cuts = 0

(* EndpointSet: "0" stands for the default. *)
EndpointSet(ip, port) ==
  LET p1 == IF ip = "0" THEN "127.0.0.1" ELSE port
  IN  [ip |-> ip, port |-> IF p1 = "0" THEN "6379" ELSE p1]

(* Connect, which sets the end point; it fails unless that names a server. *)
Connect(ip, port) ==
  /\ pc = "new"
  /\ endpoint' = EndpointSet(ip, port)
  /\ pc' = IF endpoint' = [ip |-> "127.0.0.1", port |-> "6379"] THEN "idle" ELSE "closed"
  /\ UNCHANGED <<m, buffer, at, retry, stream, avail, wanted, first, inStep, closed,
                 requests, cuts>>

(* Send, with the answer the server is going to give, then a call of Recv. *)
Request(r) ==
  /\ pc = "idle" /\ ~closed /\ requests < MaxRequests
  /\ pc' = "recv"
  /\ wanted' = r /\ stream' = stream \o Encoded(r)
  /\ inStep' = (stream = <<>>)
  /\ first' = NoPiece /\ at' = 0 /\ retry' = FALSE
  /\ requests' = requests + 1
  /\ UNCHANGED <<endpoint, m, buffer, avail, closed, cuts>>

(* External: the network and the server. *)
Arrive ==
  /\ avail < Len(stream)
  /\ \E n \in (avail + 1)..Len(stream) :
       /\ avail' = n
       /\ cuts' = IF n = Len(stream) THEN cuts ELSE cuts + 1
  /\ cuts' <= MaxCuts
  /\ UNCHANGED <<endpoint, pc, m, buffer, at, retry, stream, wanted, first, inStep, closed, requests>>

ServerCloses ==
  /\ ~closed /\ pc # "new"
  /\ closed' = TRUE
  /\ stream' = SubSeq(stream, 1, avail)
  /\ UNCHANGED <<endpoint, pc, m, buffer, at, retry, avail, wanted, first, inStep, requests, cuts>>
-----------------------------------------------------------------------------
(* The parsers, as [m, retry, threw]: what they leave in the members, and   *)
(* whether they ask for more.  s is the text after the type character.     *)
ErrorProcessing(s) ==
  [m |-> [m EXCEPT !.error = IdentifierParseToString(s, @).val], retry |-> FALSE, threw |-> FALSE]
InlineProcessing(s) ==
  [m |-> [m EXCEPT !.inline = IdentifierParseToString(s, @).val], retry |-> FALSE, threw |-> FALSE]
IntProcessing(s) ==
  [m |-> [m EXCEPT !.int = IdentifierParseToInt(s, @).val], retry |-> FALSE, threw |-> FALSE]
BulkProcessing(s) ==
  LET b == Bulk(s, m.bulk)
  IN  [m |-> [m EXCEPT !.bulk = b.val], retry |-> b.retry, threw |-> b.threw]
(* Mutation of MultiBulkProcessing: m_multiBulk is not cleared. *)
MultiBulkUncleared(s) ==
  LET n == IdentifierParseToInt(s, 0)
      b == MultiBulk(After(n.rest, Len(CRLF)), n.val)
  IN  IF n.null \/ n.val < 0
      THEN [m |-> m, retry |-> FALSE, threw |-> FALSE]
      ELSE [m |-> [m EXCEPT !.multi = @ \o b.vals], retry |-> b.retry, threw |-> b.threw]
MultiBulkProcessing(s) ==
  LET n == IdentifierParseToInt(s, 0)
      b == MultiBulk(After(n.rest, Len(CRLF)), n.val)
  IN  IF n.null \/ n.val < 0
      THEN [m |-> IF n.null THEN m ELSE [m EXCEPT !.multi = <<>>], retry |-> FALSE, threw |-> FALSE]
      ELSE [m |-> [m EXCEPT !.multi = b.vals], retry |-> b.retry, threw |-> b.threw]

(* The table ProcessFuncRegister fills; another character has no parser. *)
Process(b) ==
  LET s == CString(Tail(b))
  IN  CASE b[1] = "-" -> ErrorProcessing(s)
        [] b[1] = "+" -> InlineProcessing(s)
        [] b[1] = "$" -> BulkProcessing(s)
        [] b[1] = "*" -> MultiBulkProcessing(s)
        [] b[1] = ":" -> IntProcessing(s)
        [] OTHER -> [m |-> m, retry |-> FALSE, threw |-> FALSE]

(* Mutation of Placed: the piece is appended to the buffer. *)
PlacedBehind(piece) == buffer \o piece

(* recv places the piece behind the length of the PREVIOUS piece; with -1   *)
(* its first unit falls in front of the buffer.                            *)
Placed(piece) ==
  [i \in 1..BufferSize |-> IF i - at \in DOMAIN piece THEN piece[i - at] ELSE buffer[i]]


(* One turn of Paser's loop, with what recv returned and left behind. *)
Paser(n, b) ==
  \E done \in {Process(b)} :
    /\ buffer' = b
    /\ at' = n
    /\ m' = done.m
    /\ retry' = (retry \/ done.retry)
    /\ pc' = IF done.threw \/ ~(retry \/ done.retry) THEN "idle" ELSE "recv"
    /\ first' = IF first = NoPiece THEN n ELSE first

Received ==
  /\ pc = "recv" /\ avail > 0 /\ at < BufferSize
  /\ LET n == IF avail < BufferSize - at THEN avail ELSE BufferSize - at
     IN  /\ \E b \in {Placed(SubSeq(stream, 1, n))} : Paser(n, b)
         /\ stream' = SubSeq(stream, n + 1, Len(stream))
         /\ avail' = avail - n
  /\ UNCHANGED <<caller, closed>>

(* recv gave up and returned -1, which as a size_t is greater than 0. *)
RecvTimedOut ==
  /\ pc = "recv" /\ avail = 0 /\ ~closed
  /\ Paser(-1, buffer)
  /\ UNCHANGED <<caller, stream, avail, closed>>

(* recv returned 0: the server closed, or the piece filled the buffer. *)
RecvNothing ==
  /\ pc = "recv" /\ (at = BufferSize \/ (avail = 0 /\ closed))
  /\ pc' = "idle"
  /\ first' = IF first = NoPiece THEN 0 ELSE first
  /\ UNCHANGED <<caller, m, buffer, at, retry, stream, avail, closed>>

Next ==
  \/ \E ip \in {"0", "127.0.0.1"}, port \in {"0", "6379"} : Connect(ip, port)
  \/ \E r \in Replies : Request(r)
  \/ Arrive
  \/ ServerCloses
  \/ Received
  \/ RecvTimedOut
  \/ RecvNothing

Spec == Init /\ [][Next]_vars
-----------------------------------------------------------------------------
(* The member the reply goes to. *)
Value(r) ==
  CASE r.kind = "-" -> m.error
    [] r.kind = "+" -> m.inline
    [] r.kind = ":" -> m.int
    [] r.kind = "$" -> m.bulk
    [] r.kind = "*" -> m.multi

Units == UNION {{e[i] : i \in DOMAIN e} : e \in {Encoded(r) : r \in Replies}} \cup {NUL}

(* The variables have their types; the buffer keeps its size, and a piece  *)
(* is never placed beyond it.                                              *)
TypeOK ==
  /\ pc \in {"new", "idle", "recv", "closed"}
  /\ buffer \in [1..BufferSize -> Units]
  /\ at \in -1..BufferSize /\ retry \in BOOLEAN
  /\ stream \in Seq(Units) /\ avail \in 0..Len(stream)
  /\ m.int \in Int
  /\ \A t \in {m.error, m.inline, m.bulk} \cup {m.multi[i] : i \in DOMAIN m.multi} :
       t \in Seq(Units \ {NUL})
  /\ first \in -2..BufferSize /\ inStep \in BOOLEAN /\ closed \in BOOLEAN
  /\ requests \in 0..MaxRequests /\ cuts \in 0..MaxCuts

(* A reply that one recv delivers whole, on a connection that is in step,  *)
(* ends the call with exactly that reply in its member, whatever an        *)
(* earlier reply left in the buffer behind it (Paser with the five         *)
(* parsers; the null bulk, whose length is -1, is the exception).          *)
WholeReplyParsed ==
  inStep /\ wanted.kind # "nil" /\ requests > 0 /\ first = Len(Encoded(wanted))
    => pc = "idle" /\ Value(wanted) = wanted.value


(* A recv that brings nothing, timed out or closed, leaves every member as *)
(* it was, although Paser parses the buffer of the last reply again (the   *)
(* -1 of recv, compared as a size_t, passes for data).                     *)
NothingReceivedNothingParsed == [][pc = "recv" /\ avail = 0 => m' = m]_vars
=============================================================================
