---------------------------- MODULE FrameStream -----------------------------
(***************************************************************************)
(* Packets on a byte stream: a peer that builds packets with HeaderCCT and *)
(* the receive coroutine of the server session (async_session_impl.cpp)    *)
(* that has to find them again, however TCP cuts the stream.  The session  *)
(* is modelled in SkeletonServer with all that happens around it; here it  *)
(* is alone and its bytes are real.                                        *)
(***************************************************************************)
EXTENDS HeaderCCT

CONSTANTS
  Protocols,  \* protocol numbers the peer uses, of two bytes
  Bodies,     \* bodies the peer sends, sequences of bytes
  Uninit,     \* contents of an uninitialised SD_ENDER
  MaxBuffer,  \* m_sizeOfMaxBuffer
  MaxFrames   \* bound: packets the peer sends

ASSUME StreamAssumption ==
  /\ \A p \in Protocols : p \in 0..(Base^2 - 1)
  /\ \A b \in Bodies : b \in Seq(Byte) /\ Len(b) < Base^4
  /\ \A u \in Uninit : u \in Seq(Byte) /\ Len(u) = EnderSize
  /\ MaxBuffer \in Nat /\ MaxFrames \in Nat

VARIABLES
  sent,      \* the packets the peer has sent
  stream,    \* the bytes sent and not received yet
  avail,     \* how many of them have arrived
  ended,     \* the peer has closed its end
  phase,     \* what is received next: "header", "body"; or "closed"
  hdr,       \* *m_spHeader, one object for all packets of the session
  size,      \* m_sizeOfBodyBuffer
  packets    \* the packets inserted in the queue of the workers

vars == <<Enable, sent, stream, avail, ended, phase, hdr, size, packets>>

Init ==
  /\ Enable \in BOOLEAN
  /\ sent = <<>> /\ stream = <<>> /\ avail = 0 /\ ended = FALSE
  /\ phase = "header" /\ size = 0 /\ packets = <<>>
  /\ \E u \in Uninit : hdr = NewHeader(u)

Packet(p, b) == [protocolNo |-> p, body |-> b]

(* External: a peer that writes type and length with the high byte first,  *)
(* as packet_generator/packet_test.py does.                                *)
NetworkOrder(frame, p, b) ==
  LET h == Struct(SD_HEADER, frame)
  IN  Memory(SD_HEADER, [h EXCEPT !["type"] = Reverse(Bytes(2, p)),
                                  !["length"] = Reverse(Bytes(4, Len(b)))])
        \o SubSeq(frame, HeaderSize + 1, Len(frame))

(* The bytes of a packet: the peer is built alike, or writes in network    *)
(* order to a server that swaps.                                           *)
Frame(u, p, b, n) ==
  LET frame == TestProtocol(u, p, b, n)
  IN  IF Enable THEN NetworkOrder(frame, p, b) ELSE frame

PeerSends(u, p, b) ==
  /\ ~ended /\ phase # "closed" /\ Len(sent) < MaxFrames
  /\ sent' = Append(sent, Packet(p, b))
  /\ stream' = stream \o Frame(u, p, b, Len(sent))
  /\ UNCHANGED <<Enable, avail, ended, phase, hdr, size, packets>>

PeerEnds ==
  /\ ~ended /\ ended' = TRUE
  /\ UNCHANGED <<Enable, sent, stream, avail, phase, hdr, size, packets>>

(* External: TCP delivers the stream in order, cut anywhere. *)
Arrive ==
  /\ phase # "closed" /\ avail < Len(stream)
  /\ avail' = avail + 1
  /\ UNCHANGED <<Enable, sent, stream, ended, phase, hdr, size, packets>>

(* External: async_receive takes up to n bytes of what has arrived. *)
Received(n) == SubSeq(stream, 1, n)
Take(n) == stream' = SubSeq(stream, n + 1, Len(stream)) /\ avail' = avail - n

(* Close: what has not been received never will be. *)
Close == phase' = "closed" /\ stream' = <<>> /\ avail' = 0
-----------------------------------------------------------------------------
(* Mutation of ReadHeader: the total size is taken for the size of the     *)
(* body.                                                                   *)
ReadHeaderTotal ==
  /\ phase = "header" /\ avail >= hdr.sizeOfHeader
  /\ hdr' = Deserialize(hdr, Received(hdr.sizeOfHeader))
  /\ size' = GetTotalSize(hdr')
  /\ IF MaxBuffer < size' THEN Close ELSE phase' = "body" /\ Take(hdr.sizeOfHeader)
  /\ UNCHANGED <<Enable, sent, ended, packets>>

(* ReadHeader: all of a header has been received. *)
ReadHeader ==
  /\ phase = "header" /\ avail >= hdr.sizeOfHeader
  /\ hdr' = Deserialize(hdr, Received(hdr.sizeOfHeader))
  /\ size' = hdr'.dataLen + hdr'.sizeOfEnder
  /\ IF MaxBuffer < size' THEN Close ELSE phase' = "body" /\ Take(hdr.sizeOfHeader)
  /\ UNCHANGED <<Enable, sent, ended, packets>>

(* Mutation of ReadHeaderShort: the rest of the header is awaited where a  *)
(* body should be.                                                         *)
ReadHeaderShortAccepted ==
  /\ phase = "header" /\ avail > 0 /\ avail < hdr.sizeOfHeader
  /\ hdr' = Deserialize(hdr, Received(avail))
  /\ size' = hdr'.dataLen + hdr'.sizeOfEnder
  /\ phase' = "body" /\ Take(avail)
  /\ UNCHANGED <<Enable, sent, ended, packets>>

(* ReadHeader: the first receive has brought only a part of a header. *)
ReadHeaderShort ==
  /\ phase = "header" /\ avail > 0 /\ avail < hdr.sizeOfHeader
  /\ Close
  /\ UNCHANGED <<Enable, sent, ended, hdr, size, packets>>

(* ReadBody: body and ender are complete.  The worker gets the body. *)
ReadBody ==
  /\ phase = "body" /\ avail >= size
  /\ Take(size)
  /\ packets' = Append(packets, Packet(hdr.protocolNo, Received(size - hdr.sizeOfEnder)))
  /\ phase' = "header"
  /\ UNCHANGED <<Enable, sent, ended, hdr, size>>

(* Mutation of ReadBodyShort: the rest of the body is awaited in vain. *)
ReadBodyShortIgnored ==
  /\ phase = "body" /\ avail > 0 /\ avail < size
  /\ Take(avail)
  /\ UNCHANGED <<Enable, sent, ended, phase, hdr, size, packets>>

(* ReadBody: a part of it has been received. *)
ReadBodyShort ==
  /\ phase = "body" /\ avail > 0 /\ avail < size
  /\ Close
  /\ UNCHANGED <<Enable, sent, ended, hdr, size, packets>>

(* A receive meets the end of the stream. *)
ReceiveFailed ==
  /\ phase # "closed" /\ ended /\ stream = <<>>
  /\ Close
  /\ UNCHANGED <<Enable, sent, ended, hdr, size, packets>>

Receive == ReadHeader \/ ReadHeaderShort \/ ReadBody \/ ReadBodyShort \/ ReceiveFailed

Next ==
  \/ \E u \in Uninit, p \in Protocols, b \in Bodies : PeerSends(u, p, b)
  \/ PeerEnds \/ Arrive \/ Receive

(* TCP delivers what was sent, and the io service runs the coroutine; this *)
(* is stated of the build the repository makes, without _ENABLE.           *)
Spec ==
  Init /\ [][Next]_vars /\ WF_vars(~Enable /\ Arrive) /\ WF_vars(~Enable /\ Receive)
-----------------------------------------------------------------------------
(* The variables have their types; no receive takes more than has arrived. *)
TypeOK ==
  /\ sent \in Seq([protocolNo : Protocols, body : Bodies])
  /\ stream \in Seq(Byte) /\ avail \in 0..Len(stream)
  /\ ended \in BOOLEAN /\ phase \in {"header", "body", "closed"}
  /\ hdr.protocolNo \in 0..(Base^2 - 1) /\ hdr.dataLen \in 0..(Base^4 - 1)
  /\ size \in 0..(Base^4 - 1 + EnderSize)
  /\ packets \in Seq([protocolNo : 0..(Base^2 - 1), body : Seq(Byte)])

(* However the stream is cut, the workers get the packets that were sent,  *)
(* in order and whole, up to the one at which the session gave up: a short *)
(* receive never makes the session read a packet from the wrong place.     *)
PacketsInOrder == IsPrefix(packets, sent)

(* Every packet reaches the workers, or the session is closed. *)
PacketsArrive ==
  \A n \in 1..MaxFrames :
    ~Enable /\ Len(sent) = n ~> Len(packets) >= n \/ phase = "closed"

(* With _ENABLE, ByteOrder turns any two, four or eight bytes of the       *)
(* stream around, and the two directions undo each other (the bytes are    *)
(* looked at before the first of them arrives).                            *)
SwapReference ==
  Enable /\ avail = 0 =>
    \A w \in {2, 4, 8} : \A i \in {k \in 1..Len(stream) : k + w - 1 <= Len(stream)} :
      LET b == SubSeq(stream, i, i + w - 1)
      IN  /\ Bytes(w, network_to_host(w, Value(b))) = Reverse(b)
          /\ host_to_network(w, network_to_host(w, Value(b))) = Value(b)
=============================================================================
