----------------------------- MODULE MCPackets ------------------------------
(***************************************************************************)
(* The instance of the two layers of a packet, which share no state: the   *)
(* bytes on the stream (FrameStream, with and without _ENABLE) and the     *)
(* classes that read a body (ProtocolPackets).  A behaviour picks one of   *)
(* them and is a behaviour of it.                                          *)
(***************************************************************************)
EXTENDS FrameStream

CONSTANTS MaxSize, MaxString, Modulus

VARIABLES
  which,                                                              \* the layer
  pc, packet, packetSize, words, field, idx, lens, whole, encoded, reply  \* ProtocolPackets

SomeBodies == {<<>>, <<1>>, <<1, 0>>}
SomeUninit == {Zeros(EnderSize), [i \in 1..EnderSize |-> 1]}

Classes == INSTANCE ProtocolPackets WITH size <- packetSize,
             Lengths <- {0, 1, 2, 60}, SignedLengths <- {0 - 4, 0 - 1, 0, 1, 2},
             Texts <- {0, 1, 2}, Results <- {0, 1}

classVars == <<pc, packet, packetSize, words, field, idx, lens, whole, encoded, reply>>
MCvars == <<which, vars, classVars>>

(* The layer that was not picked has one initial state. *)
MCInit ==
  /\ which \in {"stream", "class"}
  /\ Init /\ Classes!Init
  /\ which = "stream" => packet = Classes!RequestLogin
  /\ which = "class" => ~Enable /\ hdr = NewHeader(Zeros(EnderSize))

Streams(A) == which = "stream" /\ A /\ UNCHANGED <<which, classVars>>
Handles == which = "class" /\ Classes!Next /\ UNCHANGED <<which, vars>>

MCNext == Streams(Next) \/ Handles

(* The fairness of FrameStream. *)
MCSpec ==
  /\ MCInit /\ [][MCNext]_MCvars
  /\ WF_MCvars(~Enable /\ Streams(Arrive)) /\ WF_MCvars(~Enable /\ Streams(Receive))
-----------------------------------------------------------------------------
(* However TCP cuts the stream, the workers get the packets sent, whole    *)
(* and in order, up to the one at which the session gave up.               *)
FramesFound == TypeOK /\ PacketsInOrder

(* What a class adds up by hand agrees with what it reads and writes: a    *)
(* request accepted was read whole, one put together for the class is      *)
(* accepted, and a reply fills its buffer.                                 *)
SizesAgree ==
  /\ Classes!TypeOK /\ Classes!AcceptedIsWhole
  /\ Classes!EncodedAccepted /\ Classes!ReplyFillsBuffer
=============================================================================
