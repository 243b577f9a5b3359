-------------------------- MODULE ProtocolPackets ---------------------------
(***************************************************************************)
(* The packet classes under protocol/, which packet_generator writes from  *)
(* one template, and RequestLogin of the test client, written after it.  A *)
(* class is what it reads (Deserialize), what it adds up in the size check *)
(* and what it answers (Serialize); the template's control flow is common. *)
(*                                                                         *)
(* Only lengths matter to that control: of a request the model knows its   *)
(* size and what a length field reads as.  A read that fails leaves its    *)
(* variable uninitialised, which no one tests.                             *)
(***************************************************************************)
EXTENDS Integers, Sequences

CONSTANTS
  MaxSize,       \* bound: size of a request
  Lengths,       \* what an unsigned length may read as
  SignedLengths, \* what a signed one may
  Texts,         \* lengths of the texts that are really sent, in both of these
  MaxString,     \* longest string that is certain to be allocated, at least MaxSize
  Modulus,       \* 2^w, for the w bits of size_t; far above any length here
  Results        \* what a handler body may leave in result_value

(* A number, and a text preceded by its length. *)
Num(w) == [kind |-> "num", width |-> w]
Text(w) == [kind |-> "text", width |-> w]
SignedText(w) == [kind |-> "signed", width |-> w]
HasLength(f) == f.kind # "num"
Readings(f) == IF f.kind = "signed" THEN SignedLengths ELSE Lengths

TextFields(fields) == SelectSeq(fields, HasLength)

(* What the fields take, given the values of the length variables. *)
SizeOf(fields, lens) ==
  LET n[i \in 0..Len(fields)] == IF i = 0 THEN 0 ELSE n[i - 1] + fields[i].width
      m[i \in 0..Len(lens)] == IF i = 0 THEN 0 ELSE m[i - 1] + lens[i]
  IN  (n[Len(fields)] + m[Len(lens)]) % Modulus
-----------------------------------------------------------------------------
(* Mutation of AnimationInfoLoadRequest: two fields change places. *)
AnimationInfoLoadMixed == <<Num(8), Text(4), Num(4), Text(4)>>

AnimationInfoLoadRequest == <<Num(8), Num(4), Text(4), Text(4)>>
AnimationInfoLoadResponse == <<Num(2)>>
AnimationInfoLoad ==
  [request |-> AnimationInfoLoadRequest, checked |-> <<Num(8), Num(4), Text(4), Text(4)>>,
   response |-> AnimationInfoLoadResponse]

PlayerDetailInfoLoadRequest == <<Num(8), SignedText(4), Text(4)>>
PlayerDetailInfoLoadResponse == <<Num(2)>>
PlayerDetailInfoLoad ==
  [request |-> PlayerDetailInfoLoadRequest, checked |-> <<Num(8), SignedText(4), Text(4)>>,
   response |-> PlayerDetailInfoLoadResponse]

AnimationInfoPassingRequest == <<Num(8), Num(8), Num(4)>>
AnimationInfoPassingResponse == <<Num(2), Text(4)>>
AnimationInfoPassing ==
  [request |-> AnimationInfoPassingRequest, checked |-> <<Num(8), Num(8), Num(4)>>,
   response |-> AnimationInfoPassingResponse]

PlayerDetailInfoPassingRequest == <<Num(8), Num(1)>>
PlayerDetailInfoPassingResponse == <<Num(2), Text(4)>>
PlayerDetailInfoPassing ==
  [request |-> PlayerDetailInfoPassingRequest, checked |-> <<Num(8), Num(1)>>,
   response |-> PlayerDetailInfoPassingResponse]

StatusInfomationRequest == <<Num(4)>>
StatusInfomationResponse == <<Num(2), Num(4)>>
StatusInfomation ==
  [request |-> StatusInfomationRequest, checked |-> <<Num(4)>>,
   response |-> StatusInfomationResponse]

LeagueTimeSetRequest == <<Num(8)>>
LeagueTimeSetResponse == <<Num(2)>>
LeagueTimeSet ==
  [request |-> LeagueTimeSetRequest, checked |-> <<Num(8)>>, response |-> LeagueTimeSetResponse]

(* Its Deserialize reads nothing. *)
RequestLoginRequest == <<>>
RequestLoginResponse == <<Num(2), Num(4)>>
RequestLogin ==
  [request |-> RequestLoginRequest, checked |-> <<Text(2), Text(2), Num(4)>>,
   response |-> RequestLoginResponse]

Generated == {AnimationInfoLoad, PlayerDetailInfoLoad, AnimationInfoPassing,
              PlayerDetailInfoPassing, StatusInfomation, LeagueTimeSet}
Packets == Generated \cup {RequestLogin}
-----------------------------------------------------------------------------
VARIABLES
  pc,       \* "idle", "read", "check" or "handle"
  packet,   \* the class whose ProtocolProcess runs
  size,     \* size of the request
  words,    \* what is known of the buffer: length fields by position
  field,    \* the next field to read
  idx,      \* buffer_idx
  lens,     \* the length variables of the request
  whole,    \* history: every read so far has succeeded
  encoded,  \* history: the request was put together as the class wants it
  reply     \* what the last call came to

vars == <<pc, packet, size, words, field, idx, lens, whole, encoded, reply>>

Init ==
  /\ pc = "idle" /\ packet \in Packets /\ size = 0 /\ words = <<>> /\ field = 0 /\ idx = 0
  /\ lens = <<>> /\ whole = TRUE /\ encoded = FALSE
  /\ reply = [end |-> "none", room |-> 0, written |-> 0]

(* The places of the length fields of a request with texts of lengths ls.  *)
Places(fields, ls) ==
  LET upto(i) == Len(TextFields(SubSeq(fields, 1, i)))
      start(i) == SizeOf(SubSeq(fields, 1, i - 1), SubSeq(ls, 1, upto(i - 1)))
      at == {i \in DOMAIN fields : HasLength(fields[i])}
  IN  [n \in {start(i) : i \in at} |-> ls[upto(CHOOSE i \in at : start(i) = n)]]

(* ProtocolProcess is called with a request: one that was put together as  *)
(* the class wants it, or n bytes of anything.  The length variables are   *)
(* not initialised.                                                        *)
Start(p, n, ws, e) ==
  /\ pc = "idle"
  /\ packet' = p /\ size' = n /\ words' = ws /\ encoded' = e
  /\ lens' \in {l \in [1..Len(TextFields(p.checked)) -> Lengths \cup SignedLengths] :
                  \A i \in DOMAIN l : l[i] \in Readings(TextFields(p.checked)[i])}
  /\ field' = 1 /\ idx' = 0 /\ whole' = TRUE
  /\ pc' = "read"
  /\ UNCHANGED reply

ReceiveEncoded(p) ==
  \E ls \in [1..Len(TextFields(p.checked)) -> Texts] :
    /\ SizeOf(p.checked, ls) <= MaxSize
    /\ Start(p, SizeOf(p.checked, ls), Places(p.checked, ls), TRUE)

ReceiveAny(p) == \E n \in 0..MaxSize : Start(p, n, <<>>, FALSE)

(* Mutation of Fits: the check is off by one. *)
FitsAlmost(i, n) == size + 1 >= i + n

(* ReadFromBuffer of n bytes from position i. *)
Fits(i, n) == size >= i + n

(* Deserialize: the next number. *)
ReadNumber ==
  /\ pc = "read" /\ field <= Len(packet.request) /\ packet.request[field].kind = "num"
  /\ LET w == packet.request[field].width
     IN  idx' = (IF Fits(idx, w) THEN idx + w ELSE idx) /\ whole' = (whole /\ Fits(idx, w))
  /\ field' = field + 1
  /\ UNCHANGED <<pc, packet, size, words, lens, encoded, reply>>

(* Deserialize: the next length, if the buffer still has one. *)
LengthRead ==
  LET f == packet.request[field]
      k == Len(TextFields(SubSeq(packet.request, 1, field)))
  IN  CASE ~Fits(idx, f.width) -> {lens[k]}
        [] Fits(idx, f.width) /\ idx \in DOMAIN words -> {words[idx]}
        [] OTHER -> Readings(f)

AtText == pc = "read" /\ field <= Len(packet.request) /\ HasLength(packet.request[field])

(* Deserialize: the length, the resize of the string and the text. *)
ReadText ==
  /\ AtText
  /\ LET f == packet.request[field]
         k == Len(TextFields(SubSeq(packet.request, 1, field)))
         ok == Fits(idx, f.width)
         i == IF ok THEN idx + f.width ELSE idx
     IN  \E len \in {n \in LengthRead : n >= 0} :
           /\ lens' = [lens EXCEPT ![k] = len]
           /\ idx' = IF Fits(i, len) THEN i + len ELSE i
           /\ whole' = (whole /\ ok /\ Fits(i, len))
  /\ field' = field + 1
  /\ UNCHANGED <<pc, packet, size, words, encoded, reply>>

(* ProtocolProcess returns; its local variables are gone. *)
Return(end, room, written) ==
  /\ pc' = "idle"
  /\ reply' = [end |-> end, room |-> room, written |-> written]
  /\ size' = 0 /\ words' = <<>> /\ field' = 0 /\ idx' = 0 /\ lens' = <<>> /\ whole' = TRUE
  /\ UNCHANGED <<packet, encoded>>

(* Deserialize: resize throws.  A negative length, as a size_t, is longer  *)
(* than any string; for a large one there may be no memory.                *)
ResizeThrows ==
  /\ AtText
  /\ \E len \in LengthRead : len < 0 \/ len > MaxString
  /\ Return("thrown", 0, 0)

EndOfRequest ==
  /\ pc = "read" /\ field > Len(packet.request)
  /\ pc' = "check"
  /\ UNCHANGED <<packet, size, words, field, idx, lens, whole, encoded, reply>>

(* Mutation of Serialize: only the lengths of texts are written. *)
SerializeNoTexts(fields, ls, room) ==
  LET put(i, n) == IF room >= i + n THEN i + n ELSE i
      at[i \in 0..Len(fields)] == IF i = 0 THEN 0 ELSE put(at[i - 1], fields[i].width)
  IN  at[Len(fields)]

(* Serialize: each field is written where the one before it ends, if it    *)
(* fits in room bytes; a text is written after its length.                 *)
Serialize(fields, ls, room) ==
  LET put(i, n) == IF room >= i + n THEN i + n ELSE i
      at[i \in 0..Len(fields)] ==
        IF i = 0 THEN 0
        ELSE LET j == put(at[i - 1], fields[i].width)
             IN  IF HasLength(fields[i]) THEN put(j, ls[Len(TextFields(SubSeq(fields, 1, i)))]) ELSE j
  IN  at[Len(fields)]

(* A reply that holds only the result. *)
ErrorResult(end) == Return(end, 2, Serialize(<<Num(2)>>, <<>>, 2))

(* ProtocolProcess: the size check. *)
SizeRefused == pc = "check" /\ size # SizeOf(packet.checked, lens) /\ ErrorResult("refused")

(* Mutation of SizeAccepted: a longer request is accepted too. *)
SizeAcceptedLonger ==
  /\ pc = "check" /\ size >= SizeOf(packet.checked, lens)
  /\ pc' = "handle"
  /\ UNCHANGED <<packet, size, words, field, idx, lens, whole, encoded, reply>>

SizeAccepted ==
  /\ pc = "check" /\ size = SizeOf(packet.checked, lens)
  /\ pc' = "handle"
  /\ UNCHANGED <<packet, size, words, field, idx, lens, whole, encoded, reply>>

(* ProtocolProcess: the handler body, to be written, has left its result.  *)
HandlerFailed == pc = "handle" /\ (\E r \in Results : r # 1) /\ ErrorResult("failed")

(* ProtocolProcess: the response, with texts of lengths ls. *)
Respond(ls) ==
  /\ pc = "handle" /\ 1 \in Results
  /\ LET room == SizeOf(packet.response, ls)
     IN  Return("handled", room, Serialize(packet.response, ls, room))

ProtocolProcess ==
  \/ ReadNumber \/ ReadText \/ ResizeThrows \/ EndOfRequest \/ SizeRefused \/ SizeAccepted
  \/ HandlerFailed
  \/ \E ls \in [1..Len(TextFields(packet.response)) -> Texts] : Respond(ls)

Next == ProtocolProcess \/ \E p \in Packets : ReceiveEncoded(p) \/ ReceiveAny(p)

Spec == Init /\ [][Next]_vars
-----------------------------------------------------------------------------
(* The variables have their types; no read goes past the end of the        *)
(* request (ReadFromBuffer).                                               *)
TypeOK ==
  /\ pc \in {"idle", "read", "check", "handle"} /\ packet \in Packets
  /\ size \in 0..MaxSize /\ idx \in 0..size
  /\ field \in 0..(Len(packet.request) + 1)
  /\ lens \in Seq(Lengths \cup SignedLengths)
  /\ whole \in BOOLEAN /\ encoded \in BOOLEAN
  /\ reply.end \in {"none", "refused", "failed", "thrown", "handled"}

(* A request of a generated class that passes the size check was read to  *)
(* its last byte, and no read of a field failed: the handler body sees no  *)
(* uninitialised value.  (RequestLogin reads nothing and checks lengths    *)
(* that it never assigned.)                                                *)
AcceptedIsWhole == pc = "handle" /\ packet \in Generated => whole /\ idx = size

(* A request put together as a generated class wants it passes, with the   *)
(* lengths it was put together with, and no string is too long.            *)
EncodedAccepted ==
  encoded /\ packet \in Generated =>
    /\ pc = "handle" => Places(packet.checked, lens) = words
    /\ pc = "idle" => reply.end \in {"failed", "handled"}

(* A reply fills the buffer it was given: no byte of it is sent unwritten. *)
ReplyFillsBuffer == reply.written = reply.room
=============================================================================
