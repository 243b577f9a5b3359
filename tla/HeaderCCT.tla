----------------------------- MODULE HeaderCCT ------------------------------
(***************************************************************************)
(* The packet header of the dummy server (src/dummyServer/header_cct.cpp)  *)
(* with the helpers it is made of: MemoryManager, which copies to and from *)
(* a buffer at a position (include/util/memory_manager.h), and ByteOrder   *)
(* (src/lib/byte_order.cpp).  These are functions on sequences of bytes; a *)
(* byte is a digit in base Base, and the widths are those of the code.     *)
(***************************************************************************)
EXTENDS Integers, Sequences, SequencesExt

CONSTANT Base     \* how many values a byte has

ASSUME BaseAssumption == Base \in Nat /\ Base > 1

VARIABLE Enable   \* _ENABLE is defined in this build; no file of the repository defines it

Byte == 0..(Base - 1)
Zeros(n) == [i \in 1..n |-> 0]

(* A number of w bytes as the (little-endian) machine stores it. *)
Bytes(w, v) == [i \in 1..w |-> (v \div Base^(i - 1)) % Base]
Value(b) ==
  LET v[i \in 0..Len(b)] == IF i = 0 THEN 0 ELSE v[i - 1] + b[i] * Base^(i - 1)
  IN  v[Len(b)]
-----------------------------------------------------------------------------
(* External: htonl and htons, ntohl and ntohs. *)
Swap(w, v) == Value(Reverse(Bytes(w, v)))

(* Mutation of Swap64: the halves keep their places. *)
Swap64Halves(v) == Swap(4, v % Base^4) + Swap(4, v \div Base^4) * Base^4

(* The 64-bit value is put together from two swapped halves. *)
Swap64(v) == Swap(4, v % Base^4) * Base^4 + Swap(4, v \div Base^4)

network_to_host(w, v) ==
  IF ~Enable THEN v ELSE IF w = 8 THEN Swap64(v) ELSE Swap(w, v)

host_to_network(w, v) ==
  IF ~Enable THEN v ELSE IF w = 8 THEN Swap64(v) ELSE Swap(w, v)
-----------------------------------------------------------------------------
(* Copy a block from the position pos: what was read and the new position, *)
(* or old and the same position when the buffer is too short.              *)
ReadFromBuffer(buf, pos, n, old) ==
  IF Len(buf) < pos + n
    THEN [pos |-> pos, val |-> old]
    ELSE [pos |-> pos + n, val |-> SubSeq(buf, pos + 1, pos + n)]

WriteToBuffer(c, block) ==
  IF Len(c.buf) < c.pos + Len(block)
    THEN c
    ELSE [buf |-> SubSeq(c.buf, 1, c.pos) \o block
                    \o SubSeq(c.buf, c.pos + Len(block) + 1, Len(c.buf)),
          pos |-> c.pos + Len(block)]
-----------------------------------------------------------------------------
(* The packed structures, fields in order with their sizes. *)
SD_HEADER == << <<"cVer", 2>>, <<"szSign", 10>>, <<"type", 2>>, <<"length", 4>>, <<"nHandle", 4>>,
                <<"cEncType", 1>>, <<"szOpt", 3>>, <<"cFindSig", 1>>, <<"clientData", 4>>,
                <<"wOpt", 2>> >>
SD_ENDER == << <<"cVer", 2>>, <<"type", 2>>, <<"length", 4>>, <<"wOpt", 2>>, <<"dwSerial", 4>>,
               <<"szOpt", 2>> >>

(* The offset of the field numbered k, and the size of a structure. *)
Offset(struct, k) ==
  LET at[i \in 1..k] == IF i = 1 THEN 0 ELSE at[i - 1] + struct[i - 1][2] IN at[k]
SizeOf(struct) == Offset(struct, Len(struct) + 1)
HeaderSize == SizeOf(SD_HEADER)
EnderSize == SizeOf(SD_ENDER)

(* A structure in memory, and the structure a block of memory is. *)
Memory(struct, x) ==
  LET m[k \in 0..Len(struct)] == IF k = 0 THEN <<>> ELSE m[k - 1] \o x[struct[k][1]]
  IN  m[Len(struct)]
Struct(struct, mem) ==
  [name \in {struct[k][1] : k \in DOMAIN struct} |->
     LET k == CHOOSE i \in DOMAIN struct : struct[i][1] = name
     IN  SubSeq(mem, Offset(struct, k) + 1, Offset(struct, k) + struct[k][2])]

(* The constructor.  m_ender is not initialised: u is what it holds. *)
NewHeader(u) ==
  [header |-> Struct(SD_HEADER, Zeros(HeaderSize)), ender |-> Struct(SD_ENDER, u),
   protocolNo |-> 0, dataLen |-> 0,
   sizeOfHeader |-> HeaderSize, sizeOfEnder |-> EnderSize]

GetTotalSize(h) == h.sizeOfHeader + h.dataLen + h.sizeOfEnder

Serialize(h, c) == WriteToBuffer(c, Memory(SD_HEADER, h.header))

(* Mutation of NetworkToHost: the members keep their values. *)
NetworkToHostStale(h) ==
  [h EXCEPT !.header["type"] = Bytes(2, network_to_host(2, Value(@))),
            !.header["length"] = Bytes(4, network_to_host(4, Value(@)))]

NetworkToHost(h) ==
  LET type == network_to_host(2, Value(h.header["type"]))
      length == network_to_host(4, Value(h.header["length"]))
  IN  [h EXCEPT !.header["type"] = Bytes(2, type), !.header["length"] = Bytes(4, length),
                !.protocolNo = type, !.dataLen = length]

(* A buffer too short for a header is not an error: the old header stays.  *)
Deserialize(h, buf) ==
  LET r == ReadFromBuffer(buf, 0, HeaderSize, Memory(SD_HEADER, h.header))
  IN  NetworkToHost([h EXCEPT !.header = Struct(SD_HEADER, r.val)])

(* The fields set to constants, and the random key number, are ones. *)
MakeHeader(h, protocol_no, data_len) ==
  [h EXCEPT !.protocolNo = protocol_no, !.dataLen = data_len,
            !.header["szSign"] = [i \in 1..10 |-> IF i <= 7 THEN 1 ELSE @[i]],
            !.header["type"] = Bytes(2, host_to_network(2, protocol_no)),
            !.header["nHandle"] = Bytes(4, host_to_network(4, 1)),
            !.header["cFindSig"] = <<1>>,
            !.header["cVer"] = Bytes(2, host_to_network(2, 1)),
            !.header["length"] = Bytes(4, host_to_network(4, data_len)),
            !.header["wOpt"] = Bytes(2, host_to_network(2, 1)),
            !.header["cEncType"] = <<0>>]

MakeEnder(h, packet_count) ==
  [h EXCEPT !.ender["cVer"] = h.header["cVer"], !.ender["type"] = h.header["type"],
            !.ender["length"] = h.header["length"], !.ender["wOpt"] = h.header["wOpt"],
            !.ender["dwSerial"] = Bytes(4, packet_count)]

(* TestProtocol of dummyServer.cpp: a packet of header, body and ender in  *)
(* a buffer of the total size.                                             *)
TestProtocol(u, protocol_no, body, count) ==
  LET h == MakeHeader(NewHeader(u), protocol_no, Len(body))
      c1 == Serialize(h, [buf |-> Zeros(GetTotalSize(h)), pos |-> 0])
      c2 == WriteToBuffer([c1 EXCEPT !.pos = HeaderSize], body)
      c3 == WriteToBuffer(c2, Memory(SD_ENDER, MakeEnder(h, count).ender))
  IN  c3.buf
=============================================================================
