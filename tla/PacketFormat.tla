---------------------------- MODULE PacketFormat ----------------------------
(***************************************************************************)
(* protocol.c: what the build functions write and parse_packet() accepts,  *)
(* byte for byte.  One program sends one packet to another.  On the way it *)
(* may be replaced by a datagram of another program that is shorter, or    *)
(* longer, or has another byte; the receiver gets what fits its buffer.    *)
(***************************************************************************)
EXTENDS DemoPrograms

CONSTANTS Byte,         \* the bytes of payloads and of other programs
          Ids,          \* packet identifiers and window sizes
          ChunkSize,    \* PROTOCOL_DATA_CHUNK_SIZE, 1000
          MaxPassword,  \* PROTOCOL_MAX_PASSWORD, 255
          DigestSize,   \* PROTOCOL_DIGEST_SIZE, 20
          RecvBuffer    \* PROTOCOL_RECV_BUFFER, 2048

ASSUME ByteAssumption == Byte \subseteq 0..255 /\ Ids \subseteq Nat
ASSUME SizeAssumption ==
  /\ {ChunkSize, MaxPassword, DigestSize, RecvBuffer} \subseteq Nat
  \* A datagram that recvfrom() cuts is longer than every packet.
  /\ \A n \in {14, 10 + ChunkSize, 6 + MaxPassword, 6 + DigestSize} : RecvBuffer > n

HeaderSize == 6
DataHeaderSize == 10
FeedbackHeaderSize == 14

Code == [JOIN_REQ |-> 1, PASS_REQ |-> 2, PASS_RESP |-> 3, PASS_ACCEPT |-> 4, DATA |-> 5,
         TERMINATE |-> 6, REJECT |-> 7, ACK |-> 8, NACK |-> 9]
ControlTypes == {"JOIN_REQ", "PASS_REQ", "PASS_ACCEPT", "REJECT"}
FeedbackTypes == {"ACK", "NACK"}

\* htons() and htonl(): the first byte is the highest.
U16(n) == <<n \div 256, n % 256>>
U32(n) == U16(n \div 65536) \o U16(n % 65536)
GetU16(b, i) == 256 * b[i + 1] + b[i + 2]
GetU32_Swapped(b, i) == 65536 * GetU16(b, i + 2) + GetU16(b, i)
GetU32(b, i) == 65536 * GetU16(b, i) + GetU16(b, i + 2)

(***************************************************************************)
(* The packets, and their bytes.                                           *)
(***************************************************************************)
ByteStrings(max) == UNION {[1..n -> Byte] : n \in 0..max}

Packets ==
  [type : ControlTypes]
    \cup [type : {"PASS_RESP"}, payload : ByteStrings(MaxPassword)]
    \cup [type : {"DATA"}, id : Ids, payload : ByteStrings(ChunkSize)]
    \cup [type : {"TERMINATE"}, payload : [1..DigestSize -> Byte]]
    \cup [type : FeedbackTypes, id : Ids, window : Ids]

BuildControl(p) == U16(Code[p.type]) \o U32(0)
BuildPassResp(p) == U16(Code.PASS_RESP) \o U32(Len(p.payload)) \o p.payload
BuildData(p) ==
  U16(Code.DATA) \o U32(Len(p.payload)) \o U32(p.id) \o p.payload
BuildTerminate(p) == U16(Code.TERMINATE) \o U32(DigestSize) \o p.payload
BuildFeedback(p) == U16(Code[p.type]) \o U32(8) \o U32(p.id) \o U32(p.window)

Build(p) ==
  CASE p.type \in ControlTypes -> BuildControl(p)
    [] p.type = "PASS_RESP" -> BuildPassResp(p)
    [] p.type = "DATA" -> BuildData(p)
    [] p.type = "TERMINATE" -> BuildTerminate(p)
    [] p.type \in FeedbackTypes -> BuildFeedback(p)

(***************************************************************************)
(* parse_packet().                                                         *)
(***************************************************************************)
NotParsed == [type |-> "none"]
Refused == [type |-> "refused"]

Body(b, from) == SubSeq(b, from + 1, Len(b))

PassRespFits_UpTo(b, n) == n <= MaxPassword /\ Len(b) >= HeaderSize + n
PassRespFits(b, n) == n <= MaxPassword /\ Len(b) = HeaderSize + n
DataFits(b, n) == n <= ChunkSize /\ Len(b) = DataHeaderSize + n

\* The packet in b with the type t and the payload length n, if its length is right.
ParseBody(b, t, n) ==
  CASE t \in ControlTypes /\ n = 0 /\ Len(b) = HeaderSize -> [type |-> t]
    [] t = "PASS_RESP" /\ PassRespFits(b, n) -> [type |-> t, payload |-> Body(b, HeaderSize)]
    [] t = "DATA" /\ DataFits(b, n) ->
         [type |-> t, id |-> GetU32(b, HeaderSize), payload |-> Body(b, DataHeaderSize)]
    [] t = "TERMINATE" /\ n = DigestSize /\ Len(b) = HeaderSize + DigestSize ->
         [type |-> t, payload |-> Body(b, HeaderSize)]
    [] t \in FeedbackTypes /\ n = 8 /\ Len(b) = FeedbackHeaderSize ->
         [type |-> t, id |-> GetU32(b, HeaderSize), window |-> GetU32(b, HeaderSize + 4)]
    [] OTHER -> Refused

\* packet_type_valid()
ValidType(code) == code \in 1..9

Parse(b) ==
  IF Len(b) < HeaderSize \/ Len(b) > RecvBuffer \/ ~ValidType(GetU16(b, 0))
  THEN Refused
  ELSE ParseBody(b, CHOOSE t \in DOMAIN Code : Code[t] = GetU16(b, 0), GetU32(b, 2))

PacketInit ==
  /\ protocol = "packet" /\ scenario = "normal"
  /\ faults \in {f \in DatagramFaults : f \subseteq {"duplicate", "other"}}
  /\ ProgramsInit("receive")
  /\ NoFiles
  \* sent: the packet that is built; wire: the datagram that is received; packet: what
  \* parse_packet() makes of it
  /\ \E p \in Packets : mem = [sent |-> p, wire |-> <<>>, packet |-> NotParsed]

PacketSend ==
  /\ at.client = "start"
  /\ Send("client", <<Build(mem.sent)>>)
  /\ Goto("client", "exit")
  /\ UNCHANGED <<quietVars, mem>>

\* A datagram of another program comes instead.
PacketOther ==
  /\ "other" \in faults /\ Interfere
  /\ \E k \in DOMAIN net.server :
       LET d == net.server[k]
       IN  \/ d # <<>> /\ net' = [net EXCEPT !.server[k] = Front(d)]
           \/ \E b \in Byte : net' = [net EXCEPT !.server[k] = Append(d, b)]
           \/ \E i \in DOMAIN d, b \in Byte : net' = [net EXCEPT !.server[k][i] = b]
  /\ UNCHANGED <<settingVars, at, results, stopped, mem, fileVars>>

\* recvfrom() leaves no more than the buffer takes.
Received(d) == SubSeq(d, 1, IF Len(d) > RecvBuffer THEN RecvBuffer ELSE Len(d))

PacketReceive ==
  /\ at.server = "receive"
  /\ \E i \in Arriving("server") :
       /\ mem' = [mem EXCEPT !.wire = net.server[i], !.packet = Parse(Received(net.server[i]))]
       /\ Exchange("server", i, <<>>)
  /\ Goto("server", "exit")
  /\ UNCHANGED quietVars

-----------------------------------------------------------------------------
\* What is parsed is a packet of the protocol, with a payload that fits the buffers
\* that server.c and client.c have for it.
PacketTypeOK ==
  /\ mem.sent \in Packets
  /\ mem.packet.type \in {"PASS_RESP", "DATA", "TERMINATE"} =>
       Len(mem.packet.payload) <= (CASE mem.packet.type = "PASS_RESP" -> MaxPassword
                                     [] mem.packet.type = "DATA" -> ChunkSize
                                     [] OTHER -> DigestSize)

\* A datagram that a build function wrote is read as the packet it was built of.
ParsedAsSent ==
  protocol = "packet" /\ mem.packet # NotParsed /\ mem.wire = Build(mem.sent) =>
    mem.packet = mem.sent

\* parse_packet() ignores nothing: what it accepts is byte for byte what the build
\* function of its type writes, so a datagram that is cut, has something behind its
\* payload or a length field that disagrees with its length is refused.
NothingIgnored ==
  protocol = "packet" /\ mem.packet \notin {NotParsed, Refused} =>
    Build(mem.packet) = mem.wire

\* Building and parsing are inverse to each other.
ParsedAsBuilt == ParsedAsSent /\ NothingIgnored
=============================================================================
