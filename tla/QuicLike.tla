------------------------------ MODULE QuicLike ------------------------------
(***************************************************************************)
(* quic_demo_server.c and quic_demo_client.c: one handshake, the file in   *)
(* streams that are acknowledged one by one, and a CLOSE with its digest.  *)
(* Nothing is ever retransmitted.  The server sends to whoever sent the    *)
(* last datagram it received, and no connection id is ever compared.       *)
(***************************************************************************)
EXTENDS DemoPrograms

CONSTANTS MaxPayload,  \* QUIC_MAX_PAYLOAD, in units of the file
          Capacity     \* the streams the client has room for (256)

ASSUME QuicAssumption == MaxPayload \in Nat \ {0} /\ Capacity \in Nat

QuicScenarios == {"normal", "zero-rtt-replay-risk", "stream-reorder", "loss-recovery"}

\* The fields of a packet that anyone looks at; a digest is the file itself.
Packet(type, from) == [type |-> type, from |-> from]
AckPacket(from, seq) == [type |-> "ACK", from |-> from, ack |-> seq]
StreamPacket(id, seq, payload) ==
  [type |-> "STREAM", from |-> "server", id |-> id, seq |-> seq, payload |-> payload]
ClosePacket(digest) == [type |-> "CLOSE", from |-> "server", digest |-> digest]

QuicOtherMessages == {Packet("INITIAL", "other"), AckPacket("other", 1)}

QuicInit ==
  /\ protocol = "quic-like"
  /\ scenario \in QuicScenarios
  /\ faults \in DatagramFaults
  /\ ProgramsInit("initial")
  /\ FilesInit
  \* peer: the server's peer_addr; acked: its streams that were acknowledged;
  \* chunks: what the client has stored
  /\ mem = [peer |-> "nobody", acked |-> 0, chunks |-> <<>>]

-----------------------------------------------------------------------------
(***************************************************************************)
(* The streams.  The size is the input file's at the start.  A reordered   *)
(* file is cut in two halves, and the second one is sent first, from a     *)
(* buffer that was filled at the start if the file fits in one payload and *)
(* never otherwise.  Else the file is read while it is sent.               *)
(***************************************************************************)
Reordered == scenario = "stream-reorder" /\ Len(original) > 2

StreamCount ==
  IF Reordered THEN 2 ELSE (Len(original) + MaxPayload - 1) \div MaxPayload

\* The sequence number of the k-th stream to be sent.
StreamSeq(k) == IF Reordered THEN 3 - k ELSE k

\* The part of file that the k-th stream carries, or what there is of it.
Part(file, k) ==
  LET half == Len(original) \div 2
      whole == Len(original)
      last == Min({k * MaxPayload, whole, Len(file)})
  IN  IF Reordered
      THEN IF k = 1 THEN SubSeq(file, whole - half + 1, whole)
                    ELSE SubSeq(file, 1, whole - half)
      ELSE SubSeq(file, (k - 1) * MaxPayload + 1, last)

\* What the k-th stream may carry: file_buf holds anything if nothing was read into it.
Payloads(k) ==
  IF ~Reordered THEN {Part(content, k)}
  ELSE IF Len(original) <= MaxPayload THEN {Part(original, k)}
  ELSE [DOMAIN Part(original, k) -> Data]

\* fread returns less than the size announced.
ShortRead(k) == ~Reordered /\ Len(Part(content, k)) < Len(Part(original, k))

\* A half that does not fit: the checked memcpy of the build ends the program.
HalfTooLong == Reordered /\ Len(Part(original, 2)) > MaxPayload

\* The server has taken its i-th datagram, and k streams are acknowledged.
QuicGoesOn(i, k, peer) ==
  LET ToPeer(m) == IF peer = "client" THEN <<m>> ELSE <<>>
  IN  \/ k = StreamCount
         /\ Exchange("server", i, ToPeer(ClosePacket(original)))
         /\ Finish("server", OK)
      \/ k < StreamCount /\ ~HalfTooLong /\ ~ShortRead(k + 1)
         /\ \E payload \in Payloads(k + 1) :
              Exchange("server", i,
                ToPeer(StreamPacket(IF Reordered /\ k = 0 THEN 3 ELSE 1,
                                    StreamSeq(k + 1), payload)))
         /\ Goto("server", "ack")
      \/ k < StreamCount /\ ShortRead(k + 1)
         /\ Exchange("server", i, <<>>) /\ Finish("server", ABORT)
      \/ k < StreamCount /\ HalfTooLong
         /\ Exchange("server", i, <<>>) /\ Killed("server")

-----------------------------------------------------------------------------
(***************************************************************************)
(* The server.                                                             *)
(***************************************************************************)
QuicServerInitial ==
  /\ at.server = "initial"
  /\ \E i \in Arriving("server") :
       LET m == net.server[i]
           answer == IF m.from = "client" THEN <<Packet("HANDSHAKE", "server")>> ELSE <<>>
       IN  /\ mem' = [mem EXCEPT !.peer = m.from]
           /\ \/ m.type # "INITIAL"
                 /\ Exchange("server", i, <<>>) /\ Finish("server", ABORT)
              \/ m.type = "INITIAL" /\ scenario = "zero-rtt-replay-risk"
                 /\ Exchange("server", i, <<>>) /\ Goto("server", "zero_rtt")
              \/ m.type = "INITIAL" /\ scenario # "zero-rtt-replay-risk"
                 /\ Exchange("server", i, answer) /\ Goto("server", "handshake_ack")
  /\ UNCHANGED quietVars

\* Any packet will do here; only the warning is left out if it is another one.
QuicServerZeroRtt ==
  /\ at.server = "zero_rtt"
  /\ \E i \in Arriving("server") :
       /\ mem' = [mem EXCEPT !.peer = net.server[i].from]
       /\ Exchange("server", i,
            IF mem'.peer = "client" THEN <<Packet("HANDSHAKE", "server")>> ELSE <<>>)
  /\ Goto("server", "handshake_ack")
  /\ UNCHANGED quietVars

QuicServerNoZeroRtt ==
  /\ at.server = "zero_rtt" /\ TimesOut("server")
  /\ Send("server",
       IF mem.peer = "client" THEN <<Packet("HANDSHAKE", "server")>> ELSE <<>>)
  /\ Goto("server", "handshake_ack")
  /\ UNCHANGED <<quietVars, mem>>

QuicServerHandshakeAck ==
  /\ at.server = "handshake_ack"
  /\ \E i \in Arriving("server") :
       LET m == net.server[i]
       IN  /\ mem' = [mem EXCEPT !.peer = m.from]
           /\ \/ m.type = "HANDSHAKE_ACK" /\ QuicGoesOn(i, 0, m.from)
              \/ m.type # "HANDSHAKE_ACK"
                 /\ Exchange("server", i, <<>>) /\ Finish("server", ABORT)
  /\ UNCHANGED quietVars

\* Mutant: any acknowledgement will do.
Acknowledges_Any(m, k) == m.type = "ACK"

\* await_ack
Acknowledges(m, k) == m.type = "ACK" /\ m.ack = StreamSeq(k)

QuicServerAck ==
  /\ at.server = "ack"
  /\ \E i \in Arriving("server") :
       LET m == net.server[i]
           k == mem.acked + 1
       IN  \/ Acknowledges(m, k)
              /\ mem' = [mem EXCEPT !.peer = m.from, !.acked = k]
              /\ QuicGoesOn(i, k, m.from)
           \/ ~Acknowledges(m, k)
              /\ mem' = [mem EXCEPT !.peer = m.from]
              /\ Exchange("server", i, <<>>) /\ Finish("server", ABORT)
  /\ UNCHANGED quietVars

QuicServerFails ==
  /\ at.server \in {"initial", "handshake_ack", "ack"} /\ TimesOut("server")
  /\ Finish("server", ABORT)
  /\ UNCHANGED <<quietVars, net, mem>>

QuicServer ==
  \/ QuicServerInitial \/ QuicServerZeroRtt \/ QuicServerNoZeroRtt
  \/ QuicServerHandshakeAck \/ QuicServerAck \/ QuicServerFails

-----------------------------------------------------------------------------
(***************************************************************************)
(* The client.                                                             *)
(***************************************************************************)
QuicClientStart ==
  /\ at.client = "start"
  /\ Send("client", <<Packet("INITIAL", "client")>> \o
       IF scenario = "zero-rtt-replay-risk" THEN <<Packet("ZERO_RTT", "client")>> ELSE <<>>)
  /\ Goto("client", "handshake")
  /\ UNCHANGED <<quietVars, mem>>

QuicClientHandshake ==
  /\ at.client = "handshake"
  /\ \E i \in Arriving("client") :
       \/ net.client[i].type = "HANDSHAKE"
          /\ Exchange("client", i, <<Packet("HANDSHAKE_ACK", "client")>>)
          /\ Goto("client", "streams")
       \/ net.client[i].type # "HANDSHAKE"
          /\ Exchange("client", i, <<>>) /\ Finish("client", ABORT)
  /\ UNCHANGED <<quietVars, mem>>

\* Mutant: there is always room for a chunk.
QuicStore_NoLimit(chunks, m) ==
  Append(chunks, [id |-> m.id, seq |-> m.seq, payload |-> m.payload])

\* The chunk is kept if there is room, and acknowledged in any case.
QuicStore(chunks, m) ==
  IF Len(chunks) < Capacity
  THEN Append(chunks, [id |-> m.id, seq |-> m.seq, payload |-> m.payload])
  ELSE chunks

QuicClientStream ==
  /\ at.client = "streams"
  /\ \E i \in Arriving("client") :
       /\ net.client[i].type = "STREAM"
       /\ mem' = [mem EXCEPT !.chunks = QuicStore(@, net.client[i])]
       /\ Exchange("client", i, <<AckPacket("client", net.client[i].seq)>>)
  /\ UNCHANGED <<quietVars, at, results>>

\* Mutant: the chunks are written in the order they came in.
ChunkBefore_Never(a, b) == FALSE

\* chunk_cmp
ChunkBefore(a, b) == a.id < b.id \/ (a.id = b.id /\ a.seq < b.seq)

\* A chunk goes in front of the first one that it comes before, or else to the end.
Placed(sorted, chunk) ==
  LET behind == {i \in DOMAIN sorted : ChunkBefore(chunk, sorted[i])}
  IN  InsertAt(sorted, IF behind = {} THEN Len(sorted) + 1 ELSE Min(behind), chunk)

\* qsort; chunks that compare as equal are copies of one datagram.
Sorted(chunks) ==
  LET first[n \in 0..Len(chunks)] ==
        IF n = 0 THEN <<>> ELSE Placed(first[n - 1], chunks[n])
  IN  first[Len(chunks)]

Assembled(chunks) ==
  LET sorted == Sorted(chunks)
  IN  FlattenSeq([i \in DOMAIN sorted |-> sorted[i].payload])

QuicClientClose ==
  /\ at.client = "streams"
  /\ \E i \in Arriving("client") :
       LET m == net.client[i]
       IN  /\ m.type = "CLOSE"
           /\ written' = Assembled(mem.chunks)
           /\ \/ written' = m.digest /\ Publish(written') /\ Finish("client", OK)
              \/ written' # m.digest /\ UNCHANGED committed /\ Finish("client", ABORT)
           /\ Exchange("client", i, <<>>)
  /\ UNCHANGED <<settledVars, mem>>

QuicClientIgnores ==
  /\ at.client = "streams"
  /\ \E i \in Arriving("client") :
       /\ net.client[i].type \notin {"STREAM", "CLOSE"}
       /\ Exchange("client", i, <<>>)
  /\ UNCHANGED <<quietVars, at, results, mem>>

\* A receive fails, or a signal has come since the last one.
QuicClientFails ==
  /\ at.client \in {"handshake", "streams"} /\ TimesOut("client")
  /\ Finish("client", ABORT)
  /\ UNCHANGED <<quietVars, net, mem>>

QuicClient ==
  \/ QuicClientStart \/ QuicClientHandshake \/ QuicClientStream
  \/ QuicClientClose \/ QuicClientIgnores \/ QuicClientFails

QuicNext == QuicServer \/ QuicClient
=============================================================================
