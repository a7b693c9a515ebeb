----------------------- MODULE ReliableTransferProofs -----------------------
(***************************************************************************)
(* Proofs about ReliableTransfer, for every file, window and environment.  *)
(***************************************************************************)
EXTENDS ReliableTransfer, SequenceTheorems, TLAPS

(***************************************************************************)
(* The operators.                                                          *)
(***************************************************************************)

\* A chunk's contents are data, and sending chunks puts DATA packets of them on
\* the wire and nothing else.
LEMMA ChunkData ==
  ASSUME chunks \in Files
  PROVE  /\ Count \in Nat
         /\ \A i \in ChunkIds : chunks[i + 1] \in Data
<1>1. chunks \in Seq(Data)
  BY FilesAssumption
<1>2. QED
  BY <1>1, LenProperties, ElementOfSeq DEF Count, ChunkIds

LEMMA OnWireType ==
  ASSUME chunks \in Files, NEW I, I \subseteq ChunkIds
  PROVE  OnWire(I) \subseteq ToClientPackets
BY ChunkData DEF OnWire, DataPacket, ToClientPackets, ChunkIds, Count

\* A receiver keeps the rest of the datagrams, whether or not m stays.
LEMMA AfterSubset ==
  ASSUME NEW channel, NEW m, NEW rest \in After(channel, m)
  PROVE  rest \subseteq channel
BY DEF After

\* What client.c has present after storing a DATA packet.
LEMMA StoredType ==
  ASSUME TypeOK, NEW m \in toClient, m.type = "DATA"
  PROVE  /\ m.id \in ChunkIds /\ m.data \in Data
         /\ DOMAIN Stored(m) = DOMAIN buffered \cup {m.id}
         /\ DOMAIN Stored(m) \subseteq ChunkIds
         /\ \A i \in DOMAIN Stored(m) : Stored(m)[i] \in Data
<1>1. m \in ToClientPackets /\ m.type = "DATA"
  BY DEF TypeOK
<1>2. m \in [type : {"DATA"}, id : ChunkIds, data : Data]
  BY <1>1 DEF ToClientPackets, PassAccept, PassReq
<1>3. m.id \in ChunkIds /\ m.data \in Data
  BY <1>2
<1>4. QED
  BY <1>3 DEF Stored, TypeOK

(***************************************************************************)
(* Type correctness.                                                       *)
(***************************************************************************)
LEMMA TypeInit == Init => TypeOK
<1> SUFFICES ASSUME Init PROVE TypeOK
  OBVIOUS
<1>1. Count \in Nat
  BY ChunkData DEF Init
<1>2. out \in Seq(Data) /\ committed \in Seq(Seq(Data))
  BY EmptySeq DEF Init
<1>3. toClient \subseteq ToClientPackets /\ toServer \subseteq ToServerPackets
  BY DEF Init, ToClientPackets, ToServerPackets
<1>4. lost \in 0..MaxLoss
  BY EnvironmentAssumption DEF Init
<1>5. QED
  BY <1>1, <1>2, <1>3, <1>4 DEF Init, TypeOK, ServerStates, ClientStates, ChunkIds

\* What SendOrHold changes keeps its type.
LEMMA SendOrHoldType ==
  ASSUME TypeOK, NEW i \in ChunkIds, SendOrHold(i)
  PROVE  /\ sent' \subseteq ChunkIds
         /\ held' \subseteq ChunkIds
         /\ toClient' \subseteq ToClientPackets
<1>1. OnWire({i}) \subseteq ToClientPackets
  BY OnWireType DEF TypeOK
<1>2. QED
  BY <1>1 DEF SendOrHold, Send, TypeOK

LEMMA TypeServer ==
  ASSUME TypeOK,
         ServerStep \/ (\E m \in toServer : ServerFeedback(m))
           \/ ServerStop \/ ServerFails \/ ServerKilled
  PROVE  TypeOK'
<1>1. Count \in Nat /\ ChunkIds = 0..(Count - 1) /\ base \in 0..Count /\ next \in Nat
  BY ChunkData DEF TypeOK, ChunkIds
<1>2. UNCHANGED chunks => Count' = Count /\ ChunkIds' = ChunkIds
                          /\ ToClientPackets' = ToClientPackets
  BY DEF Count, ChunkIds, ToClientPackets, PassAccept, PassReq
<1>. USE DEF clientVars, ServerStates, Finished
<1>3. CASE ServerLoop
  BY <1>2, <1>3 DEF ServerLoop, TypeOK
<1>4. CASE ServerFill
  <2>1. next \in ChunkIds
    BY <1>1, <1>4 DEF ServerFill, WindowOpen
  <2>2. sent' \subseteq ChunkIds /\ held' \subseteq ChunkIds
        /\ toClient' \subseteq ToClientPackets
    BY <1>4, <2>1, SendOrHoldType DEF ServerFill
  <2>3. QED
    BY <1>2, <1>4, <2>2 DEF ServerFill, TypeOK
<1>5. CASE ServerRelease
  <2>1. OnWire(Releasable) \subseteq ToClientPackets
    BY OnWireType DEF TypeOK, Releasable
  <2>2. QED
    BY <1>2, <1>5, <2>1 DEF ServerRelease, Send, Releasable, TypeOK
<1>6. CASE ServerNoFeedback
  BY <1>2, <1>6 DEF ServerNoFeedback, TypeOK
<1>7. CASE ServerTerminate
  <2>1. CASE terms < 3
    <3>1. Terminate(terms) \in ToClientPackets
      BY <2>1 DEF Terminate, ToClientPackets, TypeOK
    <3>2. QED
      BY <1>2, <1>7, <2>1, <3>1 DEF ServerTerminate, TerminateCopies, TypeOK
  <2>2. CASE ~(terms < 3)
    BY <1>2, <1>7, <2>2 DEF ServerTerminate, TerminateCopies, TypeOK
  <2>3. QED
    BY <2>1, <2>2
<1>8. ASSUME NEW I \in SUBSET Outstanding, ServerRetransmit(I)
      PROVE  TypeOK'
  <2>1. I \subseteq ChunkIds
    BY DEF Outstanding, TypeOK
  <2>2. OnWire(I) \subseteq ToClientPackets
    BY <2>1, OnWireType DEF TypeOK
  <2>3. QED
    BY <1>2, <1>8, <2>1, <2>2 DEF ServerRetransmit, Send, TypeOK
<1>9. ASSUME NEW m \in toServer, ServerReceiveAck(m)
      PROVE  TypeOK'
  <2>1. m.id \in Nat
    BY <1>9 DEF ServerReceiveAck, TypeOK, ToServerPackets, PassResp, JoinReq
  <2>2. acked' \subseteq ChunkIds /\ base' \in 0..Count
    <3>1. PICK upto \in 0..Count : acked' = acked \cup base..(upto - 1)
      BY <1>1, <1>9, <2>1 DEF ServerReceiveAck
    <3>2. acked \subseteq ChunkIds /\ base..(upto - 1) \subseteq ChunkIds
      BY <1>1 DEF TypeOK
    <3>3. base' \in base..Count
      BY <1>9 DEF ServerReceiveAck
    <3>4. QED
      BY <1>1, <3>1, <3>2, <3>3
  <2>3. toServer' \subseteq toServer
    BY <1>9, AfterSubset DEF ServerReceiveAck
  <2>4. QED
    BY <1>2, <1>9, <2>2, <2>3 DEF ServerReceiveAck, TypeOK
<1>10. ASSUME NEW m \in toServer, ServerReceiveNack(m)
       PROVE  TypeOK'
  <2>1. m.id \in Nat
    BY <1>10 DEF ServerReceiveNack, TypeOK, ToServerPackets, PassResp, JoinReq
  <2>2. toServer' \subseteq toServer
    BY <1>10, AfterSubset DEF ServerReceiveNack
  <2>3. sent' \subseteq ChunkIds /\ held' \subseteq ChunkIds
        /\ toClient' \subseteq ToClientPackets
    <3>1. CASE m.id < Count /\ m.id \notin acked
      BY <1>1, <1>10, <2>1, <3>1, SendOrHoldType DEF ServerReceiveNack
    <3>2. CASE ~(m.id < Count /\ m.id \notin acked)
      BY <1>10, <3>2 DEF ServerReceiveNack, TypeOK
    <3>3. QED
      BY <3>1, <3>2
  <2>4. QED
    BY <1>2, <1>10, <2>2, <2>3 DEF ServerReceiveNack, TypeOK
<1>11. ASSUME NEW m \in toServer, ServerIgnore(m)
       PROVE  TypeOK'
  <2>1. toServer' \subseteq toServer
    BY <1>11, AfterSubset DEF ServerIgnore
  <2>2. QED
    BY <1>2, <1>11, <2>1 DEF ServerIgnore, TypeOK
<1>12. CASE ServerStop \/ ServerFails \/ ServerKilled
  BY <1>2, <1>12 DEF ServerStop, ServerFails, ServerKilled, TypeOK
<1>13. QED
  BY <1>3, <1>4, <1>5, <1>6, <1>7, <1>8, <1>9, <1>10, <1>11, <1>12
     DEF ServerStep, ServerFeedback

\* What writing the chunks up to upto does to the client's variables.
LEMMA WrittenType ==
  ASSUME TypeOK, NEW m \in toClient, m.type = "DATA", NEW upto,
         upto \in {expected} \cup {i + 1 : i \in DOMAIN Stored(m)},
         Drained(DOMAIN Stored(m), upto),
         NEW new, new = [k \in 1..(upto - expected) |-> Stored(m)[expected + k - 1]]
  PROVE  /\ upto \in Nat /\ upto - expected \in Nat
         /\ new \in Seq(Data) /\ Len(new) = upto - expected
<1>1. Count \in Nat /\ ChunkIds = 0..(Count - 1) /\ expected \in Nat
  BY ChunkData DEF TypeOK, ChunkIds
<1>2. DOMAIN Stored(m) \subseteq ChunkIds
      /\ \A i \in DOMAIN Stored(m) : Stored(m)[i] \in Data
  BY StoredType
<1>3. upto \in Nat /\ upto - expected \in Nat
  BY <1>1, <1>2 DEF Drained
<1>4. \A k \in 1..(upto - expected) : expected + k - 1 \in DOMAIN Stored(m)
  BY <1>1, <1>3 DEF Drained
<1>5. new \in [1..(upto - expected) -> Data]
  BY <1>2, <1>4
<1>6. new \in Seq(Data)
  BY <1>3, <1>5, SeqDef
<1>7. Len(new) = upto - expected
  BY <1>3, <1>5, <1>6, LenProperties
<1>8. QED
  BY <1>3, <1>6, <1>7

LEMMA TypeClient ==
  ASSUME TypeOK,
         (\E m \in toClient : ClientReceive(m))
           \/ ClientTimeout \/ ClientFails \/ ClientKilled
  PROVE  TypeOK'
<1>1. UNCHANGED chunks => Count' = Count /\ ChunkIds' = ChunkIds
                          /\ ToClientPackets' = ToClientPackets
  BY DEF Count, ChunkIds, ToClientPackets, PassAccept, PassReq
<1>2. \A n \in Nat : {Ack(n), Nack(n), PassResp} \subseteq ToServerPackets
  BY DEF Ack, Nack, ToServerPackets
<1>3. ToServerPackets' = ToServerPackets
  BY DEF ToServerPackets, PassResp, JoinReq
<1>. USE DEF serverVars, ClientStates, Finished
<1>4. ASSUME NEW m \in toClient, ClientAccept(m)
      PROVE  TypeOK'
  BY <1>1, <1>4, AfterSubset DEF ClientAccept, TypeOK
<1>5. ASSUME NEW m \in toClient, ClientAnswer(m)
      PROVE  TypeOK'
  <2>1. toServer' \subseteq ToServerPackets /\ toClient' \subseteq toClient
    BY <1>2, <1>5, AfterSubset DEF ClientAnswer, TypeOK
  <2>2. QED
    BY <1>1, <1>5, <2>1, <1>3 DEF ClientAnswer, TypeOK
<1>6. ASSUME NEW m \in toClient, ClientUnexpected(m)
      PROVE  TypeOK'
  BY <1>1, <1>6, AfterSubset DEF ClientUnexpected, TypeOK
<1>7. ASSUME NEW m \in toClient, ClientDuplicate(m)
      PROVE  TypeOK'
  <2>1. toServer' \subseteq ToServerPackets /\ toClient' \subseteq toClient
    BY <1>2, <1>7, AfterSubset DEF ClientDuplicate, TypeOK
  <2>2. QED
    BY <1>1, <1>7, <2>1, <1>3 DEF ClientDuplicate, TypeOK
<1>8. ASSUME NEW m \in toClient, ClientData(m)
      PROVE  TypeOK'
  <2>1. m.type = "DATA"
    BY <1>8 DEF ClientData
  <2>2. m.id \in ChunkIds /\ DOMAIN Stored(m) \subseteq ChunkIds
        /\ \A i \in DOMAIN Stored(m) : Stored(m)[i] \in Data
    BY <2>1, StoredType
  <2>3. PICK upto \in {expected} \cup {i + 1 : i \in DOMAIN Stored(m)} :
          /\ Drained(DOMAIN Stored(m), upto)
          /\ out' = out \o [k \in 1..(upto - expected) |-> Stored(m)[expected + k - 1]]
          /\ buffered' = [i \in DOMAIN Stored(m) \ (expected..(upto - 1)) |-> Stored(m)[i]]
          /\ expected' = upto
          /\ toServer' = toServer \cup {Ack(upto)}
               \cup (IF m.id > expected THEN {Nack(Missing(m))} ELSE {})
    BY <1>8 DEF ClientData
  <2>4. upto \in Nat /\ out' \in Seq(Data)
    BY <2>1, <2>3, WrittenType, ConcatProperties DEF TypeOK
  <2>5. toServer' \subseteq ToServerPackets
    BY <1>2, <2>3, <2>4 DEF Missing, TypeOK
  <2>6. DOMAIN buffered' \subseteq ChunkIds
        /\ \A i \in DOMAIN buffered' : buffered'[i] \in Data
    BY <2>2, <2>3
  <2>7. toClient' \subseteq toClient
    BY <1>8, AfterSubset DEF ClientData
  <2>8. QED
    BY <1>1, <1>3, <1>8, <2>3, <2>4, <2>5, <2>6, <2>7 DEF ClientData, TypeOK
<1>9. ASSUME NEW m \in toClient, ClientTerminate(m)
      PROVE  TypeOK'
  <2>1. toServer' \subseteq ToServerPackets /\ toClient' \subseteq toClient
    BY <1>2, <1>9, AfterSubset DEF ClientTerminate, TypeOK
  <2>2. committed' \in Seq(Seq(Data))
    BY SMTT(60), <1>9, AppendProperties DEF ClientTerminate, TypeOK
  <2>3. QED
    BY <1>1, <1>3, <1>9, <2>1, <2>2 DEF ClientTerminate, TypeOK
<1>10. CASE ClientTimeout \/ ClientFails \/ ClientKilled
  BY <1>1, <1>10 DEF ClientTimeout, ClientFails, ClientKilled, TypeOK
<1>11. QED
  BY <1>4, <1>5, <1>6, <1>7, <1>8, <1>9, <1>10 DEF ClientReceive

\* The type invariant of every behaviour of both programs.
THEOREM TypeCorrect == Spec => []TypeOK
<1>1. TypeOK /\ [Next]_vars => TypeOK'
  <2> SUFFICES ASSUME TypeOK, [Next]_vars PROVE TypeOK'
    OBVIOUS
  <2>1. ASSUME UNCHANGED vars PROVE TypeOK'
    BY <2>1 DEF vars, TypeOK, Count, ChunkIds, ToClientPackets, PassAccept, PassReq,
                ToServerPackets, PassResp, JoinReq, ClientStates, Finished, ServerStates
  <2>2. ASSUME Lose PROVE TypeOK'
    <3>1. toClient' \subseteq toClient /\ toServer' \subseteq toServer
      BY <2>2 DEF Lose
    <3>2. lost' \in 0..MaxLoss
      BY <2>2, EnvironmentAssumption DEF Lose, TypeOK
    <3>3. QED
      BY <2>2, <3>1, <3>2
         DEF Lose, TypeOK, serverVars, clientVars, Count, ChunkIds, ToClientPackets,
             PassAccept, PassReq, ToServerPackets, PassResp, JoinReq, ClientStates,
             Finished, ServerStates
  <2>3. QED
    BY <2>1, <2>2, TypeServer, TypeClient DEF Next, Exited
<1>2. QED
  BY TypeInit, <1>1, PTL DEF Spec

(***************************************************************************)
(* The inductive invariant.                                                *)
(***************************************************************************)
LEMMA InitIInv == Init => IInv
<1> SUFFICES ASSUME Init PROVE IInv
  OBVIOUS
<1>1. Count \in Nat
  BY ChunkData DEF Init
<1>2. Len(out) = 0
  BY DEF Init
<1>3. DOMAIN buffered = {}
  BY DEF Init
<1>4. PacketsTruthful
  BY DEF Init, PacketsTruthful, PassAccept, PassReq, PassResp, JoinReq
<1>5. QED
  BY <1>1, <1>2, <1>3, <1>4
     DEF Init, IInv, AckedPrefix, SentInWindow, HeldOnlyNext, WrittenPrefix,
         BufferedAhead, TerminateLast, CommittedOnce, OutputIsWholeFile, ServerStates

\* Arithmetic facts that every step uses.
LEMMA Numbers ==
  ASSUME TypeOK, IInv
  PROVE  /\ Count \in Nat /\ ChunkIds = 0..(Count - 1)
         /\ base \in Nat /\ next \in Nat /\ expected \in Nat /\ Window \in Nat \ {0}
         /\ base <= next /\ next <= Count /\ base <= expected /\ expected <= Count
         /\ acked = 0..(base - 1)
         /\ sent \subseteq ChunkIds
BY ChunkData, WindowAssumption
   DEF TypeOK, IInv, AckedPrefix, SentInWindow, WrittenPrefix, ChunkIds

\* Sending again what may be sent leaves the packets in flight truthful.
LEMMA SendTruthful ==
  ASSUME PacketsTruthful, NEW I, I \subseteq sent', sent \subseteq sent',
         toClient' = toClient \cup OnWire(I), toServer' \subseteq toServer,
         UNCHANGED <<digest, chunks, base, expected>>
  PROVE  PacketsTruthful'
<1>1. Count' = Count
  BY DEF Count
<1>2. \A m \in OnWire(I) : m.type = "DATA" /\ m.id \in I /\ m.data = chunks[m.id + 1]
  BY DEF OnWire, DataPacket
<1>3. QED
  BY <1>1, <1>2 DEF PacketsTruthful

\* A step that changes no more than where a program is and what is in flight.
LEMMA QuietStep ==
  ASSUME TypeOK, IInv,
         UNCHANGED <<digest, chunks, base, next, acked, sent, held,
                     expected, buffered, out, committed>>,
         server' = server \/ server' \in Finished \ {"ok"},
         client' \in ClientStates => client \in ClientStates,
         toClient' \subseteq toClient,
         \A m \in toServer' \ toServer :
            m.type \in {"ACK", "PASS_RESP"} /\ (m.type = "ACK" => m.id = expected)
  PROVE  IInv'
<1>1. Count' = Count /\ (WindowOpen' <=> WindowOpen)
  BY DEF Count, WindowOpen
<1>2. PacketsTruthful'
  BY <1>1 DEF TypeOK, IInv, PacketsTruthful
<1>3. QED
  BY <1>1, <1>2
     DEF IInv, AckedPrefix, SentInWindow, HeldOnlyNext, WrittenPrefix, BufferedAhead,
         TerminateLast, CommittedOnce, OutputIsWholeFile, ServerStates, Finished, Count

LEMMA IInvServer ==
  ASSUME TypeOK, IInv, ServerStep \/ ServerStop \/ ServerFails \/ ServerKilled
  PROVE  IInv'
<1>1. UNCHANGED chunks => Count' = Count
  BY DEF Count
<1>2. UNCHANGED <<client, committed, digest>> /\ CommittedOnce => CommittedOnce'
  BY DEF CommittedOnce, OutputIsWholeFile
<1>. USE Numbers
<1>. USE DEF clientVars
<1>3. CASE ServerLoop
  <2>1. UNCHANGED <<digest, chunks, base, next, acked, sent, held, client, expected,
                    buffered, out, committed, toClient, toServer>>
        /\ server = "loop" /\ server' \in {"fill", "terminate"}
        /\ (server' = "terminate" => base = Count)
    BY <1>3 DEF ServerLoop, Unfinished
  <2>2. PacketsTruthful'
    BY <1>1, <2>1 DEF IInv, PacketsTruthful
  <2>3. QED
    BY <1>1, <1>2, <2>1, <2>2
       DEF IInv, AckedPrefix, SentInWindow, HeldOnlyNext, WrittenPrefix, BufferedAhead,
           TerminateLast, ServerStates
<1>4. CASE ServerFill
  <2>1. /\ server = "fill" /\ server' = "release" /\ WindowOpen /\ held = {}
        /\ SendOrHold(next) /\ next \notin sent
        /\ UNCHANGED <<digest, chunks, base, next, acked, client, expected, buffered,
                       out, committed, toServer>>
    BY <1>4 DEF ServerFill, IInv, HeldOnlyNext, SentInWindow, ServerStates
  <2>2. /\ sent \subseteq sent' /\ sent' \subseteq sent \cup {next}
        /\ held' \subseteq {next} /\ next \in sent' \cup held'
    BY <2>1 DEF SendOrHold, Send
  <2>3. PacketsTruthful'
    <3>1. CASE HoldsBack(next)
      BY <1>1, <2>1, <3>1 DEF IInv, PacketsTruthful, SendOrHold
    <3>2. CASE ~HoldsBack(next)
      BY <2>1, <3>2, SendTruthful DEF IInv, SendOrHold, Send
    <3>3. QED
      BY <3>1, <3>2
  <2>4. AckedPrefix' /\ WrittenPrefix' /\ BufferedAhead' /\ TerminateLast'
    BY <1>1, <2>1, <2>2 DEF IInv, AckedPrefix, WrittenPrefix, BufferedAhead, TerminateLast
  <2>5. SentInWindow' /\ HeldOnlyNext'
    BY <1>1, <2>1, <2>2 DEF IInv, SentInWindow, HeldOnlyNext, WindowOpen, ServerStates
  <2>6. QED
    BY <1>2, <2>1, <2>3, <2>4, <2>5 DEF IInv
<1>5. CASE ServerRelease
  <2>1. /\ server = "release" /\ server' = "fill" /\ WindowOpen /\ held \subseteq {next}
        /\ next' = next + 1 /\ sent' = sent \cup Releasable
        /\ held' = held \ Releasable
        /\ toClient' = toClient \cup OnWire(Releasable)
        /\ UNCHANGED <<digest, chunks, base, acked, client, expected, buffered,
                       out, committed, toServer>>
    BY <1>5 DEF ServerRelease, Send, IInv, HeldOnlyNext, SentInWindow
  <2>2. Releasable = held
    BY <2>1 DEF Releasable
  <2>3. PacketsTruthful'
    BY <2>1, SendTruthful DEF IInv
  <2>4. AckedPrefix' /\ WrittenPrefix' /\ BufferedAhead' /\ TerminateLast'
    BY <1>1, <2>1 DEF IInv, AckedPrefix, WrittenPrefix, BufferedAhead, TerminateLast
  <2>5. SentInWindow' /\ HeldOnlyNext'
    <3>1. /\ next < Count /\ next < base + Window
          /\ 0..(next - 1) \subseteq sent /\ next \in sent \cup held
          /\ \A i \in sent : i <= next /\ i < base + Window
      BY <2>1 DEF IInv, SentInWindow, WindowOpen
    <3>2. sent' = sent \cup held /\ held' = {} /\ held \subseteq {next}
      BY <2>1, <2>2
    <3>3. \A i \in sent' : i <= next /\ i < base + Window
      BY <3>1, <3>2
    <3>4. 0..next \subseteq sent'
      BY <3>1, <3>2
    <3>5. QED
      BY <1>1, <2>1, <3>1, <3>2, <3>3, <3>4 DEF SentInWindow, HeldOnlyNext, ServerStates
  <2>6. QED
    BY <1>2, <2>1, <2>3, <2>4, <2>5 DEF IInv
<1>6. CASE ServerNoFeedback
  <2>1. PacketsTruthful'
    BY <1>1, <1>6 DEF ServerNoFeedback, IInv, PacketsTruthful
  <2>2. QED
    BY <1>1, <1>2, <1>6, <2>1
       DEF ServerNoFeedback, AwaitsFeedback, IInv, AckedPrefix, SentInWindow, HeldOnlyNext,
           WrittenPrefix, BufferedAhead, TerminateLast, ServerStates
<1>7. CASE ServerTerminate
  <2>1. /\ server = "terminate" /\ server' \in {"terminate", "ok"} /\ base = Count
        /\ toClient' \subseteq toClient \cup {Terminate(terms)}
        /\ UNCHANGED <<digest, chunks, base, next, acked, sent, held, client, expected,
                       buffered, out, committed, toServer>>
    BY <1>7 DEF ServerTerminate, IInv, TerminateLast
  <2>2. PacketsTruthful'
    BY <1>1, <2>1 DEF IInv, PacketsTruthful, Terminate
  <2>3. QED
    BY <1>1, <1>2, <2>1, <2>2
       DEF IInv, AckedPrefix, SentInWindow, HeldOnlyNext, WrittenPrefix, BufferedAhead,
           TerminateLast, ServerStates
<1>8. ASSUME NEW I \in SUBSET Outstanding, ServerRetransmit(I)
      PROVE  IInv'
  <2>1. /\ server = "retransmit" /\ server' = "loop" /\ I \subseteq sent /\ sent' = sent
        /\ toClient' = toClient \cup OnWire(I)
        /\ UNCHANGED <<digest, chunks, base, next, acked, held, client, expected,
                       buffered, out, committed, toServer>>
    BY <1>8 DEF ServerRetransmit, Outstanding, Send
  <2>2. PacketsTruthful'
    BY <2>1, SendTruthful DEF IInv
  <2>3. QED
    BY <1>1, <1>2, <2>1, <2>2
       DEF IInv, AckedPrefix, SentInWindow, HeldOnlyNext, WrittenPrefix, BufferedAhead,
           TerminateLast, ServerStates
<1>9. CASE ServerStop \/ ServerFails \/ ServerKilled
  BY <1>9, QuietStep DEF ServerStop, ServerFails, ServerKilled, Finished
<1>10. QED
  BY <1>3, <1>4, <1>5, <1>6, <1>7, <1>8, <1>9 DEF ServerStep

LEMMA IInvFeedback ==
  ASSUME TypeOK, IInv, NEW m \in toServer, ServerFeedback(m)
  PROVE  IInv'
<1>1. UNCHANGED chunks => Count' = Count
  BY DEF Count
<1>2. UNCHANGED <<client, committed, digest>> /\ CommittedOnce => CommittedOnce'
  BY DEF CommittedOnce, OutputIsWholeFile
<1>3. server = "fill" /\ held = {} /\ next \notin sent
  BY DEF ServerFeedback, ServerReceiveAck, ServerReceiveNack, ServerIgnore, AwaitsFeedback,
         IInv, HeldOnlyNext, SentInWindow, ServerStates
<1>. USE Numbers
<1>. USE DEF clientVars
<1>4. CASE ServerReceiveAck(m)
  <2>1. /\ m.type = "ACK" /\ server' = "retransmit" /\ toServer' \subseteq toServer
        /\ UNCHANGED <<digest, chunks, next, sent, held, client, expected, buffered,
                       out, committed, toClient>>
    BY <1>4, AfterSubset DEF ServerReceiveAck
  <2>2. m.id \in Nat /\ m.id <= expected
    BY <2>1 DEF IInv, PacketsTruthful, TypeOK, ToServerPackets, PassResp, JoinReq
  <2>3. acked' = acked \cup base..(m.id - 1)
    BY <1>4, <2>2 DEF ServerReceiveAck
  <2>4. PICK b \in base..Count : Advanced(b, acked') /\ base' = b
    BY <1>4 DEF ServerReceiveAck
  <2>5. base <= base' /\ base' <= expected /\ acked' = 0..(base' - 1)
    <3>1. CASE m.id <= base
      <4>1. acked' = 0..(base - 1)
        BY <2>2, <2>3, <3>1
      <4>2. b = base
        BY <2>4, <4>1 DEF Advanced
      <4>3. QED
        BY <2>4, <4>1, <4>2
    <3>2. CASE m.id > base
      <4>1. acked' = 0..(m.id - 1)
        BY <2>2, <2>3, <3>2
      <4>2. b = m.id
        <5>1. b <= m.id
          BY <2>2, <2>4, <3>2, <4>1 DEF Advanced
        <5>2. b >= m.id
          BY <2>2, <2>4, <3>2, <4>1 DEF Advanced
        <5>3. QED
          BY <2>2, <5>1, <5>2
      <4>3. QED
        BY <2>2, <2>4, <3>2, <4>1, <4>2
    <3>3. QED
      BY <2>2, <3>1, <3>2
  <2>6. expected <= next
    BY <1>3 DEF IInv, WrittenPrefix
  <2>7. base' \in Nat /\ base' <= next /\ (base = Count => base' = Count)
    BY <2>4, <2>5, <2>6
  <2>8. AckedPrefix' /\ SentInWindow' /\ HeldOnlyNext' /\ TerminateLast'
    BY SMTT(60), <1>1, <1>3, <2>1, <2>5, <2>7
       DEF IInv, AckedPrefix, SentInWindow, HeldOnlyNext, TerminateLast, ServerStates
  <2>9. WrittenPrefix' /\ BufferedAhead'
    BY <1>1, <2>1, <2>5 DEF IInv, WrittenPrefix, BufferedAhead
  <2>10. PacketsTruthful'
    BY <1>1, <2>1, <2>7 DEF IInv, PacketsTruthful
  <2>11. QED
    BY <1>2, <2>1, <2>8, <2>9, <2>10 DEF IInv
<1>5. CASE ServerReceiveNack(m)
  <2>1. /\ m.type = "NACK" /\ server' = "retransmit" /\ toServer' \subseteq toServer
        /\ UNCHANGED <<digest, chunks, base, next, acked, client, expected, buffered,
                       out, committed>>
    BY <1>5, AfterSubset DEF ServerReceiveNack
  <2>2. m.id \in sent
    BY <2>1 DEF IInv, PacketsTruthful
  <2>3. UNCHANGED <<sent, held>>
        /\ (toClient' = toClient \cup OnWire({m.id}) \/ toClient' = toClient \cup OnWire({}))
    <3>1. CASE m.id < Count /\ m.id \notin acked
      <4>1. ~HoldsBack(m.id)
        BY <2>2 DEF HoldsBack
      <4>2. QED
        BY <1>5, <2>2, <3>1, <4>1 DEF ServerReceiveNack, SendOrHold, Send
    <3>2. CASE ~(m.id < Count /\ m.id \notin acked)
      BY <1>5, <3>2 DEF ServerReceiveNack, OnWire
    <3>3. QED
      BY <3>1, <3>2
  <2>4. PacketsTruthful'
    BY SMTT(60), <2>1, <2>2, <2>3, SendTruthful DEF IInv
  <2>5. QED
    BY <1>1, <1>2, <1>3, <2>1, <2>3, <2>4
       DEF IInv, AckedPrefix, SentInWindow, HeldOnlyNext, WrittenPrefix, BufferedAhead,
           TerminateLast, ServerStates
<1>6. CASE ServerIgnore(m)
  <2>1. /\ server' = "retransmit" /\ toServer' \subseteq toServer
        /\ UNCHANGED <<digest, chunks, base, next, acked, sent, held, client, expected,
                       buffered, out, committed, toClient>>
    BY <1>6, AfterSubset DEF ServerIgnore
  <2>2. PacketsTruthful'
    BY <1>1, <2>1 DEF IInv, PacketsTruthful
  <2>3. QED
    BY <1>1, <1>2, <1>3, <2>1, <2>2
       DEF IInv, AckedPrefix, SentInWindow, HeldOnlyNext, WrittenPrefix, BufferedAhead,
           TerminateLast, ServerStates
<1>7. QED
  BY <1>4, <1>5, <1>6 DEF ServerFeedback

\* An element of a concatenation.
LEMMA ConcatAt ==
  ASSUME NEW S, NEW s \in Seq(S), NEW t \in Seq(S), NEW i \in 1..(Len(s) + Len(t))
  PROVE  (s \o t)[i] = IF i <= Len(s) THEN s[i] ELSE t[i - Len(s)]
BY ConcatProperties

LEMMA IInvClientData ==
  ASSUME TypeOK, IInv, NEW m \in toClient, ClientData(m)
  PROVE  IInv'
<1>1. /\ m.type = "DATA" /\ m.id >= expected /\ client = "transfer"
      /\ toClient' \subseteq toClient
      /\ UNCHANGED <<digest, chunks, server, base, next, acked, sent, held, client, committed>>
  BY AfterSubset DEF ClientData, serverVars
<1>2. Count' = Count /\ (WindowOpen' <=> WindowOpen)
  BY <1>1 DEF Count, WindowOpen
<1>. USE Numbers
<1>3. m.id \in sent /\ m.data = chunks[m.id + 1]
  BY <1>1 DEF IInv, PacketsTruthful
<1>4. /\ DOMAIN Stored(m) = DOMAIN buffered \cup {m.id}
      /\ DOMAIN Stored(m) \subseteq sent
      /\ \A i \in DOMAIN Stored(m) : i >= expected /\ Stored(m)[i] = chunks[i + 1]
  BY <1>1, <1>3 DEF Stored, IInv, BufferedAhead
<1>5. PICK upto \in {expected} \cup {i + 1 : i \in DOMAIN Stored(m)} :
        /\ Drained(DOMAIN Stored(m), upto)
        /\ out' = out \o [k \in 1..(upto - expected) |-> Stored(m)[expected + k - 1]]
        /\ buffered' = [i \in DOMAIN Stored(m) \ (expected..(upto - 1)) |-> Stored(m)[i]]
        /\ expected' = upto
        /\ toServer' = toServer \cup {Ack(upto)}
             \cup (IF m.id > expected THEN {Nack(Missing(m))} ELSE {})
  BY DEF ClientData
<1>6. upto \in Nat /\ expected <= upto /\ upto <= Count
  BY <1>4, <1>5 DEF Drained
<1>. DEFINE new == [k \in 1..(upto - expected) |-> Stored(m)[expected + k - 1]]
<1>7. new \in Seq(Data) /\ Len(new) = upto - expected /\ out \in Seq(Data)
  BY <1>1, <1>5, WrittenType DEF TypeOK
<1>. HIDE DEF new
<1>8. Len(out) = expected
  BY DEF IInv, WrittenPrefix
<1>9. Len(out') = upto
  BY <1>5, <1>6, <1>7, <1>8, ConcatProperties DEF new
<1>10. ASSUME NEW i \in 0..(upto - 1)
       PROVE  i \in sent /\ out'[i + 1] = chunks[i + 1]
  <2>1. out'[i + 1] = IF i + 1 <= expected THEN out[i + 1] ELSE new[i + 1 - expected]
    <3>1. i + 1 \in 1..(Len(out) + Len(new))
      BY SMTT(60), <1>6, <1>7, <1>8
    <3>2. (out \o new)[i + 1] = IF i + 1 <= Len(out) THEN out[i + 1]
                                ELSE new[i + 1 - Len(out)]
      BY <1>7, <3>1, ConcatAt
    <3>3. QED
      BY <1>5, <1>8, <3>2 DEF new
  <2>2. CASE i < expected
    <3>1. i \in 0..(expected - 1) /\ i + 1 <= expected
      BY <1>6, <2>2
    <3>2. QED
      BY <2>1, <3>1 DEF IInv, WrittenPrefix
  <2>3. CASE i >= expected
    <3>1. i \in DOMAIN Stored(m)
      BY <1>5, <1>6, <2>3 DEF Drained
    <3>2. new[i + 1 - expected] = Stored(m)[i]
      BY <1>6, <2>3 DEF new
    <3>3. i \in sent /\ Stored(m)[i] = chunks[i + 1]
      BY <1>4, <3>1
    <3>4. QED
      BY <1>6, <2>1, <2>3, <3>2, <3>3
  <2>4. QED
    BY <1>6, <2>2, <2>3
<1>11. WrittenPrefix'
  <2>1. base <= expected' /\ expected' <= Count /\ Len(out') = expected'
    BY <1>5, <1>6, <1>9
  <2>2. \A i \in 0..(expected' - 1) : i \in sent /\ out'[i + 1] = chunks[i + 1]
    BY <1>5, <1>10
  <2>3. QED
    BY <1>1, <1>2, <2>1, <2>2 DEF WrittenPrefix
<1>12. BufferedAhead'
  <2>1. ASSUME NEW i \in DOMAIN buffered'
        PROVE  i > upto /\ i \in sent /\ buffered'[i] = chunks[i + 1]
    <3>1. i \in DOMAIN Stored(m) /\ i \notin expected..(upto - 1)
          /\ buffered'[i] = Stored(m)[i]
      BY <1>5
    <3>2. i \in Nat /\ i # upto /\ i >= expected
      BY <1>4, <1>5, <3>1 DEF Drained
    <3>3. QED
      BY <1>4, <1>6, <3>1, <3>2
  <2>2. QED
    BY <1>1, <1>5, <2>1 DEF BufferedAhead
<1>13. PacketsTruthful'
  <2>1. ASSUME NEW p \in toServer', p.type = "ACK"
        PROVE  p.id <= upto
    <3>1. CASE p \in toServer
      <4>1. p.id \in Nat /\ p.id <= expected
        BY <2>1, <3>1 DEF IInv, PacketsTruthful, TypeOK, ToServerPackets, PassResp, JoinReq
      <4>2. QED
        BY <1>6, <4>1
    <3>2. CASE p \notin toServer
      BY <1>5, <1>6, <2>1, <3>2 DEF Ack, Nack
    <3>3. QED
      BY <3>1, <3>2
  <2>2. ASSUME NEW p \in toServer', p.type = "NACK"
        PROVE  p.id \in sent
    <3>1. CASE p \in toServer
      BY <2>2, <3>1 DEF IInv, PacketsTruthful
    <3>2. CASE p \notin toServer
      <4>1. p = Nack(expected) /\ m.id > expected
        BY <1>5, <2>2, <3>2 DEF Ack, Nack, Missing
      <4>2. expected < next
        BY <1>3, <4>1 DEF IInv, SentInWindow
      <4>3. QED
        BY <4>1, <4>2 DEF IInv, SentInWindow, Nack
    <3>3. QED
      BY <3>1, <3>2
  <2>3. QED
    BY <1>1, <1>2, <1>5, <2>1, <2>2 DEF IInv, PacketsTruthful
<1>14. QED
  BY <1>1, <1>2, <1>11, <1>12, <1>13
     DEF IInv, AckedPrefix, SentInWindow, HeldOnlyNext, TerminateLast, CommittedOnce,
         OutputIsWholeFile

LEMMA IInvClient ==
  ASSUME TypeOK, IInv,
         \/ \E m \in toClient : ClientReceive(m)
         \/ ClientTimeout \/ ClientFails \/ ClientKilled
  PROVE  IInv'
<1>. USE DEF serverVars, ClientStates, Finished
<1>1. ASSUME NEW m \in toClient, ClientAccept(m)
      PROVE  IInv'
  BY <1>1, AfterSubset, QuietStep DEF ClientAccept
<1>2. ASSUME NEW m \in toClient, ClientAnswer(m)
      PROVE  IInv'
  BY <1>2, AfterSubset, QuietStep DEF ClientAnswer, PassResp
<1>3. ASSUME NEW m \in toClient, ClientUnexpected(m)
      PROVE  IInv'
  BY <1>3, AfterSubset, QuietStep DEF ClientUnexpected
<1>4. ASSUME NEW m \in toClient, ClientDuplicate(m)
      PROVE  IInv'
  BY <1>4, AfterSubset, QuietStep DEF ClientDuplicate, Ack
<1>5. ASSUME NEW m \in toClient, ClientTerminate(m)
      PROVE  IInv'
  <2>1. CASE client' = "abort" /\ UNCHANGED committed
    BY <1>5, <2>1, AfterSubset, QuietStep DEF ClientTerminate, Ack
  <2>2. CASE Matches(m) /\ client' = "ok" /\ committed' = Append(committed, out)
    <3>1. out = digest /\ committed = <<>>
      BY <1>5, <2>2 DEF ClientTerminate, Matches, IInv, PacketsTruthful, CommittedOnce
    <3>2. committed' = <<digest>> /\ digest' = digest
      BY <1>5, <2>2, <3>1 DEF ClientTerminate
    <3>3. CommittedOnce'
      BY <2>2, <3>2 DEF CommittedOnce, OutputIsWholeFile
    <3>4. /\ toClient' \subseteq toClient /\ toServer' = toServer \cup {Ack(expected)}
          /\ UNCHANGED <<digest, chunks, server, base, next, acked, sent, held,
                         expected, buffered, out>>
      BY <1>5, AfterSubset DEF ClientTerminate
    <3>5. Count' = Count
      BY <3>4 DEF Count
    <3>6. PacketsTruthful'
      <4>1. expected <= expected
        BY Numbers
      <4>2. QED
        BY <3>4, <3>5, <4>1 DEF IInv, PacketsTruthful, Ack
    <3>7. QED
      BY <3>3, <3>4, <3>5, <3>6
         DEF IInv, AckedPrefix, SentInWindow, HeldOnlyNext, WrittenPrefix, BufferedAhead,
             TerminateLast, WindowOpen
  <2>3. QED
    BY <1>5, <2>1, <2>2 DEF ClientTerminate
<1>6. CASE ClientTimeout \/ ClientFails \/ ClientKilled
  BY <1>6, QuietStep DEF ClientTimeout, ClientFails, ClientKilled
<1>7. QED
  BY <1>1, <1>2, <1>3, <1>4, <1>5, <1>6, IInvClientData DEF ClientReceive

\* The strengthening that carries every safety property below is inductive.
THEOREM Invariant == Spec => []IInv
<1>1. TypeOK /\ IInv /\ [Next]_vars => IInv'
  <2> SUFFICES ASSUME TypeOK, IInv, [Next]_vars PROVE IInv'
    OBVIOUS
  <2>. USE DEF serverVars, clientVars, ClientStates, Finished
  <2>1. CASE UNCHANGED vars
    BY <2>1, QuietStep DEF vars
  <2>2. CASE Lose
    BY <2>2, QuietStep DEF Lose
  <2>3. QED
    BY <2>1, <2>2, IInvServer, IInvFeedback, IInvClient DEF Next, Exited
<1>2. QED
  BY InitIInv, TypeCorrect, <1>1, PTL DEF Spec

(***************************************************************************)
(* What follows from the invariant.                                        *)
(***************************************************************************)

\* What the client has written is a prefix of the file, and a whole one when
\* nothing is missing.
OutPrefix ==
  /\ Len(chunks) = Count /\ expected \in 0..Count /\ Len(out) = expected
  /\ out = SubSeq(chunks, 1, expected)
  /\ expected = Count => out = chunks

LEMMA OutIsPrefix == TypeOK /\ IInv => OutPrefix
<1> SUFFICES ASSUME TypeOK, IInv PROVE OutPrefix
  OBVIOUS
<1>1. out \in Seq(Data) /\ chunks \in Seq(Data) /\ Len(chunks) = Count
  BY FilesAssumption DEF TypeOK, Count
<1>2. expected \in 0..Count /\ Len(out) = expected
  BY Numbers DEF IInv, WrittenPrefix
<1>3. \A i \in 1..expected : out[i] = chunks[i]
  <2>1. ASSUME NEW i \in 1..expected
        PROVE  out[i] = chunks[i]
    <3>1. i - 1 \in 0..(expected - 1) /\ (i - 1) + 1 = i
      BY <1>2
    <3>2. out[(i - 1) + 1] = chunks[(i - 1) + 1]
      BY <3>1 DEF IInv, WrittenPrefix
    <3>3. QED
      BY <3>1, <3>2
  <2>2. QED
    BY <2>1
<1>4. /\ SubSeq(chunks, 1, expected) \in Seq(Data)
      /\ Len(SubSeq(chunks, 1, expected)) = expected
      /\ \A i \in 1..expected : SubSeq(chunks, 1, expected)[i] = chunks[i]
  BY <1>1, <1>2
<1>5. out = SubSeq(chunks, 1, expected)
  BY <1>1, <1>2, <1>3, <1>4, SeqEqual
<1>6. expected = Count => out = chunks
  BY <1>1, <1>2, <1>3, SeqEqual
<1>7. QED
  BY <1>1, <1>2, <1>5, <1>6 DEF OutPrefix

\* The server counts, and the client announces, only chunks that are written.
THEOREM AckSafety == Spec => []NothingConfirmedUnwritten
<1>1. TypeOK /\ IInv => NothingConfirmedUnwritten
  BY Numbers DEF IInv, PacketsTruthful, NothingConfirmedUnwritten
<1>2. QED
  BY TypeCorrect, Invariant, <1>1, PTL

\* The server's window bounds the client's reorder buffer.
THEOREM BufferBound == Spec => []BufferWithinWindow
<1>1. TypeOK /\ IInv => BufferWithinWindow
  BY Numbers DEF IInv, BufferedAhead, SentInWindow, BufferWithinWindow, ChunkIds
<1>2. QED
  BY TypeCorrect, Invariant, <1>1, PTL

\* Every NACK asks for a chunk that has been sent.
THEOREM NackSafety == Spec => []NackNamesSentChunk
<1>1. IInv => NackNamesSentChunk
  BY DEF IInv, PacketsTruthful, NackNamesSentChunk
<1>2. QED
  BY Invariant, <1>1, PTL

\* No chunk stays held back while the server waits.
THEOREM NothingHeld == Spec => []NothingHeldWhileWaiting
<1>1. IInv => NothingHeldWhileWaiting
  BY DEF IInv, HeldOnlyNext, NothingHeldWhileWaiting, AwaitsFeedback, ServerStates
<1>2. QED
  BY Invariant, <1>1, PTL

\* TERMINATE and the server's OK mean that the client has the whole file.
THEOREM Completeness == Spec => []CompleteBeforeTerminate
<1>1. TypeOK /\ IInv => CompleteBeforeTerminate
  <2> SUFFICES ASSUME TypeOK, IInv,
                      server = "ok" \/ (\E m \in toClient : m.type = "TERMINATE")
               PROVE  out = chunks
    BY DEF CompleteBeforeTerminate
  <2>1. base = Count
    BY DEF IInv, PacketsTruthful, TerminateLast
  <2>2. expected = Count
    BY <2>1, Numbers
  <2>3. QED
    BY <2>2, OutIsPrefix DEF OutPrefix
<1>2. QED
  BY TypeCorrect, Invariant, <1>1, PTL

\* The output path is replaced at most once, by the file the server announced.
THEOREM OutputSafety == Spec => []OutputIsWholeFile
<1>1. IInv => OutputIsWholeFile
  BY DEF IInv, CommittedOnce
<1>2. QED
  BY Invariant, <1>1, PTL

(***************************************************************************)
(* The transfer implements FileDelivery.                                   *)
(***************************************************************************)

\* A step of the server alone confirms chunks, ends the server, or does not show.
LEMMA ServerRefines ==
  ASSUME TypeOK, IInv, TypeOK', IInv',
         \/ ServerStep \/ (\E m \in toServer : ServerFeedback(m))
         \/ ServerStop \/ ServerFails \/ ServerKilled
  PROVE  [Delivery!Next]_(Delivery!vars)
<1>1. /\ UNCHANGED <<digest, chunks, client, expected, out, committed>>
      /\ server \in ServerStates
  BY DEF ServerStep, ServerFeedback, ServerLoop, ServerFill, ServerRelease, ServerNoFeedback,
         ServerTerminate, ServerRetransmit, ServerReceiveAck, ServerReceiveNack, ServerIgnore,
         ServerStop, ServerFails, ServerKilled, AwaitsFeedback, clientVars, ServerStates,
         Finished, TypeOK
<1>2. \/ UNCHANGED server
      \/ server' \in ServerStates
      \/ server' = "ok" /\ base = Count /\ UNCHANGED base
      \/ server' \in {"abort", "killed"} /\ UNCHANGED base
  BY DEF ServerStep, ServerFeedback, ServerLoop, ServerFill, ServerRelease, ServerNoFeedback,
         ServerTerminate, ServerRetransmit, ServerReceiveAck, ServerReceiveNack, ServerIgnore,
         ServerStop, ServerFails, ServerKilled, ServerStates, IInv, TerminateLast
<1>3. base <= base' /\ base' \in 0..Count /\ base \in 0..Count /\ base' <= Len(out)
  <2>1. base' <= Len(out)
    BY <1>1 DEF IInv, WrittenPrefix
  <2>2. base' \in 0..Count /\ base \in 0..Count
    BY <1>1 DEF TypeOK, Count
  <2>3. base <= base'
    <3>1. \/ UNCHANGED base
          \/ base' \in base..Count
      BY DEF ServerStep, ServerFeedback, ServerLoop, ServerFill, ServerRelease,
             ServerNoFeedback, ServerTerminate, ServerRetransmit, ServerReceiveAck,
             ServerReceiveNack, ServerIgnore, ServerStop, ServerFails, ServerKilled
    <3>2. QED
      BY <2>2, <3>1
  <2>4. QED
    BY <2>1, <2>2, <2>3
<1>. DEFINE before == Verdict(server, ServerStates)
            after == Verdict(server', ServerStates)
            receiver == Verdict(client, ClientStates)
<1>4. before = "running" /\ receiver' = receiver
  BY <1>1 DEF Verdict
<1>5. CASE server' \in ServerStates
  <2>1. after = "running"
    BY <1>5 DEF Verdict
  <2>2. CASE base' = base
    BY <1>1, <1>4, <2>1, <2>2 DEF Delivery!vars
  <2>3. CASE base < base'
    <3>1. Delivery!Confirm(base')
      BY <1>1, <1>3, <1>4, <2>1, <2>3 DEF Delivery!Confirm
    <3>2. base' \in 1..Len(chunks)
      BY <1>3, <2>3 DEF Count
    <3>3. QED
      BY <3>1, <3>2 DEF Delivery!Next
  <2>4. QED
    BY <1>3, <2>2, <2>3
<1>6. CASE server' = "ok" /\ base = Count /\ UNCHANGED base
  <2>1. after = "ok"
    BY <1>6 DEF Verdict, ServerStates
  <2>2. Delivery!SenderDone
    BY <1>1, <1>4, <1>6, <2>1 DEF Delivery!SenderDone, Count
  <2>3. QED
    BY <2>2 DEF Delivery!Next
<1>7. CASE server' \in {"abort", "killed"} /\ UNCHANGED base
  <2>1. after = "failed"
    BY <1>7 DEF Verdict, ServerStates
  <2>2. Delivery!SenderFails
    BY <1>1, <1>4, <1>7, <2>1 DEF Delivery!SenderFails
  <2>3. QED
    BY <2>2 DEF Delivery!Next
<1>8. QED
  BY <1>1, <1>2, <1>5, <1>6, <1>7

\* A step of the client alone writes chunks, publishes the file, ends the client,
\* or does not show.
LEMMA ClientRefines ==
  ASSUME TypeOK, IInv, OutPrefix, OutPrefix',
         \/ \E m \in toClient : ClientReceive(m)
         \/ ClientTimeout \/ ClientFails \/ ClientKilled
  PROVE  [Delivery!Next]_(Delivery!vars)
<1>1. UNCHANGED <<digest, chunks, server, base>> /\ client \in ClientStates
  BY DEF ClientReceive, ClientAccept, ClientAnswer, ClientUnexpected, ClientDuplicate,
         ClientData, ClientTerminate, ClientTimeout, ClientFails, ClientKilled, serverVars,
         ClientStates
<1>2. \/ UNCHANGED <<client, out, committed>>
      \/ client' = "transfer" /\ UNCHANGED <<out, committed>>
      \/ client' \in {"abort", "killed"} /\ UNCHANGED <<out, committed>>
      \/ client' = "ok" /\ out = digest /\ committed' = Append(committed, out)
         /\ UNCHANGED out
      \/ /\ UNCHANGED <<client, committed>>
         /\ expected' \in Nat /\ expected <= expected'
  <2>1. ASSUME NEW m \in toClient, ClientData(m)
        PROVE  UNCHANGED <<client, committed>> /\ expected' \in Nat /\ expected <= expected'
    <3>1. \E upto : Drained(DOMAIN Stored(m), upto) /\ expected' = upto
      BY <2>1 DEF ClientData
    <3>2. expected' \in Nat
      BY <1>1 DEF OutPrefix
    <3>3. QED
      BY <2>1, <3>1, <3>2 DEF ClientData, Drained
  <2>2. ASSUME NEW m \in toClient, ClientTerminate(m)
        PROVE  \/ client' \in {"abort"} /\ UNCHANGED <<out, committed>>
               \/ client' = "ok" /\ out = digest /\ committed' = Append(committed, out)
                  /\ UNCHANGED out
    BY <2>2 DEF ClientTerminate, Matches, IInv, PacketsTruthful
  <2>3. QED
    BY <2>1, <2>2
       DEF ClientReceive, ClientAccept, ClientAnswer, ClientUnexpected, ClientDuplicate,
           ClientTimeout, ClientFails, ClientKilled
<1>. DEFINE before == Verdict(client, ClientStates)
            after == Verdict(client', ClientStates)
            sender == Verdict(server, ServerStates)
<1>3. before = "running" /\ sender' = sender
  BY <1>1 DEF Verdict
<1>4. CASE client' \in ClientStates /\ UNCHANGED <<out, committed>>
  BY <1>1, <1>3, <1>4 DEF Delivery!vars, Verdict
<1>5. CASE client' \in {"abort", "killed"} /\ UNCHANGED <<out, committed>>
  <2>1. after = "failed"
    BY <1>5 DEF Verdict, ClientStates
  <2>2. Delivery!ReceiverFails
    BY <1>1, <1>3, <1>5, <2>1 DEF Delivery!ReceiverFails
  <2>3. QED
    BY <2>2 DEF Delivery!Next
<1>6. CASE client' = "ok" /\ out = digest /\ committed' = Append(committed, out)
           /\ UNCHANGED out
  <2>1. after = "ok"
    BY <1>6 DEF Verdict, ClientStates
  <2>2. Delivery!Publish
    BY <1>1, <1>3, <1>6, <2>1 DEF Delivery!Publish
  <2>3. QED
    BY <2>2 DEF Delivery!Next
<1>7. CASE UNCHANGED <<client, committed>> /\ expected' \in Nat /\ expected <= expected'
  <2>1. /\ Len(chunks) = Count /\ expected \in 0..Count /\ Len(out) = expected
        /\ out = SubSeq(chunks, 1, expected)
    BY DEF OutPrefix
  <2>2. expected' \in 0..Count /\ out' = SubSeq(chunks, 1, expected')
    BY <1>1 DEF OutPrefix, Count
  <2>3. CASE expected' = expected
    BY <1>1, <1>3, <1>7, <2>1, <2>2, <2>3 DEF Delivery!vars
  <2>4. CASE expected < expected'
    <3>1. Delivery!Receive(expected')
      BY <1>1, <1>3, <1>7, <2>1, <2>2, <2>4 DEF Delivery!Receive
    <3>2. expected' \in 1..Len(chunks)
      BY <2>1, <2>2, <2>4
    <3>3. QED
      BY <3>1, <3>2 DEF Delivery!Next
  <2>5. QED
    BY <1>7, <2>1, <2>2, <2>3, <2>4
<1>8. QED
  BY <1>1, <1>2, <1>4, <1>5, <1>6, <1>7 DEF ClientStates

\* Whatever packets do, the two programs deliver files as FileDelivery says.
THEOREM Refinement == Spec => ImplementsDelivery
<1>1. Init => Delivery!Init
  BY DEF Init, Delivery!Init, Verdict, ServerStates, ClientStates
<1>2. TypeOK /\ IInv /\ OutPrefix /\ TypeOK' /\ IInv' /\ OutPrefix' /\ [Next]_vars
        => [Delivery!Next]_(Delivery!vars)
  <2> SUFFICES ASSUME TypeOK, IInv, OutPrefix, TypeOK', IInv', OutPrefix', [Next]_vars
               PROVE  [Delivery!Next]_(Delivery!vars)
    OBVIOUS
  <2>1. CASE UNCHANGED vars
    BY <2>1 DEF vars, Delivery!vars, Verdict
  <2>2. CASE Lose
    BY <2>2 DEF Lose, serverVars, clientVars, Delivery!vars, Verdict
  <2>3. QED
    BY <2>1, <2>2, ServerRefines, ClientRefines DEF Next, Exited
<1>3. QED
  BY <1>1, <1>2, OutIsPrefix, TypeCorrect, Invariant, PTL
     DEF Spec, ImplementsDelivery, Delivery!Spec
=============================================================================
