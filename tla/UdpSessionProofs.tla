-------------------------- MODULE UdpSessionProofs --------------------------
(***************************************************************************)
(* Proofs about UdpSession, for every file, password and environment.      *)
(***************************************************************************)
EXTENDS UdpSession, SequenceTheorems, TLAPS

(***************************************************************************)
(* Channels.                                                               *)
(***************************************************************************)

\* None: no datagram of the channel is in T.  One: at most one is.
None(channel, T) == \A k \in DOMAIN channel : channel[k] \notin T
One(channel, T) ==
  \A j, k \in DOMAIN channel : channel[j] \in T /\ channel[k] \in T => j = k

\* What is left of a channel without its k-th datagram.
LEMMA RemoveAtProperties ==
  ASSUME NEW S, NEW channel \in Seq(S), NEW k \in DOMAIN channel
  PROVE  /\ RemoveAt(channel, k) \in Seq(S)
         /\ DOMAIN RemoveAt(channel, k) = 1..(Len(channel) - 1)
         /\ \A j \in 1..(Len(channel) - 1) :
              RemoveAt(channel, k)[j] = IF j < k THEN channel[j] ELSE channel[j + 1]
<1>. DEFINE before == SubSeq(channel, 1, k - 1)
            behind == SubSeq(channel, k + 1, Len(channel))
<1>1. Len(channel) \in Nat /\ DOMAIN channel = 1..Len(channel) /\ k \in 1..Len(channel)
  BY LenProperties
<1>2. \A j \in 1..Len(channel) : channel[j] \in S
  BY <1>1, ElementOfSeq
<1>3. /\ before \in Seq(S) /\ Len(before) = k - 1
      /\ \A j \in 1..(k - 1) : before[j] = channel[j]
  <2>1. \A j \in 1..(k - 1) : channel[j] \in S
    BY <1>1, <1>2
  <2>2. /\ before \in Seq(S)
        /\ Len(before) = IF 1 <= k - 1 THEN (k - 1) - 1 + 1 ELSE 0
        /\ \A j \in 1..((k - 1) - 1 + 1) : before[j] = channel[1 + j - 1]
    BY <1>1, <2>1, SubSeqProperties
  <2>3. QED
    BY <1>1, <2>2
<1>4. /\ behind \in Seq(S) /\ Len(behind) = Len(channel) - k
      /\ \A j \in 1..(Len(channel) - k) : behind[j] = channel[k + j]
  <2>1. \A j \in (k + 1)..Len(channel) : channel[j] \in S
    BY <1>1, <1>2
  <2>2. /\ behind \in Seq(S)
        /\ Len(behind) = IF k + 1 <= Len(channel) THEN Len(channel) - (k + 1) + 1 ELSE 0
        /\ \A j \in 1..(Len(channel) - (k + 1) + 1) : behind[j] = channel[k + 1 + j - 1]
    BY <1>1, <2>1, SubSeqProperties
  <2>3. QED
    BY <1>1, <2>2
<1>5. /\ before \o behind \in Seq(S)
      /\ Len(before \o behind) = Len(channel) - 1
      /\ \A j \in 1..(Len(channel) - 1) :
           (before \o behind)[j] = IF j <= k - 1 THEN before[j] ELSE behind[j - (k - 1)]
  <2>1. /\ before \o behind \in Seq(S)
        /\ Len(before \o behind) = Len(before) + Len(behind)
        /\ \A j \in 1..(Len(before) + Len(behind)) :
             (before \o behind)[j] =
               IF j <= Len(before) THEN before[j] ELSE behind[j - Len(before)]
    BY <1>3, <1>4, ConcatProperties
  <2>2. Len(before) + Len(behind) = Len(channel) - 1
    BY <1>1, <1>3, <1>4
  <2>3. QED
    BY <1>3, <2>1, <2>2
<1>. HIDE DEF before, behind
<1>6. ASSUME NEW j \in 1..(Len(channel) - 1)
      PROVE  (before \o behind)[j] = IF j < k THEN channel[j] ELSE channel[j + 1]
  <2>1. CASE j < k
    BY <1>1, <1>3, <1>5, <2>1
  <2>2. CASE ~(j < k)
    <3>1. j - (k - 1) \in 1..(Len(channel) - k) /\ k + (j - (k - 1)) = j + 1
      BY <1>1, <2>2
    <3>2. behind[j - (k - 1)] = channel[j + 1]
      BY <1>4, <3>1
    <3>3. (before \o behind)[j] = behind[j - (k - 1)]
      BY <1>1, <1>5, <2>2
    <3>4. QED
      BY <2>2, <3>2, <3>3
  <2>3. QED
    BY <2>1, <2>2
<1>7. DOMAIN (before \o behind) = 1..(Len(channel) - 1)
  BY <1>5, LenProperties
<1>8. QED
  BY <1>5, <1>6, <1>7 DEF RemoveAt, before, behind

\* Whatever a receiver leaves in the channel was there before.
LEMMA AfterSeq ==
  ASSUME NEW S, NEW channel \in Seq(S), NEW k \in DOMAIN channel,
         NEW rest \in After(channel, k)
  PROVE  rest \in Seq(S)
BY RemoveAtProperties DEF After

\* What the server sends reaches its channel or leaves the model.
LEMMA SendToPeerSeq ==
  ASSUME NEW S, toClient \in Seq(S), NEW p \in S, SendToPeer(p)
  PROVE  toClient' \in Seq(S)
BY AppendProperties DEF SendToPeer

\* A datagram more, one less.
LEMMA AppendTokens ==
  ASSUME NEW S, NEW channel \in Seq(S), NEW m \in S, NEW T
  PROVE  /\ m \notin T /\ None(channel, T) => None(Append(channel, m), T)
         /\ m \notin T /\ One(channel, T) => One(Append(channel, m), T)
         /\ None(channel, T) => One(Append(channel, m), T)
<1>1. /\ Len(channel) \in Nat /\ DOMAIN channel = 1..Len(channel)
      /\ DOMAIN Append(channel, m) = 1..(Len(channel) + 1)
      /\ \A j \in 1..Len(channel) : Append(channel, m)[j] = channel[j]
      /\ Append(channel, m)[Len(channel) + 1] = m
  <2>1. Append(channel, m) \in Seq(S) /\ Len(Append(channel, m)) = Len(channel) + 1
        /\ (\A j \in 1..Len(channel) : Append(channel, m)[j] = channel[j])
        /\ Append(channel, m)[Len(channel) + 1] = m
    BY AppendProperties
  <2>2. QED
    BY <2>1, LenProperties
<1>2. QED
  BY <1>1 DEF None, One

LEMMA RemoveTokens ==
  ASSUME NEW S, NEW channel \in Seq(S), NEW k \in DOMAIN channel, NEW T
  PROVE  /\ None(channel, T) => None(RemoveAt(channel, k), T)
         /\ One(channel, T) => One(RemoveAt(channel, k), T)
         /\ One(channel, T) /\ channel[k] \in T => None(RemoveAt(channel, k), T)
<1>1. Len(channel) \in Nat /\ DOMAIN channel = 1..Len(channel) /\ k \in 1..Len(channel)
  BY LenProperties
<1>2. /\ DOMAIN RemoveAt(channel, k) = 1..(Len(channel) - 1)
      /\ \A j \in 1..(Len(channel) - 1) :
           RemoveAt(channel, k)[j] = IF j < k THEN channel[j] ELSE channel[j + 1]
  BY RemoveAtProperties
<1>. DEFINE at(j) == IF j < k THEN j ELSE j + 1
<1>3. \A j \in 1..(Len(channel) - 1) :
        at(j) \in DOMAIN channel /\ at(j) # k /\ RemoveAt(channel, k)[j] = channel[at(j)]
  BY <1>1, <1>2
<1>4. \A i, j \in 1..(Len(channel) - 1) : at(i) = at(j) => i = j
  BY <1>1
<1>. HIDE DEF at
<1>5. QED
  BY <1>2, <1>3, <1>4 DEF None, One

(***************************************************************************)
(* Type correctness.                                                       *)
(***************************************************************************)
LEMMA ControlPackets ==
  /\ Control("PASS_REQ") \in ToClientPackets
  /\ Control("PASS_ACCEPT") \in ToClientPackets
  /\ Control("REJECT") \in ToClientPackets
  /\ Malformed \in ToClientPackets /\ Malformed \in ToServerPackets
  /\ \A who \in Peers : JoinReq(who) \in ToServerPackets
  /\ \A who \in Peers, w \in Passwords : PassResp(who, w) \in ToServerPackets
BY DEF Control, Malformed, JoinReq, PassResp, ToClientPackets, ToServerPackets, Peers

LEMMA ServerReceives ==
  ASSUME TypeOK, NEW k \in DOMAIN toServer, toServer' \in After(toServer, k)
  PROVE  /\ toServer' \in Seq(ToServerPackets)
         /\ toServer[k] \in ToServerPackets /\ toServer[k].from \in Peers
<1>1. toServer \in Seq(ToServerPackets)
  BY DEF TypeOK
<1>2. toServer[k] \in ToServerPackets
  BY <1>1, LenProperties, ElementOfSeq
<1>3. toServer[k].from \in Peers
  BY <1>2 DEF ToServerPackets, Malformed, Peers
<1>4. QED
  BY <1>1, <1>2, <1>3, AfterSeq

LEMMA ClientReceives ==
  ASSUME TypeOK, NEW k \in DOMAIN toClient, toClient' \in After(toClient, k)
  PROVE  /\ toClient' \in Seq(ToClientPackets)
         /\ toClient[k] \in ToClientPackets
<1>1. toClient \in Seq(ToClientPackets)
  BY DEF TypeOK
<1>2. toClient[k] \in ToClientPackets
  BY <1>1, LenProperties, ElementOfSeq
<1>3. QED
  BY <1>1, <1>2, AfterSeq

\* What transfer_file() sends is a packet of the file.
LEMMA FilePackets ==
  ASSUME TypeOK
  PROVE  /\ content \in Seq(Data) /\ Len(content) \in Nat
         /\ packetId < Len(content) => DataPacket(packetId) \in ToClientPackets
         /\ Terminate \in ToClientPackets
<1>1. content \in Seq(Data) /\ Len(content) \in Nat
  BY FilesAssumption, LenProperties DEF TypeOK
<1>2. ASSUME packetId < Len(content)
      PROVE  DataPacket(packetId) \in ToClientPackets
  <2>1. packetId + 1 \in 1..Len(content) /\ packetId \in Nat
    BY <1>1, <1>2 DEF TypeOK
  <2>2. content[packetId + 1] \in Data
    BY <1>1, <2>1, ElementOfSeq
  <2>3. QED
    BY <2>1, <2>2 DEF DataPacket, ToClientPackets
<1>3. QED
  BY <1>1, <1>2 DEF Terminate, ToClientPackets, TypeOK

LEMMA TypeInit == Init => TypeOK
<1> SUFFICES ASSUME Init PROVE TypeOK
  OBVIOUS
<1>1. Len(content) \in Nat
  BY FilesAssumption, LenProperties DEF Init
<1>2. out \in Seq(Data) /\ committed \in Seq(Seq(Data))
      /\ toClient \in Seq(ToClientPackets) /\ toServer \in Seq(ToServerPackets)
  BY EmptySeq DEF Init
<1>3. lost \in 0..MaxLoss /\ strays \in 0..MaxStray
  BY EnvironmentAssumption DEF Init
<1>4. QED
  BY <1>1, <1>2, <1>3 DEF Init, TypeOK, ServerStates, ClientStates

LEMMA TypeServer ==
  ASSUME TypeOK,
         \/ \E k \in DOMAIN toServer : ServerReceive(k)
         \/ ServerSendData \/ ServerTerminate \/ ServerTimeout \/ ServerFails
  PROVE  TypeOK'
<1>. USE DEF clientVars, budgets, ServerStates, Finished
<1>1. toClient \in Seq(ToClientPackets)
  BY DEF TypeOK
<1>2. ASSUME NEW k \in DOMAIN toServer, ServerJoin(k)
      PROVE  TypeOK'
  <2>1. toServer' \in Seq(ToServerPackets) /\ toServer[k].from \in Peers
    BY <1>2, ServerReceives DEF ServerJoin
  <2>2. toClient' \in Seq(ToClientPackets)
    BY <1>1, <1>2, ControlPackets, SendToPeerSeq DEF ServerJoin
  <2>3. QED
    BY <1>2, <2>1, <2>2 DEF ServerJoin, TypeOK
<1>3. ASSUME NEW k \in DOMAIN toServer, ServerIgnore(k) \/ ServerUnexpected(k)
      PROVE  TypeOK'
  <2>1. toServer' \in Seq(ToServerPackets)
    BY <1>3, ServerReceives DEF ServerIgnore, ServerUnexpected
  <2>2. QED
    BY <1>3, <2>1 DEF ServerIgnore, ServerUnexpected, TypeOK
<1>4. ASSUME NEW k \in DOMAIN toServer, ServerPassword(k)
      PROVE  TypeOK'
  <2>1. toServer' \in Seq(ToServerPackets)
    BY <1>4, ServerReceives DEF ServerPassword
  <2>2. toClient' \in Seq(ToClientPackets)
    BY <1>1, <1>4, ControlPackets, SendToPeerSeq DEF ServerPassword
  <2>3. attempt' \in 1..3
    BY <1>4 DEF ServerPassword, MaxAttempts, TypeOK
  <2>4. QED
    BY <1>4, <2>1, <2>2, <2>3 DEF ServerPassword, TypeOK
<1>5. CASE ServerSendData
  <2>1. toClient' \in Seq(ToClientPackets)
    BY <1>1, <1>5, FilePackets, SendToPeerSeq DEF ServerSendData
  <2>2. packetId' \in 0..Len(content)
    BY <1>5, FilePackets DEF ServerSendData, TypeOK
  <2>3. QED
    BY <1>5, <2>1, <2>2 DEF ServerSendData, TypeOK
<1>6. CASE ServerTerminate
  <2>1. toClient' \in Seq(ToClientPackets)
    BY <1>1, <1>6, FilePackets, SendToPeerSeq DEF ServerTerminate
  <2>2. QED
    BY <1>6, <2>1 DEF ServerTerminate, TypeOK
<1>7. CASE ServerTimeout \/ ServerFails
  BY <1>7 DEF ServerTimeout, ServerFails, TypeOK
<1>8. QED
  BY <1>2, <1>3, <1>4, <1>5, <1>6, <1>7 DEF ServerReceive

LEMMA TypeClient ==
  ASSUME TypeOK,
         \/ \E k \in DOMAIN toClient : ClientReceive(k)
         \/ ClientJoin \/ ClientTimeout \/ ClientFails
  PROVE  TypeOK'
<1>. USE DEF serverVars, budgets, ClientStates, Finished
<1>1. toServer \in Seq(ToServerPackets) /\ out \in Seq(Data) /\ committed \in Seq(Seq(Data))
  BY DEF TypeOK
<1>2. CASE ClientJoin
  <2>1. toServer' \in Seq(ToServerPackets)
    BY <1>1, <1>2, ControlPackets, AppendProperties DEF ClientJoin, Peers
  <2>2. QED
    BY <1>2, <2>1 DEF ClientJoin, TypeOK
<1>3. ASSUME NEW k \in DOMAIN toClient, ClientAnswer(k)
      PROVE  TypeOK'
  <2>1. toClient' \in Seq(ToClientPackets)
    BY <1>3, ClientReceives DEF ClientAnswer
  <2>2. used' \in 0..3
    BY <1>3 DEF ClientAnswer, TypeOK
  <2>3. toServer' \in Seq(ToServerPackets)
    <3>1. CASE used < 3
      <4>1. typed[used + 1] \in Passwords
        BY <3>1 DEF TypeOK
      <4>2. PassResp("client", typed[used + 1]) \in ToServerPackets
        BY <4>1, ControlPackets DEF Peers
      <4>3. toServer' = Append(toServer, PassResp("client", typed[used + 1]))
        BY <1>3, <3>1 DEF ClientAnswer
      <4>4. QED
        BY <1>1, <4>2, <4>3, AppendProperties
    <3>2. CASE ~(used < 3)
      BY <1>1, <1>3, <3>2 DEF ClientAnswer
    <3>3. QED
      BY <3>1, <3>2
  <2>4. QED
    BY <1>3, <2>1, <2>2, <2>3 DEF ClientAnswer, TypeOK
<1>4. ASSUME NEW k \in DOMAIN toClient, ClientAccept(k) \/ ClientUnexpected(k)
      PROVE  TypeOK'
  <2>1. toClient' \in Seq(ToClientPackets)
    BY <1>4, ClientReceives DEF ClientAccept, ClientUnexpected
  <2>2. QED
    BY <1>4, <2>1 DEF ClientAccept, ClientUnexpected, TypeOK
<1>5. ASSUME NEW k \in DOMAIN toClient, ClientData(k)
      PROVE  TypeOK'
  <2>1. toClient' \in Seq(ToClientPackets) /\ toClient[k] \in ToClientPackets
    BY <1>5, ClientReceives DEF ClientData
  <2>2. toClient[k].data \in Data
    BY <1>5, <2>1 DEF ClientData, ToClientPackets, Malformed
  <2>3. out' \in Seq(Data)
    BY <1>1, <1>5, <2>2, AppendProperties DEF ClientData
  <2>4. QED
    BY <1>5, <2>1, <2>3 DEF ClientData, TypeOK
<1>6. ASSUME NEW k \in DOMAIN toClient, ClientTerminate(k)
      PROVE  TypeOK'
  <2>1. toClient' \in Seq(ToClientPackets)
    BY <1>6, ClientReceives DEF ClientTerminate
  <2>2. committed' \in Seq(Seq(Data))
    <3>1. committed' = Append(committed, out) \/ committed' = committed
      BY <1>6 DEF ClientTerminate
    <3>2. Append(committed, out) \in Seq(Seq(Data))
      BY <1>1, AppendProperties
    <3>3. QED
      BY <1>1, <3>1, <3>2
  <2>3. QED
    BY <1>6, <2>1, <2>2 DEF ClientTerminate, TypeOK
<1>7. CASE ClientTimeout \/ ClientFails
  BY <1>7 DEF ClientTimeout, ClientFails, TypeOK
<1>8. QED
  BY <1>2, <1>3, <1>4, <1>5, <1>6, <1>7 DEF ClientReceive

LEMMA TypeRest ==
  ASSUME TypeOK,
         \/ \E who \in {"server", "client"} : Signal(who)
         \/ OtherSends \/ Lose \/ UNCHANGED vars
  PROVE  TypeOK'
<1>. USE DEF serverVars, clientVars, budgets
<1>1. toClient \in Seq(ToClientPackets) /\ toServer \in Seq(ToServerPackets)
  BY DEF TypeOK
<1>2. ASSUME NEW who \in {"server", "client"}, Signal(who)
      PROVE  TypeOK'
  BY <1>2 DEF Signal, TypeOK
<1>3. CASE OtherSends
  <2>1. toServer' \in Seq(ToServerPackets) /\ toClient' \in Seq(ToClientPackets)
    <3>1. CASE toClient' = Append(toClient, Malformed) /\ UNCHANGED toServer
      BY <1>1, <3>1, ControlPackets, AppendProperties
    <3>2. ASSUME NEW m \in {JoinReq("other"), Malformed}
                        \cup {PassResp("other", w) : w \in Passwords},
                 toServer' = Append(toServer, m), UNCHANGED toClient
          PROVE  toServer' \in Seq(ToServerPackets) /\ toClient' \in Seq(ToClientPackets)
      <4>1. m \in ToServerPackets
        BY ControlPackets DEF Peers
      <4>2. QED
        BY <1>1, <3>2, <4>1, AppendProperties
    <3>3. QED
      BY <1>3, <3>1, <3>2 DEF OtherSends
  <2>2. strays' \in 0..MaxStray
    BY <1>3, EnvironmentAssumption DEF OtherSends, TypeOK
  <2>3. QED
    BY <1>3, <2>1, <2>2 DEF OtherSends, TypeOK
<1>4. CASE Lose
  <2>1. toServer' \in Seq(ToServerPackets) /\ toClient' \in Seq(ToClientPackets)
    BY <1>1, <1>4, RemoveAtProperties DEF Lose
  <2>2. lost' \in 0..MaxLoss
    BY <1>4, EnvironmentAssumption DEF Lose, TypeOK
  <2>3. QED
    BY <1>4, <2>1, <2>2 DEF Lose, TypeOK
<1>5. CASE UNCHANGED vars
  BY <1>5 DEF vars, TypeOK
<1>6. QED
  BY <1>2, <1>3, <1>4, <1>5

\* Every variable of a session keeps its type: the rounds and the passwords used stay
\* within three, and transfer_file() sends no chunk the file does not have.
THEOREM TypeCorrect == Spec => []TypeOK
<1>1. TypeOK /\ [Next]_vars => TypeOK'
  BY TypeServer, TypeClient, TypeRest DEF Next, ServerStep, ClientStep, Exited
<1>2. QED
  BY <1>1, TypeInit, PTL DEF Spec

(***************************************************************************)
(* What is in flight is true.                                              *)
(***************************************************************************)

\* The DATA and TERMINATE in flight are of the server's file, a PASS_ACCEPT says that
\* the password was sent, and a PASS_RESP holds one the client has sent.
TrueToClient ==
  {m \in ToClientPackets :
     /\ m.type = "PASS_ACCEPT" => TypedSecret
     /\ m.type = "DATA" => m.id < Len(content) /\ m.data = content[m.id + 1]
     /\ m.type = "TERMINATE" => m.digest = digest}

TrueToServer ==
  {m \in ToServerPackets :
     m.type = "PASS_RESP" /\ m.from = "client" => \E i \in 1..used : m.word = typed[i]}

PacketsTruthful == toClient \in Seq(TrueToClient) /\ toServer \in Seq(TrueToServer)

WrittenPrefix ==
  Len(out) <= Len(content) /\ \A i \in 1..Len(out) : out[i] = content[i]

IInv == PacketsTruthful /\ TransferOnlyWithSecret /\ WrittenPrefix /\ OutputIsWholeFile

\* No step makes a true packet false: the files stay, and passwords are only added.
LEMMA TruthStays ==
  ASSUME TypeOK, UNCHANGED <<content, digest, typed>>, used' \in {used, used + 1}
  PROVE  /\ TypedSecret => TypedSecret'
         /\ TrueToClient \subseteq TrueToClient'
         /\ TrueToServer \subseteq TrueToServer'
         /\ PacketsTruthful => toClient \in Seq(TrueToClient') /\ toServer \in Seq(TrueToServer')
<1>1. 1..used \subseteq 1..used'
  BY DEF TypeOK
<1>2. TypedSecret => TypedSecret'
  BY <1>1 DEF TypedSecret
<1>3. TrueToClient \subseteq TrueToClient'
  BY <1>2 DEF TrueToClient
<1>4. TrueToServer \subseteq TrueToServer'
  BY <1>1 DEF TrueToServer
<1>5. QED
  BY <1>2, <1>3, <1>4, SeqMonotonic DEF PacketsTruthful

\* The packets of the handshake, of other peers and of the transfer.
LEMMA TruePackets ==
  ASSUME TypeOK
  PROVE  /\ Control("PASS_REQ") \in TrueToClient /\ Control("REJECT") \in TrueToClient
         /\ TypedSecret => Control("PASS_ACCEPT") \in TrueToClient
         /\ packetId < Len(content) => DataPacket(packetId) \in TrueToClient
         /\ Terminate \in TrueToClient
         /\ Malformed \in TrueToClient /\ Malformed \in TrueToServer
         /\ \A who \in Peers : JoinReq(who) \in TrueToServer
         /\ \A w \in Passwords : PassResp("other", w) \in TrueToServer
<1>1. /\ Control("PASS_REQ") \in TrueToClient /\ Control("REJECT") \in TrueToClient
      /\ TypedSecret => Control("PASS_ACCEPT") \in TrueToClient
      /\ Malformed \in TrueToClient
  BY ControlPackets DEF Control, Malformed, TrueToClient
<1>2. packetId < Len(content) => DataPacket(packetId) \in TrueToClient
  BY FilePackets DEF DataPacket, TrueToClient
<1>3. Terminate \in TrueToClient
  BY FilePackets DEF Terminate, TrueToClient
<1>4. /\ Malformed \in TrueToServer
      /\ \A who \in Peers : JoinReq(who) \in TrueToServer
      /\ \A w \in Passwords : PassResp("other", w) \in TrueToServer
  BY ControlPackets DEF Malformed, JoinReq, PassResp, TrueToServer, Peers
<1>5. QED
  BY <1>1, <1>2, <1>3, <1>4

LEMMA InvInit == Init => IInv
<1> SUFFICES ASSUME Init PROVE IInv
  OBVIOUS
<1>1. PacketsTruthful
  BY EmptySeq DEF Init, PacketsTruthful
<1>2. TransferOnlyWithSecret
  BY DEF Init, TransferOnlyWithSecret
<1>3. WrittenPrefix
  BY FilesAssumption, LenProperties DEF Init, WrittenPrefix
<1>4. OutputIsWholeFile
  BY DEF Init, OutputIsWholeFile
<1>5. QED
  BY <1>1, <1>2, <1>3, <1>4 DEF IInv

\* The server: it writes nothing, and accepts or transfers only after the password.
LEMMA InvServer ==
  ASSUME TypeOK, IInv,
         \/ \E k \in DOMAIN toServer : ServerReceive(k)
         \/ ServerSendData \/ ServerTerminate \/ ServerTimeout \/ ServerFails
  PROVE  IInv'
<1>. USE DEF clientVars, Finished, ServerStates
<1>1. UNCHANGED <<content, digest, clientVars>>
  BY DEF ServerReceive, ServerJoin, ServerIgnore, ServerUnexpected, ServerPassword,
         ServerSendData, ServerTerminate, ServerTimeout, ServerFails
<1>2. WrittenPrefix' /\ OutputIsWholeFile' /\ (TypedSecret <=> TypedSecret')
  BY <1>1 DEF IInv, WrittenPrefix, OutputIsWholeFile, TypedSecret
<1>3. toClient \in Seq(TrueToClient) /\ toServer \in Seq(TrueToServer)
      /\ TransferOnlyWithSecret
  BY DEF IInv, PacketsTruthful
<1>4. TrueToClient' = TrueToClient /\ TrueToServer' = TrueToServer
  BY <1>1, <1>2 DEF TrueToClient, TrueToServer
<1>5. ASSUME NEW k \in DOMAIN toServer, toServer' \in After(toServer, k)
      PROVE  toServer' \in Seq(TrueToServer) /\ toServer[k] \in TrueToServer
  BY <1>3, <1>5, AfterSeq, LenProperties, ElementOfSeq
<1>6. ASSUME NEW k \in DOMAIN toServer, ServerJoin(k)
      PROVE  PacketsTruthful' /\ TransferOnlyWithSecret'
  <2>1. toServer' \in Seq(TrueToServer)
    BY <1>5, <1>6 DEF ServerJoin
  <2>2. toClient' \in Seq(TrueToClient)
    BY <1>3, <1>6, TruePackets, SendToPeerSeq DEF ServerJoin
  <2>3. TransferOnlyWithSecret'
    BY <1>1, <1>2, <1>3, <1>6 DEF ServerJoin, TransferOnlyWithSecret
  <2>4. QED
    BY <1>4, <2>1, <2>2, <2>3 DEF PacketsTruthful
<1>7. ASSUME NEW k \in DOMAIN toServer, ServerIgnore(k) \/ ServerUnexpected(k)
      PROVE  PacketsTruthful' /\ TransferOnlyWithSecret'
  <2>1. toServer' \in Seq(TrueToServer)
    BY <1>5, <1>7 DEF ServerIgnore, ServerUnexpected
  <2>2. toClient' = toClient
    BY <1>7 DEF ServerIgnore, ServerUnexpected
  <2>3. TransferOnlyWithSecret'
    BY <1>1, <1>2, <1>3, <1>7 DEF ServerIgnore, ServerUnexpected, TransferOnlyWithSecret
  <2>4. QED
    BY <1>3, <1>4, <2>1, <2>2, <2>3 DEF PacketsTruthful
<1>8. ASSUME NEW k \in DOMAIN toServer, ServerPassword(k)
      PROVE  PacketsTruthful' /\ TransferOnlyWithSecret'
  <2>1. toServer' \in Seq(TrueToServer) /\ toServer[k] \in TrueToServer
    BY <1>5, <1>8 DEF ServerPassword
  <2>2. peer = "client" /\ PasswordOk(toServer[k]) => TypedSecret
    BY <1>8, <2>1 DEF ServerPassword, TrueToServer, TypedSecret, PasswordOk
  <2>3. toClient' \in Seq(TrueToClient)
    <3>1. CASE PasswordOk(toServer[k]) /\ peer = "client"
      BY <1>3, <1>8, <2>2, <3>1, TruePackets, SendToPeerSeq DEF ServerPassword
    <3>2. CASE peer # "client"
      BY <1>3, <1>8, <3>2 DEF ServerPassword, SendToPeer
    <3>3. CASE ~PasswordOk(toServer[k])
      BY <1>3, <1>8, <3>3, TruePackets, SendToPeerSeq DEF ServerPassword
    <3>4. QED
      BY <3>1, <3>2, <3>3
  <2>4. TransferOnlyWithSecret'
    BY <1>1, <1>2, <1>3, <1>8, <2>2 DEF ServerPassword, TransferOnlyWithSecret
  <2>5. QED
    BY <1>4, <2>1, <2>3, <2>4 DEF PacketsTruthful
<1>9. CASE ServerSendData
  <2>1. toClient' \in Seq(TrueToClient)
    BY <1>3, <1>9, TruePackets, SendToPeerSeq DEF ServerSendData
  <2>2. TransferOnlyWithSecret'
    BY <1>1, <1>2, <1>3, <1>9 DEF ServerSendData, TransferOnlyWithSecret
  <2>3. toServer' = toServer
    BY <1>9 DEF ServerSendData
  <2>4. QED
    BY <1>2, <1>3, <1>4, <2>1, <2>2, <2>3 DEF PacketsTruthful, IInv
<1>10. CASE ServerTerminate
  <2>1. toClient' \in Seq(TrueToClient)
    BY <1>3, <1>10, TruePackets, SendToPeerSeq DEF ServerTerminate
  <2>2. TransferOnlyWithSecret'
    BY <1>1, <1>2, <1>3, <1>10 DEF ServerTerminate, TransferOnlyWithSecret
  <2>3. toServer' = toServer
    BY <1>10 DEF ServerTerminate
  <2>4. QED
    BY <1>2, <1>3, <1>4, <2>1, <2>2, <2>3 DEF PacketsTruthful, IInv
<1>11. CASE ServerTimeout \/ ServerFails
  <2>1. toClient' = toClient /\ toServer' = toServer
    BY <1>11 DEF ServerTimeout, ServerFails
  <2>2. TransferOnlyWithSecret'
    BY <1>1, <1>2, <1>3, <1>11 DEF ServerTimeout, ServerFails, TransferOnlyWithSecret
  <2>3. QED
    BY <1>2, <1>3, <1>4, <2>1, <2>2 DEF PacketsTruthful, IInv
<1>12. QED
  BY <1>2, <1>6, <1>7, <1>8, <1>9, <1>10, <1>11 DEF ServerReceive, IInv

\* The client: it adds the chunk it expects and commits what has the server's digest.
LEMMA InvClient ==
  ASSUME TypeOK, IInv,
         \/ \E k \in DOMAIN toClient : ClientReceive(k)
         \/ ClientJoin \/ ClientTimeout \/ ClientFails
  PROVE  IInv'
<1>. USE DEF serverVars, Finished, ClientStates
<1>1. UNCHANGED <<content, digest, typed, server, peer>> /\ used' \in {used, used + 1}
  BY DEF ClientReceive, ClientAnswer, ClientAccept, ClientData, ClientTerminate,
         ClientUnexpected, ClientJoin, ClientTimeout, ClientFails
<1>2. /\ TypedSecret => TypedSecret'
      /\ toClient \in Seq(TrueToClient') /\ toServer \in Seq(TrueToServer')
  BY <1>1, TruthStays DEF IInv
<1>3. TransferOnlyWithSecret /\ WrittenPrefix /\ OutputIsWholeFile
      /\ toClient \in Seq(TrueToClient)
  BY DEF IInv, PacketsTruthful
<1>4. client # "ok" /\ committed = <<>>
  BY <1>3 DEF OutputIsWholeFile, ClientReceive, ClientAnswer, ClientAccept, ClientData,
              ClientTerminate, ClientUnexpected, ClientJoin, ClientTimeout, ClientFails
<1>5. ASSUME NEW k \in DOMAIN toClient, toClient' \in After(toClient, k)
      PROVE  toClient' \in Seq(TrueToClient') /\ toClient[k] \in TrueToClient
  BY <1>2, <1>3, <1>5, AfterSeq, LenProperties, ElementOfSeq
<1>6. CASE ClientJoin
  <2>1. toServer' \in Seq(TrueToServer')
    <3>1. JoinReq("client") \in TrueToServer'
      BY <1>1, TruePackets, TruthStays DEF Peers
    <3>2. QED
      BY <1>2, <1>6, <3>1, AppendProperties DEF ClientJoin
  <2>2. TransferOnlyWithSecret' /\ WrittenPrefix' /\ OutputIsWholeFile'
    BY <1>1, <1>2, <1>3, <1>4, <1>6
       DEF ClientJoin, TransferOnlyWithSecret, WrittenPrefix, OutputIsWholeFile
  <2>3. QED
    BY <1>2, <1>6, <2>1, <2>2 DEF ClientJoin, IInv, PacketsTruthful
<1>7. ASSUME NEW k \in DOMAIN toClient, ClientAnswer(k)
      PROVE  IInv'
  <2>1. toClient' \in Seq(TrueToClient')
    BY <1>5, <1>7 DEF ClientAnswer
  <2>2. toServer' \in Seq(TrueToServer')
    <3>1. CASE used < 3
      <4>. DEFINE answer == PassResp("client", typed[used + 1])
      <4>1. used' = used + 1 /\ used \in Nat /\ typed[used + 1] \in Passwords
        BY <1>7, <3>1 DEF ClientAnswer, TypeOK
      <4>2. answer \in ToServerPackets
        BY <4>1, ControlPackets DEF Peers
      <4>3. used + 1 \in 1..used' /\ answer.word = typed'[used + 1]
        BY <1>1, <4>1 DEF PassResp
      <4>4. answer \in TrueToServer'
        BY <4>2, <4>3 DEF TrueToServer
      <4>5. toServer' = Append(toServer, answer)
        BY <1>7, <3>1 DEF ClientAnswer
      <4>6. QED
        BY <1>2, <4>4, <4>5, AppendProperties
    <3>2. CASE ~(used < 3)
      BY <1>2, <1>7, <3>2 DEF ClientAnswer
    <3>3. QED
      BY <3>1, <3>2
  <2>3. TransferOnlyWithSecret' /\ WrittenPrefix' /\ OutputIsWholeFile'
    BY <1>1, <1>2, <1>3, <1>4, <1>7
       DEF ClientAnswer, TransferOnlyWithSecret, WrittenPrefix, OutputIsWholeFile
  <2>4. QED
    BY <2>1, <2>2, <2>3 DEF IInv, PacketsTruthful
<1>8. ASSUME NEW k \in DOMAIN toClient, ClientAccept(k) \/ ClientUnexpected(k)
      PROVE  IInv'
  <2>1. toClient' \in Seq(TrueToClient') /\ toClient[k] \in TrueToClient
    BY <1>5, <1>8 DEF ClientAccept, ClientUnexpected
  <2>2. WrittenPrefix' /\ OutputIsWholeFile'
    BY <1>1, <1>3, <1>4, <1>8
       DEF ClientAccept, ClientUnexpected, WrittenPrefix, OutputIsWholeFile
  <2>3. TransferOnlyWithSecret'
    <3>1. CASE ClientAccept(k)
      BY <1>2, <2>1, <3>1 DEF ClientAccept, TransferOnlyWithSecret, TrueToClient
    <3>2. CASE ClientUnexpected(k)
      BY <1>1, <1>2, <1>3, <3>2 DEF ClientUnexpected, TransferOnlyWithSecret
    <3>3. QED
      BY <1>8, <3>1, <3>2
  <2>4. QED
    BY <1>2, <1>8, <2>1, <2>2, <2>3
       DEF ClientAccept, ClientUnexpected, IInv, PacketsTruthful
<1>9. ASSUME NEW k \in DOMAIN toClient, ClientData(k)
      PROVE  IInv'
  <2>1. toClient' \in Seq(TrueToClient') /\ toClient[k] \in TrueToClient
    BY <1>5, <1>9 DEF ClientData
  <2>2. /\ toClient[k].id = Len(out) /\ toClient[k].id < Len(content)
        /\ toClient[k].data = content[Len(out) + 1]
        /\ out' = Append(out, toClient[k].data)
    BY <1>9, <2>1 DEF ClientData, InSequence, TrueToClient
  <2>3. WrittenPrefix'
    <3>1. content \in Seq(Data) /\ Len(content) \in Nat
          /\ out \in Seq(Data) /\ Len(out) \in Nat
      BY FilePackets, LenProperties DEF TypeOK
    <3>2. content[Len(out) + 1] \in Data
      BY <2>2, <3>1, ElementOfSeq
    <3>3. /\ Len(out') = Len(out) + 1 /\ out'[Len(out) + 1] = content[Len(out) + 1]
          /\ \A i \in 1..Len(out) : out'[i] = out[i]
      BY <2>2, <3>1, <3>2, AppendProperties
    <3>4. QED
      BY <1>1, <1>3, <2>2, <3>1, <3>3 DEF WrittenPrefix
  <2>4. TransferOnlyWithSecret' /\ OutputIsWholeFile'
    BY <1>1, <1>2, <1>3, <1>4, <1>9
       DEF ClientData, TransferOnlyWithSecret, OutputIsWholeFile
  <2>5. QED
    BY <1>2, <1>9, <2>1, <2>3, <2>4 DEF ClientData, IInv, PacketsTruthful
<1>10. ASSUME NEW k \in DOMAIN toClient, ClientTerminate(k)
       PROVE  IInv'
  <2>1. toClient' \in Seq(TrueToClient') /\ toClient[k] \in TrueToClient
    BY <1>5, <1>10 DEF ClientTerminate
  <2>2. OutputIsWholeFile'
    <3>1. CASE Matches(toClient[k])
      <4>1. out = digest /\ client' = "ok" /\ committed' = Append(<<>>, out)
        BY <1>4, <1>10, <2>1, <3>1 DEF ClientTerminate, Matches, TrueToClient
      <4>2. QED
        BY <1>1, <4>1 DEF OutputIsWholeFile
    <3>2. CASE ~Matches(toClient[k])
      BY <1>4, <1>10, <3>2 DEF ClientTerminate, OutputIsWholeFile
    <3>3. QED
      BY <3>1, <3>2
  <2>3. TransferOnlyWithSecret' /\ WrittenPrefix'
    BY <1>1, <1>2, <1>3, <1>10 DEF ClientTerminate, TransferOnlyWithSecret, WrittenPrefix
  <2>4. QED
    BY <1>2, <1>10, <2>1, <2>2, <2>3 DEF ClientTerminate, IInv, PacketsTruthful
<1>11. CASE ClientTimeout \/ ClientFails
  <2>1. toClient' = toClient /\ toServer' = toServer
    BY <1>11 DEF ClientTimeout, ClientFails
  <2>2. TransferOnlyWithSecret' /\ WrittenPrefix' /\ OutputIsWholeFile'
    BY <1>1, <1>2, <1>3, <1>4, <1>11
       DEF ClientTimeout, ClientFails, TransferOnlyWithSecret, WrittenPrefix,
           OutputIsWholeFile
  <2>3. QED
    BY <1>2, <2>1, <2>2 DEF IInv, PacketsTruthful
<1>12. QED
  BY <1>6, <1>7, <1>8, <1>9, <1>10, <1>11 DEF ClientReceive

\* Signals, other peers and the network change no program; what they add is no
\* packet of either.
LEMMA InvRest ==
  ASSUME TypeOK, IInv,
         \/ \E who \in {"server", "client"} : Signal(who)
         \/ OtherSends \/ Lose \/ UNCHANGED vars
  PROVE  IInv'
<1>. USE DEF serverVars, clientVars
<1>1. UNCHANGED <<serverVars, clientVars>>
  BY DEF Signal, OtherSends, Lose, vars
<1>2. /\ TransferOnlyWithSecret' /\ WrittenPrefix' /\ OutputIsWholeFile'
      /\ TrueToClient' = TrueToClient /\ TrueToServer' = TrueToServer
  BY <1>1 DEF IInv, TransferOnlyWithSecret, WrittenPrefix, OutputIsWholeFile,
              TrueToClient, TrueToServer, TypedSecret
<1>3. toClient \in Seq(TrueToClient) /\ toServer \in Seq(TrueToServer)
  BY DEF IInv, PacketsTruthful
<1>4. ASSUME NEW who \in {"server", "client"}, Signal(who)
      PROVE  PacketsTruthful'
  BY <1>2, <1>3, <1>4 DEF Signal, PacketsTruthful
<1>5. CASE OtherSends
  <2>1. CASE toClient' = Append(toClient, Malformed) /\ UNCHANGED toServer
    BY <1>2, <1>3, <2>1, TruePackets, AppendProperties DEF PacketsTruthful, IInv
  <2>2. ASSUME NEW m \in {JoinReq("other"), Malformed}
                      \cup {PassResp("other", w) : w \in Passwords},
               toServer' = Append(toServer, m), UNCHANGED toClient
        PROVE  IInv'
    <3>1. m \in TrueToServer
      BY TruePackets DEF Peers
    <3>2. QED
      BY <1>2, <1>3, <2>2, <3>1, AppendProperties DEF PacketsTruthful, IInv
  <2>3. QED
    BY <1>5, <2>1, <2>2 DEF OtherSends
<1>6. CASE Lose
  BY <1>2, <1>3, <1>6, RemoveAtProperties DEF Lose, PacketsTruthful, IInv
<1>7. CASE UNCHANGED vars
  BY <1>2, <1>3, <1>7 DEF vars, PacketsTruthful, IInv
<1>8. QED
  BY <1>2, <1>4, <1>5, <1>6, <1>7 DEF IInv

\* Every behaviour keeps what is in flight true, the transfer for the password, the
\* output a prefix of the file and the committed file whole.
THEOREM Invariant == Spec => []IInv
<1>1. TypeOK /\ IInv /\ [Next]_vars => IInv'
  BY InvServer, InvClient, InvRest DEF Next, ServerStep, ClientStep, Exited
<1>2. QED
  BY <1>1, InvInit, TypeCorrect, PTL DEF Spec

\* No file goes to a client that has not sent the password, and no client takes itself
\* for accepted otherwise, whatever is duplicated, delayed, reordered or forged.
THEOREM SecretSafety == Spec => []TransferOnlyWithSecret
<1>1. IInv => TransferOnlyWithSecret
  BY DEF IInv
<1>2. QED
  BY <1>1, Invariant, PTL

\* What client.c has written is always a prefix of the file transfer_file() reads.
THEOREM SequenceSafety == Spec => []WritesInSequence
<1>1. TypeOK /\ IInv => WritesInSequence
  <2> SUFFICES ASSUME TypeOK, IInv PROVE WritesInSequence
    OBVIOUS
  <2>1. /\ content \in Seq(Data) /\ Len(content) \in Nat
        /\ out \in Seq(Data) /\ Len(out) \in Nat
        /\ Len(out) <= Len(content) /\ \A i \in 1..Len(out) : out[i] = content[i]
    BY FilePackets, LenProperties DEF TypeOK, IInv, WrittenPrefix
  <2>2. \A i \in 1..Len(out) : out[i] \in Data /\ content[i] \in Data
    BY <2>1, ElementOfSeq
  <2>3. /\ SubSeq(out, 1, Len(out)) \in Seq(Data)
        /\ Len(SubSeq(out, 1, Len(out))) = Len(out)
        /\ \A i \in 1..Len(out) : SubSeq(out, 1, Len(out))[i] = out[i]
    BY <2>1, <2>2, SubSeqProperties
  <2>4. /\ SubSeq(content, 1, Len(out)) \in Seq(Data)
        /\ Len(SubSeq(content, 1, Len(out))) = Len(out)
        /\ \A i \in 1..Len(out) : SubSeq(content, 1, Len(out))[i] = content[i]
    BY <2>1, <2>2, SubSeqProperties
  <2>5. SubSeq(out, 1, Len(out)) = SubSeq(content, 1, Len(out))
    BY <2>1, <2>3, <2>4, SeqEqual
  <2>6. QED
    BY <2>1, <2>5 DEF WritesInSequence, IsPrefix
<1>2. QED
  BY <1>1, Invariant, TypeCorrect, PTL

\* client.c renames a file onto the output path at most once, and only the one whose
\* digest server.c took at its start.
THEOREM OutputSafety == Spec => []OutputIsWholeFile
<1>1. IInv => OutputIsWholeFile
  BY DEF IInv
<1>2. QED
  BY <1>1, Invariant, PTL

(***************************************************************************)
(* The rounds of the password, when nothing is duplicated.                 *)
(***************************************************************************)

\* The turn is a token that server and client pass to each other: a PASS_REQ to be
\* answered, or the client's PASS_RESP to be judged.
Requests == {Control("PASS_REQ")}
Rejects == {Control("REJECT")}
Answers == {PassResp("client", w) : w \in Passwords}
\* PASS_RESPs other than the client's latest.
OldAnswers == {PassResp("client", w) : w \in {v \in Passwords : used = 0 \/ v # typed[used]}}

Token ==
  /\ One(toClient, Requests) /\ One(toServer, Answers)
  /\ ~None(toClient, Requests) =>
       peer = "client" /\ used = attempt - 1 /\ None(toServer, Answers)
  /\ ~None(toServer, Answers) => peer = "client" /\ used = attempt
  /\ None(toServer, OldAnswers)

Rounds ==
  /\ server = "join" => peer = "none"
  /\ peer = "none" => used = 0 /\ attempt = 1
  /\ peer = "client" => attempt - 1 <= used /\ used <= attempt
  /\ server = "auth" /\ peer = "client" => \A i \in 1..(attempt - 1) : typed[i] # Secret
  /\ ~None(toClient, Rejects) => used = 3 /\ ~TypedSecret

StepInv == "duplicate" \notin faults => Token /\ Rounds

\* Keeps: the channel got no datagram of T more.
Keeps(before, after, T) ==
  (None(before, T) => None(after, T)) /\ (One(before, T) => One(after, T))

LEMMA AppendKeeps ==
  ASSUME NEW S, NEW channel \in Seq(S), NEW m \in S, NEW T, m \notin T
  PROVE  Keeps(channel, Append(channel, m), T)
BY AppendTokens DEF Keeps

LEMMA RemoveKeeps ==
  ASSUME NEW S, NEW channel \in Seq(S), NEW k \in DOMAIN channel, NEW T
  PROVE  Keeps(channel, RemoveAt(channel, k), T)
BY RemoveTokens DEF Keeps

\* A receive takes the datagram out of the channel.
LEMMA ReceiveKeeps ==
  ASSUME NEW S, NEW channel \in Seq(S), NEW k \in DOMAIN channel, NEW T,
         "duplicate" \notin faults, NEW rest \in After(channel, k)
  PROVE  /\ Keeps(channel, rest, T)
         /\ One(channel, T) /\ channel[k] \in T => None(rest, T)
<1>1. rest = RemoveAt(channel, k)
  BY DEF After
<1>2. QED
  BY <1>1, RemoveKeeps, RemoveTokens

\* A step that adds no token and changes no counter keeps the rounds.
LEMMA NoTokenAdded ==
  ASSUME Token, Rounds, UNCHANGED <<peer, used, attempt, typed>>,
         server' \in {server, "send"} \cup Finished,
         Keeps(toClient, toClient', Requests), Keeps(toClient, toClient', Rejects),
         Keeps(toServer, toServer', Answers), Keeps(toServer, toServer', OldAnswers)
  PROVE  Token' /\ Rounds'
<1>1. OldAnswers' = OldAnswers /\ Answers' = Answers /\ Requests' = Requests
      /\ Rejects' = Rejects /\ (TypedSecret' <=> TypedSecret)
  BY DEF OldAnswers, Answers, Requests, Rejects, TypedSecret
<1>2. Token'
  BY <1>1 DEF Token, Keeps, None, One
<1>3. Rounds'
  BY <1>1 DEF Rounds, Keeps, None, Finished
<1>4. QED
  BY <1>2, <1>3

\* Which packets are tokens.
LEMMA Tokens ==
  /\ Control("PASS_REQ") \notin Rejects /\ Control("REJECT") \notin Requests
  /\ Control("PASS_ACCEPT") \notin Requests \cup Rejects
  /\ Malformed \notin Requests \cup Rejects \cup Answers
  /\ DataPacket(packetId) \notin Requests \cup Rejects
  /\ Terminate \notin Requests \cup Rejects
  /\ \A who \in Peers : JoinReq(who) \notin Answers
  /\ \A w \in Passwords : PassResp("other", w) \notin Answers
  /\ OldAnswers \subseteq Answers
<1>1. /\ Control("PASS_REQ") \notin Rejects /\ Control("REJECT") \notin Requests
      /\ Control("PASS_ACCEPT") \notin Requests \cup Rejects
      /\ Malformed \notin Requests \cup Rejects
      /\ DataPacket(packetId) \notin Requests \cup Rejects
      /\ Terminate \notin Requests \cup Rejects
  BY DEF Control, Malformed, DataPacket, Terminate, Requests, Rejects
<1>2. /\ Malformed \notin Answers
      /\ \A who \in Peers : JoinReq(who) \notin Answers
      /\ \A w \in Passwords : PassResp("other", w) \notin Answers
  BY DEF Malformed, JoinReq, PassResp, Answers
<1>3. OldAnswers \subseteq Answers
  BY DEF OldAnswers, Answers
<1>4. QED
  BY <1>1, <1>2, <1>3

LEMMA StepInit == Init => StepInv
BY DEF Init, StepInv, Token, Rounds, None, One

\* A server that only receives, or sends part of the file, passes no token.
LEMMA StepServerQuiet ==
  ASSUME TypeOK, Token, Rounds, "duplicate" \notin faults,
         \/ \E k \in DOMAIN toServer : ServerIgnore(k) \/ ServerUnexpected(k)
         \/ ServerSendData \/ ServerTerminate \/ ServerTimeout \/ ServerFails
  PROVE  Token' /\ Rounds'
<1>. USE DEF clientVars
<1>1. /\ UNCHANGED <<peer, used, attempt, typed>>
      /\ server' \in {server, "send"} \cup Finished
  BY DEF ServerIgnore, ServerUnexpected, ServerSendData, ServerTerminate, ServerTimeout,
         ServerFails, Finished
<1>2. Keeps(toServer, toServer', Answers) /\ Keeps(toServer, toServer', OldAnswers)
  <2>1. ASSUME NEW k \in DOMAIN toServer, toServer' \in After(toServer, k)
        PROVE  Keeps(toServer, toServer', Answers) /\ Keeps(toServer, toServer', OldAnswers)
    BY <2>1, ReceiveKeeps DEF TypeOK
  <2>2. CASE toServer' = toServer
    BY <2>2 DEF Keeps
  <2>3. QED
    BY <2>1, <2>2 DEF ServerIgnore, ServerUnexpected, ServerSendData, ServerTerminate,
                      ServerTimeout, ServerFails
<1>3. Keeps(toClient, toClient', Requests) /\ Keeps(toClient, toClient', Rejects)
  <2>1. CASE toClient' = toClient
    BY <2>1 DEF Keeps
  <2>2. CASE packetId < Len(content) /\ toClient' = Append(toClient, DataPacket(packetId))
    BY <2>2, FilePackets, Tokens, AppendKeeps DEF TypeOK
  <2>3. CASE toClient' = Append(toClient, Terminate)
    BY <2>3, FilePackets, Tokens, AppendKeeps DEF TypeOK
  <2>4. QED
    BY <2>1, <2>2, <2>3 DEF ServerIgnore, ServerUnexpected, ServerSendData,
         ServerTerminate, ServerTimeout, ServerFails, SendToPeer
<1>4. QED
  BY <1>1, <1>2, <1>3, NoTokenAdded

\* The first PASS_REQ: nobody has sent a password yet.
LEMMA StepServerJoin ==
  ASSUME TypeOK, Token, Rounds, "duplicate" \notin faults,
         NEW k \in DOMAIN toServer, ServerJoin(k)
  PROVE  Token' /\ Rounds'
<1>. USE DEF clientVars
<1>1. Keeps(toServer, toServer', Answers) /\ Keeps(toServer, toServer', OldAnswers)
  BY ReceiveKeeps DEF ServerJoin, TypeOK
<1>2. /\ UNCHANGED <<used, attempt, typed>> /\ used = 0 /\ attempt = 1 /\ peer = "none"
      /\ server' \in {"auth", "abort"}
  BY DEF ServerJoin, Rounds
<1>3. /\ None(toClient, Requests) /\ None(toServer, Answers) /\ None(toClient, Rejects)
      /\ None(toServer, OldAnswers)
  BY <1>2 DEF Token, Rounds
<1>4. None(toServer', Answers) /\ None(toServer', OldAnswers)
  BY <1>1, <1>3 DEF Keeps
<1>5. /\ One(toClient', Requests) /\ None(toClient', Rejects)
      /\ ~None(toClient', Requests) => peer' = "client"
      /\ peer' \in {"none", "client", "other"}
  <2>1. CASE toClient' = toClient
    <3>1. peer' \in {"none", "client", "other"}
      BY ServerReceives DEF ServerJoin, Peers, Rounds
    <3>2. QED
      BY <1>3, <2>1, <3>1 DEF Token
  <2>2. CASE peer' = "client" /\ toClient' = Append(toClient, Control("PASS_REQ"))
    BY <1>3, <2>2, AppendTokens, ControlPackets, Tokens DEF TypeOK
  <2>3. QED
    BY <2>1, <2>2 DEF ServerJoin, SendToPeer
<1>6. OldAnswers' = OldAnswers /\ Answers' = Answers /\ Requests' = Requests
      /\ Rejects' = Rejects
  BY <1>2 DEF OldAnswers, Answers, Requests, Rejects
<1>7. Token'
  BY <1>2, <1>4, <1>5, <1>6 DEF Token, None, One
<1>8. Rounds'
  BY <1>2, <1>5, <1>6 DEF Rounds, None, ServerJoin
<1>9. QED
  BY <1>7, <1>8

\* The server judges a password: the client's is the one it typed in this round.
LEMMA StepServerPassword ==
  ASSUME TypeOK, Token, Rounds, "duplicate" \notin faults,
         NEW k \in DOMAIN toServer, ServerPassword(k)
  PROVE  Token' /\ Rounds'
<1>. USE DEF clientVars
<1>1. /\ Keeps(toServer, toServer', Answers) /\ Keeps(toServer, toServer', OldAnswers)
      /\ toServer[k] \in Answers => None(toServer', Answers)
  BY ReceiveKeeps DEF ServerPassword, TypeOK, Token
<1>2. /\ UNCHANGED <<peer, used, typed>> /\ server = "auth" /\ peer # "none"
      /\ attempt' \in {attempt, attempt + 1}
  BY ServerReceives DEF ServerPassword, Peers
<1>3. OldAnswers' = OldAnswers /\ Answers' = Answers /\ Requests' = Requests
      /\ Rejects' = Rejects /\ (TypedSecret' <=> TypedSecret)
  BY <1>2 DEF OldAnswers, Answers, Requests, Rejects, TypedSecret
<1>4. None(toServer', OldAnswers)
  BY <1>1 DEF Keeps, Token
<1>5. CASE peer # "client"
  <2>1. /\ None(toClient, Requests) /\ None(toServer, Answers)
        /\ One(toClient, Requests)
    BY <1>5 DEF Token
  <2>2. toClient' = toClient /\ None(toServer', Answers)
    BY <1>1, <1>5, <2>1 DEF ServerPassword, SendToPeer, Keeps
  <2>3. Token'
    BY <1>3, <1>4, <2>1, <2>2 DEF Token, None, One
  <2>4. Rounds'
    BY <1>2, <1>3, <1>5, <2>2 DEF Rounds, None, ServerPassword
  <2>5. QED
    BY <2>3, <2>4
<1>6. CASE peer = "client"
  <2>1. toServer[k] \in Answers /\ toServer[k].word = typed[used] /\ used = attempt
    <3>1. /\ toServer[k] \in ToServerPackets /\ toServer[k].from = "client"
          /\ toServer[k].type = "PASS_RESP"
      BY <1>6, ServerReceives DEF ServerPassword
    <3>2. toServer[k] \in [from : Peers, type : {"PASS_RESP"}, word : Passwords]
      BY <3>1 DEF ToServerPackets, Malformed
    <3>3. PICK w \in Passwords : toServer[k] = PassResp("client", w)
      BY <3>1, <3>2 DEF PassResp
    <3>4. toServer[k] \in Answers /\ toServer[k].word = w
      BY <3>3 DEF Answers, PassResp
    <3>5. used = attempt /\ toServer[k] \notin OldAnswers
      BY <3>4 DEF Token, None
    <3>6. w = typed[used]
      BY <3>3, <3>5 DEF OldAnswers
    <3>7. QED
      BY <3>4, <3>5, <3>6
  <2>2. None(toServer', Answers)
    BY <1>1, <2>1
  <2>3. None(toClient, Requests)
    BY <2>1 DEF Token, None
  <2>4. \A i \in 1..(attempt - 1) : typed[i] # Secret
    BY <1>2, <1>6 DEF Rounds
  <2>5. CASE PasswordOk(toServer[k])
    <3>1. /\ toClient' = Append(toClient, Control("PASS_ACCEPT"))
          /\ server' \in {"send", "abort"} /\ attempt' = attempt
      BY <1>6, <2>5 DEF ServerPassword, SendToPeer
    <3>2. Keeps(toClient, toClient', Requests) /\ Keeps(toClient, toClient', Rejects)
      BY <3>1, ControlPackets, Tokens, AppendKeeps DEF TypeOK
    <3>3. QED
      BY <1>1, <1>2, <3>1, <3>2, NoTokenAdded DEF Finished
  <2>6. CASE ~PasswordOk(toServer[k]) /\ attempt = MaxAttempts
    <3>1. /\ toClient' = Append(toClient, Control("REJECT"))
          /\ server' = "abort" /\ attempt' = attempt
      BY <1>6, <2>6 DEF ServerPassword, SendToPeer
    <3>2. Keeps(toClient, toClient', Requests)
      BY <3>1, ControlPackets, Tokens, AppendKeeps DEF TypeOK
    <3>3. used = 3 /\ ~TypedSecret
      <4>1. typed[3] # Secret /\ used = 3 /\ attempt = 3
        BY <2>1, <2>6 DEF PasswordOk, MaxAttempts
      <4>2. QED
        BY <2>4, <4>1 DEF TypedSecret
    <3>4. Token'
      BY <1>2, <1>3, <1>4, <2>2, <2>3, <3>1, <3>2 DEF Token, Keeps, None, One
    <3>5. Rounds'
      BY <1>2, <1>3, <2>1, <3>1, <3>3 DEF Rounds
    <3>6. QED
      BY <3>4, <3>5
  <2>7. CASE ~PasswordOk(toServer[k]) /\ attempt # MaxAttempts
    <3>1. /\ toClient' = Append(toClient, Control("PASS_REQ"))
          /\ server' \in {"auth", "abort"} /\ attempt' = attempt + 1
      BY <1>6, <2>7 DEF ServerPassword, SendToPeer
    <3>2. One(toClient', Requests) /\ Keeps(toClient, toClient', Rejects)
      BY <2>3, <3>1, ControlPackets, Tokens, AppendKeeps, AppendTokens DEF TypeOK
    <3>3. \A i \in 1..(attempt' - 1) : typed[i] # Secret
      BY <2>1, <2>4, <2>7, <3>1 DEF PasswordOk, TypeOK
    <3>4. Token'
      BY SMTT(60), <1>2, <1>3, <1>4, <1>6, <2>1, <2>2, <3>1, <3>2 DEF Token, None, One, TypeOK
    <3>5. Rounds'
      BY <1>2, <1>3, <1>6, <2>1, <3>1, <3>2, <3>3 DEF Rounds, Keeps, None, TypeOK
    <3>6. QED
      BY <3>4, <3>5
  <2>8. QED
    BY <2>5, <2>6, <2>7
<1>7. QED
  BY <1>5, <1>6

\* The client answers the one PASS_REQ there is, in the round it was sent.
LEMMA StepClientAnswer ==
  ASSUME TypeOK, Token, Rounds, "duplicate" \notin faults,
         NEW k \in DOMAIN toClient, ClientAnswer(k)
  PROVE  Token' /\ Rounds'
<1>. USE DEF serverVars
<1>1. toClient[k] \in Requests
  <2>1. /\ toClient[k] \in ToClientPackets /\ toClient[k].from = "server"
        /\ toClient[k].type = "PASS_REQ"
    BY ClientReceives DEF ClientAnswer
  <2>2. toClient[k] \in [from : {"server"}, type : {"PASS_REQ", "PASS_ACCEPT", "REJECT"}]
    BY <2>1 DEF ToClientPackets, Malformed
  <2>3. QED
    BY <2>1, <2>2 DEF Requests, Control
<1>2. /\ Keeps(toClient, toClient', Rejects) /\ Keeps(toClient, toClient', Requests)
      /\ None(toClient', Requests)
  BY <1>1, ReceiveKeeps DEF ClientAnswer, TypeOK, Token
<1>3. peer = "client" /\ used = attempt - 1 /\ None(toServer, Answers) /\ used < 3
  BY <1>1 DEF Token, None, TypeOK
<1>4. /\ used' = used + 1 /\ UNCHANGED <<peer, attempt, typed, server>>
      /\ toServer' = Append(toServer, PassResp("client", typed[used + 1]))
      /\ PassResp("client", typed[used + 1]) \in ToServerPackets
  BY <1>3, ControlPackets DEF ClientAnswer, TypeOK, Peers
<1>5. used' = attempt /\ used' # 0 /\ None(toClient, Rejects)
  BY <1>3, <1>4 DEF Rounds, TypeOK
<1>6. One(toServer', Answers) /\ None(toServer', OldAnswers')
  <2>1. None(toServer, OldAnswers')
    BY <1>3 DEF None, OldAnswers, Answers
  <2>2. PassResp("client", typed[used + 1]) \notin OldAnswers'
    BY <1>4, <1>5 DEF OldAnswers, PassResp
  <2>3. QED
    BY <1>3, <1>4, <2>1, <2>2, AppendTokens DEF TypeOK
<1>7. Answers' = Answers /\ Requests' = Requests /\ Rejects' = Rejects
  BY DEF Answers, Requests, Rejects
<1>8. Token'
  BY <1>2, <1>3, <1>4, <1>5, <1>6, <1>7 DEF Token, None, One
<1>9. Rounds'
  BY <1>2, <1>3, <1>4, <1>5, <1>7 DEF Rounds, Keeps, None, TypeOK
<1>10. QED
  BY <1>8, <1>9

\* Whatever else the client, other peers or the network do, no token is added.
LEMMA StepRest ==
  ASSUME TypeOK, Token, Rounds, "duplicate" \notin faults,
         \/ \E k \in DOMAIN toClient : \/ ClientAccept(k) \/ ClientData(k)
                                       \/ ClientTerminate(k) \/ ClientUnexpected(k)
         \/ ClientJoin \/ ClientTimeout \/ ClientFails
         \/ \E who \in {"server", "client"} : Signal(who)
         \/ OtherSends \/ Lose \/ UNCHANGED vars
  PROVE  Token' /\ Rounds'
<1>. USE DEF serverVars, clientVars
<1>. DEFINE Kept == /\ Keeps(toClient, toClient', Requests)
                    /\ Keeps(toClient, toClient', Rejects)
                    /\ Keeps(toServer, toServer', Answers)
                    /\ Keeps(toServer, toServer', OldAnswers)
<1>1. toClient \in Seq(ToClientPackets) /\ toServer \in Seq(ToServerPackets)
  BY DEF TypeOK
<1>2. \A channel, T : Keeps(channel, channel, T)
  BY DEF Keeps
<1>3. UNCHANGED <<peer, used, attempt, typed, server>>
  BY DEF ClientAccept, ClientData, ClientTerminate, ClientUnexpected, ClientJoin,
         ClientTimeout, ClientFails, Signal, OtherSends, Lose, vars
<1>4. ASSUME NEW k \in DOMAIN toClient, toClient' \in After(toClient, k),
             toServer' = toServer
      PROVE  Kept
  BY <1>1, <1>2, <1>4, ReceiveKeeps
<1>5. ASSUME ClientJoin
      PROVE  Kept
  <2>1. /\ toServer' = Append(toServer, JoinReq("client")) /\ toClient' = toClient
        /\ JoinReq("client") \in ToServerPackets /\ JoinReq("client") \notin Answers
    BY <1>5, ControlPackets, Tokens DEF ClientJoin, Peers
  <2>2. QED
    BY <1>1, <1>2, <2>1, Tokens, AppendKeeps
<1>6. ASSUME toClient' = toClient /\ toServer' = toServer
      PROVE  Kept
  BY <1>2, <1>6
<1>7. ASSUME OtherSends
      PROVE  Kept
  <2>1. ASSUME toClient' = Append(toClient, Malformed) /\ toServer' = toServer
        PROVE  Kept
    BY <1>1, <1>2, <2>1, ControlPackets, Tokens, AppendKeeps
  <2>2. ASSUME NEW m \in {JoinReq("other"), Malformed}
                      \cup {PassResp("other", w) : w \in Passwords},
               toServer' = Append(toServer, m), toClient' = toClient
        PROVE  Kept
    <3>1. m \in ToServerPackets /\ m \notin Answers
      BY ControlPackets, Tokens DEF Peers
    <3>2. QED
      BY <1>1, <1>2, <2>2, <3>1, Tokens, AppendKeeps
  <2>3. QED
    BY <1>7, <2>1, <2>2 DEF OtherSends
<1>8. ASSUME Lose
      PROVE  Kept
  <2>1. ASSUME NEW k \in DOMAIN toClient, toClient' = RemoveAt(toClient, k),
               toServer' = toServer
        PROVE  Kept
    BY <1>1, <1>2, <2>1, RemoveKeeps
  <2>2. ASSUME NEW k \in DOMAIN toServer, toServer' = RemoveAt(toServer, k),
               toClient' = toClient
        PROVE  Kept
    BY <1>1, <1>2, <2>2, RemoveKeeps
  <2>3. QED
    BY <1>8, <2>1, <2>2 DEF Lose
<1>9. Kept
  <2>1. ASSUME \E k \in DOMAIN toClient : \/ ClientAccept(k) \/ ClientData(k)
                                          \/ ClientTerminate(k) \/ ClientUnexpected(k)
        PROVE  Kept
    BY <1>4, <2>1 DEF ClientAccept, ClientData, ClientTerminate, ClientUnexpected
  <2>2. ASSUME \/ ClientTimeout \/ ClientFails \/ UNCHANGED vars
               \/ \E who \in {"server", "client"} : Signal(who)
        PROVE  Kept
    BY <1>6, <2>2 DEF ClientTimeout, ClientFails, vars, Signal
  <2>3. QED
    BY <1>5, <1>7, <1>8, <2>1, <2>2
<1>10. QED
  BY <1>3, <1>9, NoTokenAdded

\* As long as nothing is duplicated, one side at a time has the turn.
THEOREM Turns == Spec => []StepInv
<1>1. TypeOK /\ StepInv /\ [Next]_vars => StepInv'
  <2> SUFFICES ASSUME TypeOK, StepInv, [Next]_vars, "duplicate" \notin faults'
               PROVE  Token' /\ Rounds'
    BY DEF StepInv
  <2>1. faults' = faults
    BY DEF Next, ServerStep, ClientStep, ServerReceive, ClientReceive, ServerJoin,
           ServerIgnore, ServerUnexpected, ServerPassword, ServerSendData,
           ServerTerminate, ServerTimeout, ServerFails, ClientJoin, ClientAnswer,
           ClientAccept, ClientData, ClientTerminate, ClientUnexpected, ClientTimeout,
           ClientFails, Signal, OtherSends, Lose, Exited, vars
  <2>2. Token /\ Rounds /\ "duplicate" \notin faults
    BY <2>1 DEF StepInv
  <2>3. QED
    BY <2>2, StepServerQuiet, StepServerJoin, StepServerPassword, StepClientAnswer, StepRest
       DEF Next, ServerStep, ClientStep, ServerReceive, ClientReceive, Exited
<1>2. QED
  BY <1>1, StepInit, TypeCorrect, PTL DEF Spec

\* Without duplicates the server's round and the client's count never drift apart, and
\* REJECT is only ever sent to a client whose three passwords were all wrong.
THEOREM AttemptsSafety == Spec => []AttemptsInStep
<1>1. StepInv => AttemptsInStep
  BY DEF StepInv, AttemptsInStep, Rounds, None, Rejects, Range
<1>2. QED
  BY <1>1, Turns, PTL
=============================================================================
