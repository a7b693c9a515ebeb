----------------------------- MODULE DemosProofs -----------------------------
(***************************************************************************)
(* Proofs about Demos.  A behaviour keeps its protocol, so that each       *)
(* protocol has an invariant of its own, and the steps of the others need  *)
(* nothing but the lemmas at the beginning.                                *)
(***************************************************************************)
EXTENDS Demos, SequenceTheorems, WellFoundedInduction, TLAPS

-----------------------------------------------------------------------------
(***************************************************************************)
(* What the programs of each protocol leave as it is.                      *)
(***************************************************************************)
SettingsStay == UNCHANGED <<protocol, scenario, faults, original, content>>
FilesStay == UNCHANGED <<protocol, scenario, faults, original, content, written, committed>>

LEMMA QuicKeeps == QuicServer \/ QuicClient => SettingsStay
BY DEF QuicServer, QuicClient, QuicServerInitial, QuicServerZeroRtt,
       QuicServerNoZeroRtt, QuicServerHandshakeAck, QuicServerAck, QuicServerFails,
       QuicClientStart, QuicClientHandshake, QuicClientStream, QuicClientClose,
       QuicClientIgnores, QuicClientFails, quietVars, settingVars, settledVars,
       fileVars, SettingsStay

LEMMA RadiusKeeps == RadiusServer \/ RadiusClient => FilesStay
BY DEF RadiusServer, RadiusClient, RadiusServerRequest, RadiusServerIgnores,
       RadiusServerAccounting, RadiusServerFails, RadiusClientStart,
       RadiusClientResponse, RadiusClientNoResponse, RadiusClientEnd, quietVars,
       settingVars, settledVars, fileVars, FilesStay

LEMMA SipKeeps == SipServer \/ SipClient => FilesStay
BY DEF SipServer, SipClient, SipServerRegister, SipServerInvite, SipServerAckOrBye,
       SipServerFails, SipClientStart, SipClientRegistered, SipClientNotRegistered,
       SipClientInvited, SipClientInviteFails, SipClientBye, quietVars,
       settingVars, settledVars, fileVars, FilesStay

LEMMA DnsKeeps == DnsServer \/ DnsClient => FilesStay
BY DEF DnsServer, DnsClient, DnsServerQuery, DnsServerFails, DnsClientStart,
       DnsClientResponse, DnsClientFails, quietVars, settingVars, settledVars,
       fileVars, FilesStay

LEMMA TcpKeeps == TcpServer \/ TcpClient => SettingsStay
BY DEF TcpServer, TcpClient, TcpServerJoin, TcpServerPassword, TcpServerUnexpected,
       TcpServerReceiveFails, TlsServerHello, TlsServerFinished,
       TcpServerSendsUnit, TcpServerTerminates, TcpServerSendBreaks,
       TcpClientStart, TcpClientRefused, TcpClientAuth, TcpClientReceiveFails,
       TlsClientHello, TlsClientFinished, TcpClientData, TcpClientTerminate,
       quietVars, settingVars, settledVars, fileVars, SettingsStay

LEMMA MqttKeeps == MqttServer \/ MqttClient => FilesStay
BY DEF MqttServer, MqttClient, MqttServerConnect, MqttServerSubscribe,
       MqttServerPublish, MqttServerRepeats, MqttServerBreaks,
       MqttServerDisconnect, MqttServerFails, MqttClientStart, MqttClientConnack,
       MqttClientSuback, MqttClientPubrec, MqttClientPubrecAgain,
       MqttClientNoReplay, MqttClientFails, quietVars, settingVars, settledVars,
       fileVars, FilesStay

LEMMA WebKeeps == WebServer \/ WebClient => FilesStay
BY DEF WebServer, WebClient, WebServerServes, WebServerInterrupted, WebClientStart,
       WebClientResponse, WebClientFails, quietVars, settingVars, settledVars,
       fileVars, FilesStay

LEMMA WsKeeps == WsServer \/ WsClient => SettingsStay
BY DEF WsServer, WsClient, WsServerUpgrade, WsServerSendsText, WsServerSendBreaks,
       WsServerPong, WsServerFails, WsClientStart, WsClientUpgraded, WsClientText,
       WsClientPing, WsClientClose, WsClientFails, quietVars, settingVars,
       settledVars, fileVars, SettingsStay

LEMMA H2Keeps == H2Server \/ H2Client => FilesStay
BY DEF H2Server, H2Client, H2ServerPreface, H2ServerSettings, H2ServerHeaders,
       H2ServerBody, H2ServerOverflow, H2ServerOtherFrame, H2ServerReceiveFails,
       H2ServerSendBreaks, H2ClientStart, H2ClientSettings, H2ClientSettingsFail,
       H2ClientHeaders, H2ClientData, H2ClientLost, H2ClientSkips,
       H2ClientLostEnds, quietVars, settingVars, settledVars, fileVars, FilesStay

LEMMA PacketKeeps == PacketSend \/ PacketReceive \/ PacketOther => FilesStay
BY DEF PacketSend, PacketReceive, PacketOther, quietVars, settingVars, settledVars,
       fileVars, FilesStay

LEMMA DigestKeeps == Digest => FilesStay
BY DEF Digest, DigestCopy, DigestUpdate, DigestReadFails, DigestFinalOne,
       DigestFinalZero, DigestFinalLength, DigestFinal, quietVars, settingVars,
       settledVars, fileVars, FilesStay

LEMMA RequestKeeps == RequestServer \/ RequestBrowser => FilesStay
BY DEF RequestServer, RequestBrowser, RequestReceive, RequestEnds, BrowserSends,
       BrowserLeaves, quietVars, settingVars, settledVars, fileVars, FilesStay

LEMMA FrameKeeps == FrameServer \/ FrameBrowser => FilesStay
BY DEF FrameServer, FrameBrowser, FrameReceive, FrameByte, FrameSocketEnds,
       BrowserSendsFrame, FrameArrives, BrowserClosesSocket, quietVars, settingVars, settledVars,
       fileVars, FilesStay

LEMMA NetworkKeeps == Lose \/ Duplicate \/ Strangers => FilesStay
BY PacketKeeps
   DEF Lose, Duplicate, Strangers, OtherSends, settingVars, fileVars, FilesStay

\* No step changes the protocol, its scenario and environment, or the server's file.
LEMMA SettingsKept == [Next]_demoVars => SettingsStay
<1>1. FilesStay => SettingsStay
  BY DEF FilesStay, SettingsStay
<1>2. Server \/ Client => SettingsStay
  BY <1>1, QuicKeeps, RadiusKeeps, SipKeeps, DnsKeeps, TcpKeeps, MqttKeeps, WebKeeps,
     WsKeeps, H2Keeps, PacketKeeps, DigestKeeps, RequestKeeps, FrameKeeps
     DEF Server, Client
<1>3. UNCHANGED demoVars => SettingsStay
  BY DEF demoVars, SettingsStay
<1>4. QED
  BY <1>1, <1>2, <1>3, NetworkKeeps DEF Next

-----------------------------------------------------------------------------
(***************************************************************************)
(* The channels between the two programs.                                  *)
(***************************************************************************)
LEMMA OtherIs == Other("server") = "client" /\ Other("client") = "server"
BY DEF Other, Programs

\* A function of the programs.
Pair(f) == f = [server |-> f.server, client |-> f.client]

\* p sends, and the other program's channel grows.
LEMMA SendIs ==
  ASSUME Pair(net), NEW msgs
  PROVE  /\ Send("server", msgs) =>
              net' = [server |-> net.server, client |-> net.client \o msgs]
         /\ Send("client", msgs) =>
              net' = [server |-> net.server \o msgs, client |-> net.client]
BY OtherIs DEF Send, Pair

LEMMA GotoIs ==
  ASSUME Pair(at), NEW place
  PROVE  /\ Goto("server", place) =>
              at' = [server |-> place, client |-> at.client] /\ results' = results
         /\ Goto("client", place) =>
              at' = [server |-> at.server, client |-> place] /\ results' = results
BY DEF Goto, Pair

\* new is old with msgs behind it; new is old without its first element.
Grows(old, new, msgs) ==
  /\ Len(new) = Len(old) + Len(msgs)
  /\ \A i \in 1..Len(old) : new[i] = old[i]
  /\ \A i \in 1..Len(msgs) : new[Len(old) + i] = msgs[i]
Shrinks(old, new) ==
  /\ Len(new) + 1 = Len(old)
  /\ \A i \in 1..Len(new) : new[i] = old[i + 1]

\* What is on its way between the programs are members of S.
Channels(S) == Pair(net) /\ net.server \in Seq(S) /\ net.client \in Seq(S)

LEMMA Concatenated ==
  ASSUME NEW S, NEW old \in Seq(S), NEW msgs \in Seq(S)
  PROVE  old \o msgs \in Seq(S) /\ Grows(old, old \o msgs, msgs)
<1>. DEFINE new == old \o msgs
<1>1. Len(old) \in Nat /\ Len(msgs) \in Nat
  OBVIOUS
<1>2. /\ new \in Seq(S) /\ Len(new) = Len(old) + Len(msgs)
      /\ \A i \in 1..Len(new) : new[i] = IF i <= Len(old) THEN old[i] ELSE msgs[i - Len(old)]
  BY ConcatProperties
<1>. HIDE DEF new
<1>3. \A i \in 1..Len(msgs) : (Len(old) + i) - Len(old) = i
  BY <1>1
<1>4. \A i \in 1..Len(msgs) : new[Len(old) + i] = msgs[i]
  BY <1>1, <1>2, <1>3
<1>5. \A i \in 1..Len(old) : new[i] = old[i]
  BY <1>1, <1>2
<1>6. QED
  BY <1>2, <1>4, <1>5 DEF Grows, new

LEMMA FirstRemoved ==
  ASSUME NEW S, NEW old \in Seq(S), old # <<>>
  PROVE  /\ RemoveAt(old, 1) = SubSeq(old, 2, Len(old))
         /\ SubSeq(old, 2, Len(old)) \in Seq(S)
         /\ Shrinks(old, SubSeq(old, 2, Len(old)))
<1>. DEFINE new == SubSeq(old, 2, Len(old))
<1>1. Len(old) \in Nat /\ Len(old) >= 1
  BY EmptySeq
<1>2. /\ new \in Seq(S) /\ Len(new) + 1 = Len(old)
      /\ \A i \in 1..Len(new) : new[i] = old[2 + i - 1]
  <2>1. 2 \in 1..Len(old) + 1 /\ Len(old) \in (2 - 1)..Len(old)
    BY <1>1
  <2>2. /\ new \in Seq(S) /\ Len(new) = IF 2 <= Len(old) THEN Len(old) - 2 + 1 ELSE 0
        /\ \A i \in 1..Len(new) : new[i] = old[2 + i - 1]
    BY <2>1, SubSeqProperties
  <2>. HIDE DEF new
  <2>3. QED
    BY <1>1, <2>2
<1>. HIDE DEF new
<1>3. Len(new) \in Nat /\ \A i \in 1..Len(new) : 2 + i - 1 = i + 1
  BY <1>2
<1>4. Shrinks(old, new)
  BY <1>2, <1>3 DEF Shrinks
<1>5. RemoveAt(old, 1) = new
  <2>1. SubSeq(old, 1, 0) = <<>>
    BY <1>1
  <2>2. RemoveAt(old, 1) = SubSeq(old, 1, 1 - 1) \o SubSeq(old, 1 + 1, Len(old))
    BY DEF RemoveAt
  <2>3. RemoveAt(old, 1) = <<>> \o new
    BY <2>1, <2>2 DEF new
  <2>4. QED
    BY <1>2, <2>3, ConcatEmptySeq
<1>6. QED
  BY <1>2, <1>4, <1>5 DEF new

LEMMA ExchangeIs ==
  ASSUME Pair(net), NEW i, NEW msgs
  PROVE  /\ Exchange("server", i, msgs) =>
              net' = [server |-> RemoveAt(net.server, i), client |-> net.client \o msgs]
         /\ Exchange("client", i, msgs) =>
              net' = [server |-> net.server \o msgs, client |-> RemoveAt(net.client, i)]
BY OtherIs DEF Exchange, Pair

LEMMA ServerExchanges ==
  ASSUME NEW S, Channels(S), net.server # <<>>, NEW msgs \in Seq(S), Exchange("server", 1, msgs)
  PROVE  /\ Channels(S)'
         /\ Shrinks(net.server, net'.server) /\ Grows(net.client, net'.client, msgs)
<1>1. Pair(net) /\ net.server \in Seq(S) /\ net.client \in Seq(S)
  BY DEF Channels
<1>2. net' = [server |-> RemoveAt(net.server, 1), client |-> net.client \o msgs]
  BY <1>1, ExchangeIs
<1>3. /\ RemoveAt(net.server, 1) \in Seq(S) /\ Shrinks(net.server, RemoveAt(net.server, 1))
      /\ net.client \o msgs \in Seq(S) /\ Grows(net.client, net.client \o msgs, msgs)
  BY <1>1, FirstRemoved, Concatenated
<1>4. QED
  BY <1>2, <1>3 DEF Channels, Pair

LEMMA ClientExchanges ==
  ASSUME NEW S, Channels(S), net.client # <<>>, NEW msgs \in Seq(S), Exchange("client", 1, msgs)
  PROVE  /\ Channels(S)'
         /\ Shrinks(net.client, net'.client) /\ Grows(net.server, net'.server, msgs)
<1>1. Pair(net) /\ net.server \in Seq(S) /\ net.client \in Seq(S)
  BY DEF Channels
<1>2. net' = [server |-> net.server \o msgs, client |-> RemoveAt(net.client, 1)]
  BY <1>1, ExchangeIs
<1>3. /\ RemoveAt(net.client, 1) \in Seq(S) /\ Shrinks(net.client, RemoveAt(net.client, 1))
      /\ net.server \o msgs \in Seq(S) /\ Grows(net.server, net.server \o msgs, msgs)
  BY <1>1, FirstRemoved, Concatenated
<1>4. QED
  BY <1>2, <1>3 DEF Channels, Pair

LEMMA ServerSends ==
  ASSUME NEW S, Channels(S), NEW msgs \in Seq(S), Send("server", msgs)
  PROVE  /\ Channels(S)'
         /\ net'.server = net.server /\ Grows(net.client, net'.client, msgs)
<1>1. Pair(net) /\ net.server \in Seq(S) /\ net.client \in Seq(S)
  BY DEF Channels
<1>2. net' = [server |-> net.server, client |-> net.client \o msgs]
  BY <1>1, SendIs
<1>3. net.client \o msgs \in Seq(S) /\ Grows(net.client, net.client \o msgs, msgs)
  BY <1>1, Concatenated
<1>4. QED
  BY <1>1, <1>2, <1>3 DEF Channels, Pair

LEMMA ClientSends ==
  ASSUME NEW S, Channels(S), NEW msgs \in Seq(S), Send("client", msgs)
  PROVE  /\ Channels(S)'
         /\ net'.client = net.client /\ Grows(net.server, net'.server, msgs)
<1>1. Pair(net) /\ net.server \in Seq(S) /\ net.client \in Seq(S)
  BY DEF Channels
<1>2. net' = [server |-> net.server \o msgs, client |-> net.client]
  BY <1>1, SendIs
<1>3. net.server \o msgs \in Seq(S) /\ Grows(net.server, net.server \o msgs, msgs)
  BY <1>1, Concatenated
<1>4. QED
  BY <1>1, <1>2, <1>3 DEF Channels, Pair

\* new is old with m behind it.
Gains(old, new, m) ==
  /\ Len(new) = Len(old) + 1
  /\ \A i \in 1..Len(old) : new[i] = old[i]
  /\ new[Len(old) + 1] = m

LEMMA GrowsByOne ==
  ASSUME NEW S, NEW old \in Seq(S), NEW new \in Seq(S), NEW m, Grows(old, new, <<m>>)
  PROVE  Gains(old, new, m)
<1>. DEFINE one == <<m>>
<1>1. Len(one) = 1 /\ one[1] = m
  OBVIOUS
<1>. HIDE DEF one
<1>2. Grows(old, new, one)
  BY DEF one
<1>3. QED
  BY <1>1, <1>2 DEF Grows, Gains

LEMMA GrowsByNone ==
  ASSUME NEW S, NEW old \in Seq(S), NEW new \in Seq(S), Grows(old, new, <<>>)
  PROVE  new = old
<1>1. Len(new) = Len(old) /\ \A i \in 1..Len(old) : new[i] = old[i]
  BY EmptySeq DEF Grows
<1>2. QED
  BY <1>1, SeqEqual

\* Exchanges of one message for another or for none.
LEMMA ServerAnswers ==
  ASSUME NEW S, Channels(S), net.server # <<>>, NEW m \in S, Exchange("server", 1, <<m>>)
  PROVE  /\ Channels(S)'
         /\ Shrinks(net.server, net'.server) /\ Gains(net.client, net'.client, m)
<1>. DEFINE one == <<m>>
<1>1. one \in Seq(S)
  OBVIOUS
<1>2. Exchange("server", 1, one)
  OBVIOUS
<1>. HIDE DEF one
<1>3. /\ Channels(S)' /\ Shrinks(net.server, net'.server)
      /\ Grows(net.client, net'.client, one)
  BY <1>1, <1>2, ServerExchanges
<1>4. net.client \in Seq(S) /\ net'.client \in Seq(S)
  BY <1>3 DEF Channels
<1>5. QED
  BY <1>3, <1>4, GrowsByOne DEF one

LEMMA ServerTakes ==
  ASSUME NEW S, Channels(S), net.server # <<>>, Exchange("server", 1, <<>>)
  PROVE  /\ Channels(S)'
         /\ Shrinks(net.server, net'.server) /\ net'.client = net.client
<1>1. <<>> \in Seq(S)
  BY EmptySeq
<1>2. /\ Channels(S)' /\ Shrinks(net.server, net'.server)
      /\ Grows(net.client, net'.client, <<>>)
  BY <1>1, ServerExchanges
<1>3. net.client \in Seq(S) /\ net'.client \in Seq(S)
  BY <1>2 DEF Channels
<1>4. QED
  BY <1>2, <1>3, GrowsByNone

LEMMA ClientAnswers ==
  ASSUME NEW S, Channels(S), net.client # <<>>, NEW m \in S, Exchange("client", 1, <<m>>)
  PROVE  /\ Channels(S)'
         /\ Shrinks(net.client, net'.client) /\ Gains(net.server, net'.server, m)
<1>. DEFINE one == <<m>>
<1>1. one \in Seq(S)
  OBVIOUS
<1>2. Exchange("client", 1, one)
  OBVIOUS
<1>. HIDE DEF one
<1>3. /\ Channels(S)' /\ Shrinks(net.client, net'.client)
      /\ Grows(net.server, net'.server, one)
  BY <1>1, <1>2, ClientExchanges
<1>4. net.server \in Seq(S) /\ net'.server \in Seq(S)
  BY <1>3 DEF Channels
<1>5. QED
  BY <1>3, <1>4, GrowsByOne DEF one

LEMMA ClientTakes ==
  ASSUME NEW S, Channels(S), net.client # <<>>, Exchange("client", 1, <<>>)
  PROVE  /\ Channels(S)'
         /\ Shrinks(net.client, net'.client) /\ net'.server = net.server
<1>1. <<>> \in Seq(S)
  BY EmptySeq
<1>2. /\ Channels(S)' /\ Shrinks(net.client, net'.client)
      /\ Grows(net.server, net'.server, <<>>)
  BY <1>1, ClientExchanges
<1>3. net.server \in Seq(S) /\ net'.server \in Seq(S)
  BY <1>2 DEF Channels
<1>4. QED
  BY <1>2, <1>3, GrowsByNone

LEMMA ServerSendsOne ==
  ASSUME NEW S, Channels(S), NEW m \in S, Send("server", <<m>>)
  PROVE  Channels(S)' /\ net'.server = net.server /\ Gains(net.client, net'.client, m)
<1>. DEFINE one == <<m>>
<1>1. one \in Seq(S)
  OBVIOUS
<1>2. Send("server", one)
  OBVIOUS
<1>. HIDE DEF one
<1>3. Channels(S)' /\ net'.server = net.server /\ Grows(net.client, net'.client, one)
  BY <1>1, <1>2, ServerSends
<1>4. net.client \in Seq(S) /\ net'.client \in Seq(S)
  BY <1>3 DEF Channels
<1>5. QED
  BY <1>3, <1>4, GrowsByOne DEF one

LEMMA ClientSendsOne ==
  ASSUME NEW S, Channels(S), NEW m \in S, Send("client", <<m>>)
  PROVE  Channels(S)' /\ net'.client = net.client /\ Gains(net.server, net'.server, m)
<1>. DEFINE one == <<m>>
<1>1. one \in Seq(S)
  OBVIOUS
<1>2. Send("client", one)
  OBVIOUS
<1>. HIDE DEF one
<1>3. Channels(S)' /\ net'.client = net.client /\ Grows(net.server, net'.server, one)
  BY <1>1, <1>2, ClientSends
<1>4. net.server \in Seq(S) /\ net'.server \in Seq(S)
  BY <1>3 DEF Channels
<1>5. QED
  BY <1>3, <1>4, GrowsByOne DEF one

\* demo_finish and a signal that ends a program.
LEMMA FinishIs ==
  ASSUME Pair(at), Pair(results), NEW printed
  PROVE  /\ Finish("server", printed) =>
              /\ at' = [server |-> "exit", client |-> at.client]
              /\ results' = [server |-> results.server \o printed, client |-> results.client]
         /\ Finish("client", printed) =>
              /\ at' = [server |-> at.server, client |-> "exit"]
              /\ results' = [server |-> results.server, client |-> results.client \o printed]
         /\ Killed("server") =>
              at' = [server |-> "exit", client |-> at.client] /\ results' = results
         /\ Killed("client") =>
              at' = [server |-> at.server, client |-> "exit"] /\ results' = results
BY DEF Finish, Killed, Pair

LEMMA PlacesInit ==
  ASSUME NEW place, ProgramsInit(place)
  PROVE  /\ at = [server |-> place, client |-> "start"] /\ Pair(at)
         /\ net = [server |-> <<>>, client |-> <<>>] /\ Pair(net)
         /\ results = [server |-> <<>>, client |-> <<>>] /\ Pair(results)
         /\ stopped = {}
BY DEF ProgramsInit, ProgramsAt, Programs, Pair

LEMMA MinOfTwo ==
  ASSUME NEW a \in Int, NEW b \in Int
  PROVE  Min({a, b}) \in {a, b} /\ Min({a, b}) <= a /\ Min({a, b}) <= b
<1>1. \E x \in {a, b} : \A y \in {a, b} : x <= y
  <2>1. CASE a <= b
    BY <2>1
  <2>2. CASE b <= a
    BY <2>2
  <2>3. QED
    BY <2>1, <2>2
<1>2. QED
  BY <1>1 DEF Min

-----------------------------------------------------------------------------
(***************************************************************************)
(* ControlRequests.                                                        *)
(***************************************************************************)
Outcomes == {"open", "answered", "400", "413", "dropped"}

\* The bytes sent are those received and those on their way, and the server has ended
\* when the outcome is settled.
RequestShape ==
  /\ faults = {} /\ Pair(at) /\ Pair(net)
  /\ mem \in [request : Requests, sent : Nat, used : Nat, outcome : Outcomes]
  /\ net.server \in Seq({"byte"})
  /\ mem.used <= RequestBuffer
  /\ Ended("server") <=> mem.outcome # "open"

RequestInv == protocol = "control" => RequestShape /\ RequestsRead

LEMMA RequestStep ==
  ASSUME [Next]_demoVars, protocol = "control", faults = {}
  PROVE  RequestServer \/ RequestBrowser \/ UNCHANGED demoVars
BY DEF Next, Server, Client, Strangers, Lose, Duplicate, TcpFamily, WebFamily

LEMMA RequestInitially == Init => RequestInv
<1>. SUFFICES ASSUME Init, protocol = "control"
              PROVE  RequestShape /\ RequestsRead
  BY DEF RequestInv
<1>1. RequestInit
  BY DEF Init, QuicInit, RadiusInit, SipInit, DnsInit, TcpInit, MqttInit, WebInit, WsInit,
         Http2Init, PacketInit, DigestInit, FramesInit
<1>2. ProgramsInit("receive") /\ faults = {}
  BY <1>1 DEF RequestInit
<1>3. PICK r \in Requests : mem = [request |-> r, sent |-> 0, used |-> 0, outcome |-> "open"]
  BY <1>1 DEF RequestInit
<1>5. Pair(at) /\ Pair(net) /\ at.server = "receive" /\ net.server = <<>>
  BY <1>2, PlacesInit
<1>6. /\ mem \in [request : Requests, sent : Nat, used : Nat, outcome : Outcomes]
      /\ mem.used <= RequestBuffer /\ mem.outcome = "open"
  BY <1>3, RequestBufferAssumption DEF Outcomes
<1>7. RequestShape
  BY <1>2, <1>5, <1>6 DEF RequestShape, Ended
<1>8. QED
  BY <1>6, <1>7 DEF RequestsRead, WholeRequestsOnly, DroppedForAReason

\* What read_http_request() makes of n bytes is settled only for a reason.
LEMMA VerdictHasReason ==
  ASSUME NEW r \in Requests, NEW n \in Nat
  PROVE  /\ RequestVerdict(r, n) \in Outcomes
         /\ RequestVerdict(r, n) \in {"answered", "400"} => n >= r.head /\ n >= r.head + r.length
         /\ RequestVerdict(r, n) = "dropped" =>
              \/ r.head > RequestBuffer
              \/ r.head + r.length > RequestBuffer /\ r.length <= MaxBody
<1>1. r.head \in Nat /\ r.length \in Nat \cup {-1} /\ RequestBuffer \in Nat /\ MaxBody \in Nat
  BY RequestsAssumption, RequestBufferAssumption DEF IsRequest
<1>2. QED
  BY <1>1 DEF RequestVerdict, Outcomes, BodyTooLong, Enough

LEMMA RequestNext ==
  ASSUME RequestInv, [Next]_demoVars
  PROVE  RequestInv'
<1>. SUFFICES ASSUME protocol' = "control"
              PROVE  RequestShape' /\ RequestsRead'
  BY DEF RequestInv
<1>1. protocol = "control" /\ faults' = faults
  BY SettingsKept DEF SettingsStay
<1>2. RequestShape /\ RequestsRead
  BY <1>1 DEF RequestInv
<1>3. CASE BrowserSends
  <2>1. PICK n \in 1..(mem.request.head + mem.request.body - mem.sent) :
          /\ Send("client", [i \in 1..n |-> "byte"])
          /\ mem' = [mem EXCEPT !.sent = @ + n]
    BY <1>3 DEF BrowserSends
  <2>2. UNCHANGED at
    BY <1>3 DEF BrowserSends
  <2>3. [i \in 1..n |-> "byte"] \in Seq({"byte"}) /\ n \in Nat
    BY <1>2, RequestsAssumption DEF RequestShape, IsRequest
  <2>4. net' = [server |-> net.server \o [i \in 1..n |-> "byte"], client |-> net.client]
    BY <1>2, <2>1, SendIs DEF RequestShape
  <2>5. Pair(net') /\ net'.server \in Seq({"byte"})
    BY <1>2, <2>3, <2>4, ConcatProperties DEF RequestShape, Pair
  <2>6. /\ mem' \in [request : Requests, sent : Nat, used : Nat, outcome : Outcomes]
        /\ mem'.request = mem.request /\ mem'.used = mem.used /\ mem'.outcome = mem.outcome
    BY <1>2, <2>1, <2>3 DEF RequestShape
  <2>7. QED
    BY <1>1, <1>2, <2>2, <2>5, <2>6
       DEF RequestShape, RequestsRead, WholeRequestsOnly, DroppedForAReason, Ended
<1>4. CASE BrowserLeaves
  <2>1. at' = [server |-> at.server, client |-> "exit"] /\ UNCHANGED <<net, mem>>
    BY <1>2, <1>4, GotoIs DEF BrowserLeaves, RequestShape
  <2>2. QED
    BY <1>1, <1>2, <2>1
       DEF RequestShape, RequestsRead, WholeRequestsOnly, DroppedForAReason, Ended, Pair
<1>5. CASE RequestReceive
  <2>1. PICK n \in 1..Min({Len(net.server), RequestBuffer - mem.used}) :
          LET result == RequestVerdict(mem.request, mem.used + n)
          IN  /\ net' = [net EXCEPT !.server = SubSeq(@, n + 1, Len(@))]
              /\ mem' = [mem EXCEPT !.used = @ + n, !.outcome = result]
              /\ Goto("server", IF result = "open" THEN "receive" ELSE "exit")
    BY <1>5 DEF RequestReceive
  <2>. DEFINE result == RequestVerdict(mem.request, mem.used + n)
              there == Len(net.server)
              room == RequestBuffer - mem.used
  <2>2. n \in Nat /\ n <= Len(net.server) /\ mem.used + n <= RequestBuffer
    <3>1. mem.used \in Nat /\ Len(net.server) \in Nat /\ RequestBuffer \in Nat
      BY <1>2, RequestBufferAssumption DEF RequestShape
    <3>2. there \in Int /\ room \in Int /\ n \in 1..Min({there, room})
      BY <2>1, <3>1
    <3>3. n \in Nat /\ n <= there /\ n <= room
      <4>. HIDE DEF there, room
      <4>. DEFINE least == Min({there, room})
      <4>1. least \in {there, room} /\ least <= there /\ least <= room
        BY <3>2, MinOfTwo
      <4>2. n \in 1..least
        BY <3>2
      <4>. HIDE DEF least
      <4>3. QED
        BY <3>2, <4>1, <4>2
    <3>4. QED
      BY <3>1, <3>3
  <2>8. /\ net' = [net EXCEPT !.server = SubSeq(net.server, n + 1, Len(net.server))]
        /\ mem' = [mem EXCEPT !.used = mem.used + n, !.outcome = result]
        /\ Goto("server", IF result = "open" THEN "receive" ELSE "exit")
    BY <2>1
  <2>3. RequestVerdict(mem.request, mem.used + n) \in Outcomes
    BY <1>2, <2>2, VerdictHasReason DEF RequestShape
  <2>4. /\ mem' \in [request : Requests, sent : Nat, used : Nat, outcome : Outcomes]
        /\ mem'.request = mem.request /\ mem'.used = mem.used + n
        /\ mem'.outcome = result
    <3>1. result \in Outcomes /\ mem.used + n \in Nat
      BY <1>2, <2>2, <2>3 DEF RequestShape
    <3>. HIDE DEF result
    <3>2. QED
      BY <1>2, <2>8, <3>1 DEF RequestShape
  <2>5. Pair(net') /\ net'.server \in Seq({"byte"})
    <3>1. SubSeq(net.server, n + 1, Len(net.server)) \in Seq({"byte"})
      BY <1>2, <2>2, SubSeqProperties DEF RequestShape
    <3>2. QED
      BY <1>2, <2>8, <3>1 DEF RequestShape, Pair
  <2>6. at' = [server |-> IF mem'.outcome = "open" THEN "receive" ELSE "exit",
               client |-> at.client]
    BY <1>2, <2>4, <2>8, GotoIs DEF RequestShape
  <2>7. QED
    BY <1>1, <1>2, <2>2, <2>4, <2>5, <2>6, VerdictHasReason
       DEF RequestShape, RequestsRead, WholeRequestsOnly, DroppedForAReason, Ended, Pair
<1>6. CASE RequestEnds
  <2>1. /\ mem' = [mem EXCEPT !.outcome = "dropped"] /\ Ended("client") /\ UNCHANGED net
        /\ at' = [server |-> "exit", client |-> at.client]
    BY <1>2, <1>6, GotoIs DEF RequestEnds, RequestShape
  <2>2. QED
    BY <1>1, <1>2, <2>1
       DEF RequestShape, RequestsRead, WholeRequestsOnly, DroppedForAReason, Ended, Outcomes, Pair
<1>7. CASE UNCHANGED demoVars
  BY <1>1, <1>2, <1>7
     DEF demoVars, RequestShape, RequestsRead, WholeRequestsOnly, DroppedForAReason, Ended, Pair
<1>8. QED
  BY <1>1, <1>2, <1>3, <1>4, <1>5, <1>6, <1>7, RequestStep
     DEF RequestShape, RequestServer, RequestBrowser


\* A request is acted upon only whole, and dropped only for a reason, however it is cut
\* into segments (read_http_request of control_server.c).
THEOREM RequestsWhole == Spec => []RequestsRead
<1>1. Init => RequestInv
  BY RequestInitially
<1>2. RequestInv /\ [Next]_demoVars => RequestInv'
  BY RequestNext
<1>3. RequestInv => RequestsRead
  BY DEF RequestInv, RequestsRead, WholeRequestsOnly, DroppedForAReason
<1>4. QED
  BY <1>1, <1>2, <1>3, PTL DEF Spec

-----------------------------------------------------------------------------
(***************************************************************************)
(* ControlWebSocket.                                                       *)
(***************************************************************************)
Bytes == {FirstByte(f) : f \in BrowserFrames} \cup {SecondByte, AnyByte}

\* What a byte is, and, of a header's first byte, how many bytes its frame has.
StartsFrame(b) == b \in {FirstByte(f) : f \in BrowserFrames}
EndsHeader(b) == b = SecondByte
RestSize(n) == ExtensionSize(n) + MaskSize + n
FrameSize(b) == 2 + RestSize(b.frame.length)

\* s is whole frames, one after the other.
Framed(s) ==
  /\ s # <<>> => StartsFrame(s[1])
  /\ \A i \in 1..Len(s) : StartsFrame(s[i]) =>
       /\ i + 1 <= Len(s) /\ EndsHeader(s[i + 1])
       /\ i + FrameSize(s[i]) <= Len(s) + 1
       /\ i + FrameSize(s[i]) <= Len(s) => StartsFrame(s[i + FrameSize(s[i])])

\* What is in the socket or on its way there is whole frames, until a part is left there.
FrameShape ==
  /\ faults = {} /\ Pair(at) /\ Pair(net)
  /\ mem = [sent |-> mem.sent, arrived |-> mem.arrived, header |-> mem.header, left |-> mem.left]
  /\ net.server \in Seq(Bytes) /\ mem.arrived \in 0..Len(net.server)
  /\ mem.left # {} \/ at.server # "frame" \/ Framed(net.server)

FrameInv == protocol = "frames" => FrameShape /\ StreamAligned

LEMMA SizesAre ==
  ASSUME NEW n \in Nat
  PROVE  /\ RestSize(n) \in Nat /\ RestSize(n) >= 4
         /\ n <= ShortLength => RestSize(n) = n + 4 /\ Plen(n) = n
         /\ n > ShortLength => Plen(n) > ShortLength
         /\ Plen(n) \in 0..(ShortLength + 2)
<1>1. ShortLength \in Nat /\ MediumLength \in Nat /\ ShortLength <= MediumLength
  BY FramesAssumption
<1>2. CASE n <= ShortLength
  <2>0. ~(n > ShortLength) /\ ~(n > MediumLength)
    BY <1>1, <1>2
  <2>1a. ExtensionSize(n) = 0
    BY <1>2, <2>0 DEF ExtensionSize
  <2>1b. Plen(n) = n
    BY <1>2, <2>0 DEF Plen
  <2>1. ExtensionSize(n) = 0 /\ Plen(n) = n
    BY <2>1a, <2>1b
  <2>2. QED
    BY <1>1, <1>2, <2>1 DEF RestSize, MaskSize
<1>3. CASE n > ShortLength /\ n <= MediumLength
  <2>1. ExtensionSize(n) = 2 /\ Plen(n) = ShortLength + 1
    BY <1>1, <1>3 DEF ExtensionSize, Plen
  <2>2. QED
    BY <1>1, <1>3, <2>1 DEF RestSize, MaskSize
<1>4. CASE n > MediumLength
  <2>1. ExtensionSize(n) = 8 /\ Plen(n) = ShortLength + 2
    BY <1>1, <1>4 DEF ExtensionSize, Plen
  <2>2. QED
    BY <1>1, <1>4, <2>1 DEF RestSize, MaskSize
<1>5. QED
  BY <1>1, <1>2, <1>3, <1>4

LEMMA BytesAre ==
  /\ \A f \in BrowserFrames : /\ FirstByte(f) \in Bytes /\ StartsFrame(FirstByte(f))
                              /\ FirstByte(f).frame = f
  /\ SecondByte \in Bytes /\ EndsHeader(SecondByte) /\ ~StartsFrame(SecondByte)
  /\ AnyByte \in Bytes /\ ~StartsFrame(AnyByte)
  /\ \A b : StartsFrame(b) => /\ FrameSize(b) \in Nat /\ FrameSize(b) >= 6
                              /\ b.part = "first" /\ b.frame \in BrowserFrames
                              /\ b.frame.length \in Nat
                              /\ FrameSize(b) = 2 + RestSize(b.frame.length)
<1>1. \A f \in BrowserFrames : f.length \in Nat
  BY FramesAssumption DEF BrowserFrames
<1>2. ASSUME NEW f \in BrowserFrames
      PROVE  /\ FirstByte(f) \in Bytes /\ StartsFrame(FirstByte(f))
             /\ FirstByte(f).frame = f /\ FirstByte(f).part = "first"
  BY DEF Bytes, StartsFrame, FirstByte
<1>3. ~StartsFrame(SecondByte) /\ ~StartsFrame(AnyByte)
  <2>1. SecondByte.part = "second" /\ AnyByte.part = "any"
    BY DEF SecondByte, AnyByte
  <2>2. \A b : StartsFrame(b) => b.part = "first"
    BY <1>2 DEF StartsFrame
  <2>3. QED
    BY <2>1, <2>2
<1>4. SecondByte \in Bytes /\ AnyByte \in Bytes /\ EndsHeader(SecondByte)
  BY DEF Bytes, EndsHeader
<1>5. ASSUME NEW b, StartsFrame(b)
      PROVE  /\ FrameSize(b) \in Nat /\ FrameSize(b) >= 6
             /\ b.part = "first" /\ b.frame \in BrowserFrames /\ b.frame.length \in Nat
  <2>1. PICK f \in BrowserFrames : b = FirstByte(f)
    BY <1>5 DEF StartsFrame
  <2>2. b.frame = f /\ b.part = "first" /\ f.length \in Nat
    BY <1>1, <1>2, <2>1
  <2>. DEFINE n == RestSize(b.frame.length)
  <2>3. n \in Nat /\ n >= 4 /\ FrameSize(b) = 2 + n
    BY <2>2, SizesAre DEF FrameSize
  <2>. HIDE DEF n
  <2>4. FrameSize(b) \in Nat /\ FrameSize(b) >= 6
    BY <2>3
  <2>5. QED
    BY <2>1, <2>2, <2>4
<1>6. QED
  BY <1>1, <1>2, <1>3, <1>4, <1>5 DEF FrameSize

\* A frame that the browser sends.
LEMMA FrameIs ==
  ASSUME NEW f \in BrowserFrames
  PROVE  /\ FrameBytes(f) \in Seq(Bytes)
         /\ Len(FrameBytes(f)) = FrameSize(FrameBytes(f)[1]) /\ Len(FrameBytes(f)) \in Nat
         /\ Len(FrameBytes(f)) >= 6
         /\ StartsFrame(FrameBytes(f)[1]) /\ EndsHeader(FrameBytes(f)[2])
         /\ \A i \in 2..Len(FrameBytes(f)) : ~StartsFrame(FrameBytes(f)[i])
<1>. DEFINE n == RestSize(f.length)
            first == FirstByte(f)
            start == <<first, SecondByte>>
            rest == [i \in 1..n |-> AnyByte]
<1>1. n \in Nat /\ n >= 4
  BY SizesAre, FramesAssumption DEF BrowserFrames
<1>2. StartsFrame(first) /\ first \in Bytes /\ FrameSize(first) = 2 + n
  BY BytesAre DEF FrameSize
<1>3. start = <<first, SecondByte>> /\ FrameBytes(f) = start \o rest
  BY DEF FrameBytes, RestSize
<1>. HIDE DEF n, first
<1>4. rest \in Seq(Bytes) /\ Len(rest) = n /\ \A i \in 1..n : rest[i] = AnyByte
  BY <1>1, BytesAre
<1>5. start \in Seq(Bytes) /\ Len(start) = 2 /\ start[1] = first /\ start[2] = SecondByte
  BY <1>2, <1>3, BytesAre
<1>. HIDE DEF start, rest
<1>6. /\ FrameBytes(f) \in Seq(Bytes) /\ Len(FrameBytes(f)) = 2 + n
      /\ \A i \in 1..Len(FrameBytes(f)) :
           FrameBytes(f)[i] = IF i <= 2 THEN start[i] ELSE rest[i - 2]
  BY <1>1, <1>3, <1>4, <1>5, ConcatProperties
<1>7. FrameBytes(f)[1] = first /\ FrameBytes(f)[2] = SecondByte
  BY <1>1, <1>5, <1>6
<1>8. ASSUME NEW i \in 2..Len(FrameBytes(f))
      PROVE  ~StartsFrame(FrameBytes(f)[i])
  <2>1. FrameBytes(f)[i] \in {SecondByte, AnyByte}
    <3>1. CASE i = 2
      BY <1>7, <3>1
    <3>2. CASE i > 2
      BY <1>1, <1>4, <1>6, <3>2
    <3>3. QED
      BY <3>1, <3>2
  <2>2. QED
    BY <2>1, BytesAre
<1>9. QED
  BY <1>1, <1>2, <1>6, <1>7, <1>8, BytesAre

\* Frames that follow frames.
LEMMA FramedGrows ==
  ASSUME NEW s \in Seq(Bytes), Framed(s), NEW f \in Seq(Bytes),
         Len(f) >= 6, Len(f) = FrameSize(f[1]), StartsFrame(f[1]), EndsHeader(f[2]),
         \A i \in 2..Len(f) : ~StartsFrame(f[i])
  PROVE  Framed(s \o f)
<1>. DEFINE t == s \o f
<1>0. Len(s) \in Nat /\ Len(f) \in Nat
  OBVIOUS
<1>1. /\ t \in Seq(Bytes) /\ Len(t) = Len(s) + Len(f) /\ Len(s) \in Nat /\ Len(f) \in Nat
      /\ \A i \in 1..Len(t) : t[i] = IF i <= Len(s) THEN s[i] ELSE f[i - Len(s)]
  BY ONLY <1>0, s \in Seq(Bytes), f \in Seq(Bytes), ConcatProperties
<1>. HIDE DEF t
<1>2. t[Len(s) + 1] = f[1] /\ t[Len(s) + 2] = f[2]
  BY <1>1
<1>3. StartsFrame(t[1])
  <2>1. CASE Len(s) = 0
    BY <1>2, <2>1
  <2>2. CASE Len(s) > 0
    <3>1. s # <<>> /\ t[1] = s[1]
      BY <1>1, <2>2, EmptySeq
    <3>2. QED
      BY <3>1 DEF Framed
  <2>3. QED
    BY <1>1, <2>1, <2>2
<1>4. ASSUME NEW i \in 1..Len(t), StartsFrame(t[i])
      PROVE  /\ i + 1 <= Len(t) /\ EndsHeader(t[i + 1])
             /\ i + FrameSize(t[i]) <= Len(t) + 1
             /\ i + FrameSize(t[i]) <= Len(t) => StartsFrame(t[i + FrameSize(t[i])])
  <2>1. CASE i <= Len(s)
    <3>1. i \in 1..Len(s) /\ t[i] = s[i] /\ StartsFrame(s[i])
      BY <1>1, <1>4, <2>1
    <3>. DEFINE k == i + FrameSize(s[i])
    <3>2. /\ i + 1 <= Len(s) /\ EndsHeader(s[i + 1])
          /\ k <= Len(s) + 1 /\ (k <= Len(s) => StartsFrame(s[k]))
      BY <3>1 DEF Framed
    <3>3. k \in Nat /\ k > 1
      BY <3>1, BytesAre
    <3>. HIDE DEF k
    <3>4. t[i + 1] = s[i + 1]
      BY <1>1, <3>1, <3>2
    <3>5. StartsFrame(t[k])
      <4>1. CASE k <= Len(s)
        BY <1>1, <3>2, <3>3, <4>1
      <4>2. CASE k = Len(s) + 1
        BY <1>2, <4>2
      <4>3. QED
        BY <1>1, <3>2, <3>3, <4>1, <4>2
    <3>6. k <= Len(t) + 1 /\ i + 1 <= Len(t)
      BY <1>1, <3>2, <3>3
    <3>7. i + FrameSize(t[i]) = k
      BY <3>1 DEF k
    <3>8. QED
      BY <3>2, <3>4, <3>5, <3>6, <3>7
  <2>2. CASE i > Len(s)
    <3>1. i - Len(s) \in 1..Len(f) /\ t[i] = f[i - Len(s)]
      BY <1>1, <2>2
    <3>2. i = Len(s) + 1
      BY <1>1, <1>4, <3>1
    <3>3. i + FrameSize(t[i]) = Len(t) + 1
      <4>. DEFINE m == FrameSize(t[i])
      <4>1. m = Len(f)
        BY <1>2, <3>2
      <4>. HIDE DEF m
      <4>2. i + m = Len(t) + 1
        BY <1>1, <3>2, <4>1
      <4>3. QED
        BY <4>2 DEF m
    <3>4. i + 1 = Len(s) + 2 /\ i + 1 <= Len(t)
      BY <1>1, <3>2
    <3>5. t[i + 1] = f[2]
      BY <1>2, <3>4
    <3>6. QED
      BY <1>1, <3>3, <3>4, <3>5
  <2>3. QED
    BY <1>1, <2>1, <2>2
<1>5. Framed(t)
  BY <1>3, <1>4 DEF Framed
<1>6. QED
  BY <1>5 DEF t

\* Frames without the first one.
LEMMA FramedShrinks ==
  ASSUME NEW s \in Seq(Bytes), Framed(s), s # <<>>
  PROVE  /\ Len(s) \in Nat /\ Len(s) >= FrameSize(s[1]) /\ Len(s) >= 2
         /\ StartsFrame(s[1]) /\ EndsHeader(s[2])
         /\ Framed(SubSeq(s, FrameSize(s[1]) + 1, Len(s)))
<1>. DEFINE n == FrameSize(s[1])
            t == SubSeq(s, n + 1, Len(s))
<1>1. Len(s) \in Nat /\ 1 \in 1..Len(s)
  BY EmptySeq
<1>2. StartsFrame(s[1]) /\ n \in Nat /\ n >= 6
  BY BytesAre DEF Framed
<1>3. /\ 2 <= Len(s) /\ EndsHeader(s[2]) /\ 1 + n <= Len(s) + 1
      /\ 1 + n <= Len(s) => StartsFrame(s[1 + n])
  BY <1>1, <1>2 DEF Framed
<1>. HIDE DEF n
<1>4. /\ t \in Seq(Bytes) /\ Len(t) = Len(s) - n /\ Len(t) \in Nat
      /\ \A i \in 1..Len(t) : t[i] = s[n + i]
  <2>1. /\ n + 1 \in 1..Len(s) + 1 /\ Len(s) \in 0..Len(s)
    BY <1>1, <1>2, <1>3
  <2>2. /\ t \in Seq(Bytes) /\ Len(t) = IF n + 1 <= Len(s) THEN Len(s) - (n + 1) + 1 ELSE 0
        /\ \A i \in 1..Len(t) : t[i] = s[(n + 1) + i - 1]
    BY <2>1, SubSeqProperties
  <2>. HIDE DEF t
  <2>3. Len(t) = Len(s) - n /\ Len(t) \in Nat
    BY <1>1, <1>2, <1>3, <2>2
  <2>4. ASSUME NEW i \in 1..Len(t)
        PROVE  t[i] = s[n + i]
    <3>1. (n + 1) + i - 1 = n + i
      BY <1>2
    <3>2. QED
      BY <2>2, <3>1
  <2>5. QED
    BY <2>2, <2>3, <2>4
<1>. HIDE DEF t
<1>5. t # <<>> => StartsFrame(t[1])
  <2>1. SUFFICES ASSUME t # <<>>
                 PROVE  StartsFrame(t[1])
    OBVIOUS
  <2>2. Len(t) >= 1
    BY <1>4, <2>1, EmptySeq
  <2>3. t[1] = s[n + 1] /\ 1 + n <= Len(s) /\ 1 + n = n + 1
    BY <1>1, <1>2, <1>4, <2>2
  <2>4. QED
    BY <1>3, <2>3
<1>6. ASSUME NEW i \in 1..Len(t), StartsFrame(t[i])
      PROVE  /\ i + 1 <= Len(t) /\ EndsHeader(t[i + 1])
             /\ i + FrameSize(t[i]) <= Len(t) + 1
             /\ i + FrameSize(t[i]) <= Len(t) => StartsFrame(t[i + FrameSize(t[i])])
  <2>. DEFINE j == n + i
              m == FrameSize(s[j])
  <2>1. j \in 1..Len(s) /\ t[i] = s[j] /\ StartsFrame(s[j])
    BY <1>1, <1>2, <1>4, <1>6
  <2>2. /\ j + 1 <= Len(s) /\ EndsHeader(s[j + 1])
        /\ j + m <= Len(s) + 1
        /\ j + m <= Len(s) => StartsFrame(s[j + m])
    BY <2>1 DEF Framed
  <2>3. m \in Nat /\ m >= 6 /\ j = n + i /\ m = FrameSize(t[i])
    BY <2>1, BytesAre
  <2>. HIDE DEF j, m
  <2>4. i + 1 <= Len(t) /\ i + m <= Len(t) + 1
    BY <1>1, <1>2, <1>4, <2>2, <2>3
  <2>5. t[i + 1] = s[j + 1]
    <3>1. i + 1 \in 1..Len(t) /\ n + (i + 1) = j + 1
      BY <1>2, <1>4, <2>3, <2>4
    <3>2. t[i + 1] = s[n + (i + 1)]
      BY <1>4, <3>1
    <3>3. QED
      BY <3>1, <3>2
  <2>6. i + m <= Len(t) => StartsFrame(t[i + m])
    <3>1. SUFFICES ASSUME i + m <= Len(t)
                   PROVE  StartsFrame(t[i + m])
      OBVIOUS
    <3>2. i + m \in 1..Len(t) /\ n + (i + m) = j + m /\ j + m <= Len(s)
      BY <1>1, <1>2, <1>4, <2>3, <3>1
    <3>3. t[i + m] = s[n + (i + m)]
      BY <1>4, <3>2
    <3>4. QED
      BY <2>2, <3>2, <3>3
  <2>7. QED
    BY <2>2, <2>3, <2>4, <2>5, <2>6
<1>7. Framed(t)
  BY <1>5, <1>6 DEF Framed
<1>8. QED
  BY <1>1, <1>2, <1>3, <1>7 DEF n, t

LEMMA FrameStep ==
  ASSUME [Next]_demoVars, protocol = "frames", faults = {}
  PROVE  FrameServer \/ FrameBrowser \/ UNCHANGED demoVars
BY DEF Next, Server, Client, Strangers, Lose, Duplicate, TcpFamily, WebFamily

LEMMA FrameInitially == Init => FrameInv
<1>. SUFFICES ASSUME Init, protocol = "frames"
              PROVE  FrameShape /\ StreamAligned
  BY DEF FrameInv
<1>1. FramesInit
  BY DEF Init, QuicInit, RadiusInit, SipInit, DnsInit, TcpInit, MqttInit, WebInit, WsInit,
         Http2Init, PacketInit, DigestInit, RequestInit
<1>2. ProgramsInit("frame") /\ faults = {} /\ mem = [sent |-> 0, arrived |-> 0, header |-> <<>>, left |-> {}]
  BY <1>1 DEF FramesInit
<1>3. Pair(at) /\ Pair(net) /\ net.server = <<>>
  BY <1>2, PlacesInit
<1>4. Framed(<<>>) /\ <<>> \in Seq(Bytes)
  BY EmptySeq DEF Framed
<1>5. /\ mem = [sent |-> mem.sent, arrived |-> mem.arrived, header |-> mem.header, left |-> mem.left]
      /\ mem.left = {} /\ mem.header = <<>> /\ mem.arrived \in 0..Len(net.server)
  BY <1>2, <1>3, <1>4
<1>6. QED
  BY <1>2, <1>3, <1>4, <1>5 DEF FrameShape, StreamAligned

\* One receive: s is what is in the socket and on its way there, of which arrived bytes
\* have come, and h what the server makes of the first two.
LEMMA FrameTaken ==
  ASSUME NEW s \in Seq(Bytes), NEW arrived \in 2..Len(s), NEW h \in FrameHeaders, NEW taken,
         taken = 2 + Min({FrameRest(h), arrived - 2}),
         IsHeader(SubSeq(s, 1, 2)) => h = HeaderOf(SubSeq(s, 1, 2)[1].frame)
  PROVE  /\ SubSeq(s, taken + 1, Len(s)) \in Seq(Bytes)
         /\ arrived - taken \in 0..Len(SubSeq(s, taken + 1, Len(s)))
         /\ Framed(s) =>
              /\ IsHeader(SubSeq(s, 1, 2))
              /\ h.opcode = "other" /\ LeftBehind(h, arrived - 2) = {} =>
                   Framed(SubSeq(s, taken + 1, Len(s)))
<1>. DEFINE n == h.plen
            rest == FrameRest(h)
            behind == arrived - 2
            bytes == SubSeq(s, 1, 2)
            t == SubSeq(s, taken + 1, Len(s))
<1>1. Len(s) \in Nat /\ behind \in Nat /\ behind + 2 = arrived /\ arrived <= Len(s)
  BY LenProperties
<1>2. n \in Nat /\ rest \in Nat /\ (h.opcode = "other" /\ n # 0 /\ h.masked => rest = n + 4)
  <2>1. n \in Nat
    BY FramesAssumption DEF FrameHeaders
  <2>. DEFINE mask == IF h.masked THEN MaskSize ELSE 0
  <2>2. mask \in Nat /\ (h.masked => mask = 4)
    BY DEF MaskSize
  <2>3. rest = IF h.opcode = "PING" THEN n
               ELSE IF h.opcode = "CLOSE" \/ n = 0 THEN 0 ELSE n + mask
    BY DEF FrameRest
  <2>. HIDE DEF n, mask, rest
  <2>4. QED
    BY <2>1, <2>2, <2>3
<1>3. LeftBehind(h, behind) = {} /\ h.opcode = "other" =>
        n # 0 /\ ~(n > ShortLength) /\ ~(behind < rest)
  BY DEF LeftBehind
<1>. HIDE DEF n, rest, behind
<1>4. /\ taken \in Nat /\ taken >= 2 /\ taken <= arrived
      /\ ~(behind < rest) => taken = 2 + rest
  <2>. DEFINE m == Min({rest, behind})
  <2>1. rest \in Int /\ behind \in Int
    BY <1>1, <1>2
  <2>2. m \in {rest, behind} /\ m <= rest /\ m <= behind
    BY ONLY <2>1, MinOfTwo
  <2>3. taken = 2 + m
    BY DEF rest, behind
  <2>. HIDE DEF m
  <2>4. QED
    BY <1>1, <1>2, <2>2, <2>3
<1>5. t \in Seq(Bytes) /\ Len(t) = Len(s) - taken
  <2>1. taken + 1 \in 1..Len(s) + 1 /\ Len(s) \in 0..Len(s) /\ taken <= Len(s)
    BY <1>1, <1>4
  <2>. HIDE DEF t
  <2>2. t \in Seq(Bytes) /\ Len(t) = IF taken + 1 <= Len(s) THEN Len(s) - (taken + 1) + 1 ELSE 0
    <3>1. \A i \in taken + 1..Len(s) : s[i] \in Bytes
      BY <1>1, <1>4, ElementOfSeq
    <3>2. taken + 1 \in Int /\ Len(s) \in Int
      BY <1>1, <1>4
    <3>. DEFINE m == taken + 1
    <3>3. m \in Int /\ (\A i \in m..Len(s) : s[i] \in Bytes) /\ t = SubSeq(s, m, Len(s))
      BY <3>1, <3>2 DEF t
    <3>. HIDE DEF m
    <3>4. t \in Seq(Bytes) /\ Len(t) = IF m <= Len(s) THEN Len(s) - m + 1 ELSE 0
      BY ONLY <3>2, <3>3, SubSeqProperties
    <3>5. QED
      BY <3>4 DEF m
  <2>3. Len(t) = Len(s) - taken
    BY <1>1, <1>4, <2>1, <2>2
  <2>4. QED
    BY <2>2, <2>3
<1>6. arrived - taken \in 0..Len(t)
  BY <1>1, <1>4, <1>5
<1>. HIDE DEF t
<1>7. ASSUME Framed(s)
      PROVE  /\ IsHeader(bytes)
             /\ h.opcode = "other" /\ LeftBehind(h, behind) = {} => Framed(t)
  <2>1. s # <<>>
    BY <1>1, EmptySeq
  <2>2. /\ Len(s) >= FrameSize(s[1]) /\ StartsFrame(s[1]) /\ EndsHeader(s[2])
        /\ Framed(SubSeq(s, FrameSize(s[1]) + 1, Len(s)))
    BY <1>7, <2>1, FramedShrinks
  <2>3. bytes[1] = s[1] /\ bytes[2] = s[2]
    BY <1>1, SubSeqProperties
  <2>. DEFINE length == s[1].frame.length
  <2>4. /\ s[1].part = "first" /\ length \in Nat
        /\ FrameSize(s[1]) = 2 + RestSize(length)
    BY <2>2, BytesAre
  <2>5. s[2].part = "second"
    BY <2>2 DEF EndsHeader, SecondByte
  <2>6. h = HeaderOf(s[1].frame) /\ IsHeader(bytes)
    <3>. HIDE DEF bytes
    <3>1. IsHeader(bytes)
      BY <2>3, <2>4, <2>5 DEF IsHeader
    <3>2. QED
      BY <2>3, <3>1 DEF bytes
  <2>7. h.masked /\ n = Plen(length)
    BY <2>6 DEF HeaderOf, n
  <2>. HIDE DEF bytes, length
  <2>8. ASSUME h.opcode = "other", LeftBehind(h, behind) = {}
        PROVE  taken = FrameSize(s[1])
    <3>1. n # 0 /\ ~(n > ShortLength) /\ taken = 2 + rest
      BY <1>3, <1>4, <2>8
    <3>2. length <= ShortLength
      BY <2>4, <2>7, <3>1, SizesAre, FramesAssumption
    <3>3. RestSize(length) = length + 4 /\ n = length
      BY <2>4, <2>7, <3>2, SizesAre
    <3>4. rest = n + 4
      BY <1>2, <2>7, <2>8, <3>1
    <3>5. QED
      BY <2>4, <3>1, <3>3, <3>4
  <2>9. QED
    BY <2>2, <2>6, <2>8 DEF t
<1>8. QED
  BY <1>5, <1>6, <1>7 DEF bytes, behind, t

LEMMA FrameNext ==
  ASSUME FrameInv, [Next]_demoVars
  PROVE  FrameInv'
<1>. SUFFICES ASSUME protocol' = "frames"
              PROVE  FrameShape' /\ StreamAligned'
  BY DEF FrameInv
<1>1. protocol = "frames" /\ faults' = faults
  BY SettingsKept DEF SettingsStay
<1>2. FrameShape /\ StreamAligned
  BY <1>1 DEF FrameInv
<1>3. CASE BrowserSendsFrame
  <2>1. PICK g \in BrowserFrames : Send("client", FrameBytes(g))
    BY <1>3 DEF BrowserSendsFrame
  <2>2. mem' = [mem EXCEPT !.sent = @ + 1] /\ UNCHANGED at
    BY <1>3 DEF BrowserSendsFrame
  <2>. DEFINE f == FrameBytes(g)
  <2>3. /\ f \in Seq(Bytes) /\ Len(f) >= 6 /\ Len(f) = FrameSize(f[1])
        /\ StartsFrame(f[1]) /\ EndsHeader(f[2]) /\ \A i \in 2..Len(f) : ~StartsFrame(f[i])
    BY <2>1, FrameIs
  <2>. HIDE DEF f
  <2>4. net' = [server |-> net.server \o f, client |-> net.client]
    BY <1>2, <2>1, SendIs DEF FrameShape, f
  <2>5. /\ net.server \o f \in Seq(Bytes) /\ Len(net.server \o f) = Len(net.server) + Len(f)
        /\ Len(net.server) \in Nat /\ Len(f) \in Nat
    <3>1. net.server \in Seq(Bytes) /\ f \in Seq(Bytes)
      BY <1>2, <2>3 DEF FrameShape
    <3>2. QED
      BY ONLY <3>1, ConcatProperties, LenProperties
  <2>6. Framed(net.server) => Framed(net.server \o f)
    BY <1>2, <2>3, FramedGrows DEF FrameShape
  <2>7. mem' = [sent |-> mem'.sent, arrived |-> mem.arrived, header |-> mem.header, left |-> mem.left]
    BY <1>2, <2>2 DEF FrameShape
  <2>8. Pair(net') /\ net'.server = net.server \o f
    BY <2>4 DEF Pair
  <2>9. mem'.header = mem.header /\ mem'.left = mem.left /\ mem'.arrived = mem.arrived
    BY <2>7
  <2>10. mem'.arrived \in 0..Len(net'.server)
    BY <1>2, <2>5, <2>8, <2>9 DEF FrameShape
  <2>11. QED
    BY <1>1, <1>2, <2>2, <2>5, <2>6, <2>7, <2>8, <2>9, <2>10 DEF FrameShape, StreamAligned
<1>4. CASE BrowserClosesSocket
  <2>1. at' = [server |-> at.server, client |-> "exit"] /\ UNCHANGED <<net, mem>>
    BY <1>2, <1>4, GotoIs DEF BrowserClosesSocket, FrameShape
  <2>2. QED
    BY <1>1, <1>2, <2>1 DEF FrameShape, StreamAligned, Pair
<1>5. CASE FrameArrives
  <2>1. PICK n \in (mem.arrived + 1)..Len(net.server) : mem' = [mem EXCEPT !.arrived = n]
    BY <1>5 DEF FrameArrives
  <2>2. UNCHANGED <<at, net>>
    BY <1>5 DEF FrameArrives
  <2>3. mem' = [sent |-> mem.sent, arrived |-> n, header |-> mem.header, left |-> mem.left]
    BY <1>2, <2>1 DEF FrameShape
  <2>4. n \in 0..Len(net.server)
    BY <1>2, <2>1 DEF FrameShape
  <2>5. mem'.sent = mem.sent /\ mem'.arrived = n /\ mem'.header = mem.header /\ mem'.left = mem.left
    BY <2>3
  <2>6. QED
    BY <1>1, <1>2, <2>2, <2>3, <2>4, <2>5 DEF FrameShape, StreamAligned, Pair
<1>6. CASE FrameReceive
  <2>. DEFINE s == net.server
              bytes == SubSeq(s, 1, 2)
              behind == mem.arrived - 2
              Taken(h) == 2 + Min({FrameRest(h), behind})
  <2>1. PICK h \in FrameHeaders :
          /\ IsHeader(bytes) => h = HeaderOf(bytes[1].frame)
          /\ mem' = [mem EXCEPT !.header = bytes, !.arrived = @ - Taken(h),
                                !.left = @ \cup LeftBehind(h, behind)]
          /\ net' = [net EXCEPT !.server = SubSeq(@, Taken(h) + 1, Len(@))]
          /\ Goto("server", IF h.opcode = "CLOSE" THEN "exit" ELSE "frame")
    BY <1>6 DEF FrameReceive
  <2>2. at.server = "frame" /\ s \in Seq(Bytes) /\ mem.arrived \in 2..Len(s)
    <3>1. at.server = "frame" /\ mem.arrived >= 2
      BY <1>6 DEF FrameReceive
    <3>2. s \in Seq(Bytes) /\ mem.arrived \in 0..Len(s)
      BY <1>2 DEF FrameShape
    <3>3. QED
      BY <3>1, <3>2
  <2>. DEFINE taken == Taken(h)
              t == SubSeq(s, taken + 1, Len(s))
              left == mem.left \cup LeftBehind(h, behind)
  <2>3. /\ t \in Seq(Bytes) /\ mem.arrived - taken \in 0..Len(t)
        /\ Framed(s) => /\ IsHeader(bytes)
                        /\ h.opcode = "other" /\ LeftBehind(h, behind) = {} => Framed(t)
    BY <2>1, <2>2, FrameTaken
  <2>4. mem' = [sent |-> mem.sent, arrived |-> mem.arrived - taken, header |-> bytes, left |-> left]
    BY <1>2, <2>1 DEF FrameShape
  <2>5. /\ mem'.sent = mem.sent /\ mem'.arrived = mem.arrived - taken
        /\ mem'.header = bytes /\ mem'.left = left
    BY <2>4
  <2>6. net' = [server |-> t, client |-> net.client]
    BY <1>2, <2>1 DEF FrameShape, Pair
  <2>7. at' = [server |-> IF h.opcode = "CLOSE" THEN "exit" ELSE "frame", client |-> at.client]
    BY <1>2, <2>1, GotoIs DEF FrameShape
  <2>8. h.opcode \in {"PING", "CLOSE", "other"} /\ (h.opcode = "PING" => LeftBehind(h, behind) # {})
    BY DEF FrameHeaders, Opcodes, LeftBehind
  <2>9. Pair(at') /\ Pair(net') /\ net'.server = t
        /\ at'.server = (IF h.opcode = "CLOSE" THEN "exit" ELSE "frame")
    BY <2>6, <2>7 DEF Pair
  <2>10. mem.left # {} \/ Framed(s)
    BY <1>2, <2>2 DEF FrameShape
  <2>11. left # {} \/ at'.server # "frame" \/ Framed(t)
    BY <2>3, <2>8, <2>9, <2>10
  <2>12. IsHeader(bytes) \/ left # {}
    BY <2>3, <2>10
  <2>13. mem.arrived - taken \in 0..Len(t) /\ t \in Seq(Bytes)
    BY <2>3
  <2>. HIDE DEF t, bytes, left, taken
  <2>14. FrameShape'
    BY <1>1, <1>2, <2>4, <2>5, <2>9, <2>11, <2>13 DEF FrameShape
  <2>15. StreamAligned'
    BY <2>5, <2>12 DEF StreamAligned
  <2>16. QED
    BY <2>14, <2>15
<1>7. CASE FrameByte
  <2>1. /\ net' = [server |-> Tail(net.server), client |-> net.client] /\ UNCHANGED at
        /\ mem' = [sent |-> mem.sent, arrived |-> 0, header |-> mem.header, left |-> mem.left \cup {"byte"}]
    BY <1>2, <1>7 DEF FrameByte, FrameShape, Pair
  <2>2. Tail(net.server) \in Seq(Bytes) /\ 0 \in 0..Len(Tail(net.server))
    <3>1. net.server \in Seq(Bytes) /\ mem.arrived \in 0..Len(net.server) /\ mem.arrived = 1
      BY <1>2, <1>7 DEF FrameByte, FrameShape
    <3>2. net.server # <<>>
      BY <3>1, EmptySeq
    <3>3. Tail(net.server) \in Seq(Bytes)
      BY <3>1, <3>2, HeadTailProperties
    <3>4. QED
      BY <3>3, LenProperties
  <2>3. /\ Pair(net') /\ net'.server = Tail(net.server)
        /\ mem'.header = mem.header /\ mem'.left # {} /\ mem'.arrived = 0
        /\ mem' = [sent |-> mem'.sent, arrived |-> mem'.arrived, header |-> mem'.header, left |-> mem'.left]
    BY <2>1 DEF Pair
  <2>4. QED
    BY <1>1, <1>2, <2>1, <2>2, <2>3 DEF FrameShape, StreamAligned
<1>8. CASE FrameSocketEnds
  <2>1. at' = [server |-> "exit", client |-> at.client] /\ UNCHANGED <<net, mem>>
    BY <1>2, <1>8, GotoIs DEF FrameSocketEnds, FrameShape
  <2>2. QED
    BY <1>1, <1>2, <2>1 DEF FrameShape, StreamAligned, Pair
<1>9. CASE UNCHANGED demoVars
  BY <1>1, <1>2, <1>9 DEF demoVars, FrameShape, StreamAligned, Pair
<1>10. QED
  BY <1>1, <1>2, <1>3, <1>4, <1>5, <1>6, <1>7, <1>8, <1>9, FrameStep
     DEF FrameShape, FrameServer, FrameBrowser

\* What the control server takes for the header of a WebSocket frame is one, however many
\* frames follow each other, of whatever lengths, and however they arrive, until a PING, an
\* empty frame, one with a length of more than 7 bits or one not read as a whole leaves a
\* part of itself in the socket (main of control_server.c).
THEOREM HeadersAligned == Spec => []StreamAligned
<1>1. Init => FrameInv
  BY FrameInitially
<1>2. FrameInv /\ [Next]_demoVars => FrameInv'
  BY FrameNext
<1>3. FrameInv => StreamAligned
  BY DEF FrameInv, StreamAligned
<1>4. QED
  BY <1>1, <1>2, <1>3, PTL DEF Spec

-----------------------------------------------------------------------------
(***************************************************************************)
(* PacketFormat.                                                           *)
(***************************************************************************)
Octet == 0..255

LEMMA Digits ==
  ASSUME NEW m \in Nat
  PROVE  \E h \in Nat : \E l \in 0..255 : m = 256 * h + l /\ h = m \div 256 /\ l = m % 256
OBVIOUS

LEMMA HighDigits ==
  ASSUME NEW m \in Nat
  PROVE  \E h \in Nat : \E l \in Nat :
           l <= 65535 /\ m = 65536 * h + l /\ h = m \div 65536 /\ l = m % 65536
OBVIOUS

LEMMA DigitsOf ==
  ASSUME NEW h \in Nat, NEW l \in 0..255
  PROVE  (256 * h + l) \div 256 = h /\ (256 * h + l) % 256 = l
<1>1. (256 * h + l) \div 256 = h
  OBVIOUS
<1>2. (256 * h + l) % 256 = l
  OBVIOUS
<1>3. QED
  BY <1>1, <1>2

LEMMA HighDigitsOf ==
  ASSUME NEW h \in Nat, NEW l \in Nat, l <= 65535
  PROVE  (65536 * h + l) \div 65536 = h /\ (65536 * h + l) % 65536 = l
<1>1. (65536 * h + l) \div 65536 = h
  OBVIOUS
<1>2. (65536 * h + l) % 65536 = l
  OBVIOUS
<1>3. QED
  BY <1>1, <1>2

LEMMA JoinedPairs ==
  ASSUME NEW a, NEW b, NEW c, NEW d
  PROVE  <<a, b>> \o <<c, d>> = <<a, b, c, d>>
<1>. DEFINE S == {a, b, c, d}
            s == <<a, b>>
            t == <<c, d>>
            u == <<a, b, c, d>>
<1>1. s \in Seq(S) /\ t \in Seq(S) /\ u \in Seq(S)
  OBVIOUS
<1>2. /\ Len(s) = 2 /\ s[1] = a /\ s[2] = b
      /\ Len(t) = 2 /\ t[1] = c /\ t[2] = d
      /\ Len(u) = 4 /\ u[1] = a /\ u[2] = b /\ u[3] = c /\ u[4] = d
  OBVIOUS
<1>. HIDE DEF S, s, t, u
<1>3. /\ s \o t \in Seq(S) /\ Len(s \o t) = 4
      /\ \A i \in 1..4 : (s \o t)[i] = IF i <= 2 THEN s[i] ELSE t[i - 2]
  <2>1. /\ s \o t \in Seq(S) /\ Len(s \o t) = Len(s) + Len(t)
        /\ \A i \in 1..Len(s) + Len(t) :
             (s \o t)[i] = IF i <= Len(s) THEN s[i] ELSE t[i - Len(s)]
    BY <1>1, ConcatProperties
  <2>2. QED
    BY <1>2, <2>1
<1>4. \A i \in 1..4 : i = 1 \/ i = 2 \/ i = 3 \/ i = 4
  OBVIOUS
<1>5. \A i \in 1..4 : (s \o t)[i] = u[i]
  BY <1>2, <1>3, <1>4
<1>6. s \o t = u
  BY <1>1, <1>2, <1>3, <1>5, SeqEqual
<1>7. QED
  BY <1>6 DEF s, t, u

\* What htons() and htonl() write is read back as the same number.
LEMMA U16Is ==
  ASSUME NEW n \in Nat
  PROVE  \E a \in Nat : \E b \in Octet : U16(n) = <<a, b>> /\ n = 256 * a + b
<1>1. PICK h \in Nat, l \in 0..255 : n = 256 * h + l /\ h = n \div 256 /\ l = n % 256
  BY Digits
<1>2. U16(n) = <<h, l>>
  BY <1>1 DEF U16
<1>3. n = 256 * h + l
  BY <1>1
<1>4. QED
  BY <1>2, <1>3 DEF Octet

LEMMA U16IsSmall ==
  ASSUME NEW n \in Nat, n <= 65535
  PROVE  \E a, b \in Octet : U16(n) = <<a, b>> /\ n = 256 * a + b
<1>1. PICK a \in Nat, b \in Octet : U16(n) = <<a, b>> /\ n = 256 * a + b
  BY ONLY U16Is, n \in Nat
<1>2. a \in Octet
  BY <1>1 DEF Octet
<1>3. QED
  BY <1>1, <1>2

LEMMA U16Of ==
  ASSUME NEW h \in Nat, NEW l \in Octet, NEW n, n = 256 * h + l
  PROVE  U16(n) = <<h, l>>
BY DigitsOf DEF U16, Octet

LEMMA U32Is ==
  ASSUME NEW n \in Nat
  PROVE  /\ U32(n) \in Seq(Nat) /\ Len(U32(n)) = 4
         /\ U32(n)[2] \in Octet /\ U32(n)[3] \in Octet /\ U32(n)[4] \in Octet
         /\ GetU32(U32(n), 0) = n
<1>1. PICK h \in Nat, l \in Nat :
        l <= 65535 /\ n = 65536 * h + l /\ h = n \div 65536 /\ l = n % 65536
  BY HighDigits
<1>2. U32(n) = U16(h) \o U16(l)
  BY <1>1 DEF U32
<1>3. PICK a \in Nat, b \in Octet : U16(h) = <<a, b>> /\ h = 256 * a + b
  <2>1. h \in Nat
    OBVIOUS
  <2>2. QED
    BY <2>1, U16Is
<1>4. PICK c \in Octet, d \in Octet : U16(l) = <<c, d>> /\ l = 256 * c + d
  BY <1>1, U16IsSmall
<1>6. U32(n) = <<a, b, c, d>>
  BY <1>2, <1>3, <1>4, JoinedPairs
<1>7. n = 65536 * (256 * a + b) + (256 * c + d)
  <2>1. n = 65536 * h + l
    BY <1>1
  <2>2. QED
    BY <1>3, <1>4, <2>1
<1>. DEFINE t == <<a, b, c, d>>
<1>8. t \in Seq(Nat) /\ Len(t) = 4 /\ t[1] = a /\ t[2] = b /\ t[3] = c /\ t[4] = d
  BY DEF Octet
<1>9. U32(n) = t
  BY <1>6
<1>. HIDE DEF t
<1>10. GetU32(t, 0) = 65536 * (256 * t[1] + t[2]) + (256 * t[3] + t[4])
  BY DEF GetU32, GetU16
<1>11. GetU32(t, 0) = n
  BY <1>7, <1>8, <1>10
<1>12. QED
  BY <1>8, <1>9, <1>11

NumberOf(a, b, c, d) == 65536 * (256 * a + b) + (256 * c + d)

LEMMA U32Of ==
  ASSUME NEW a \in Nat, NEW b \in Octet, NEW c \in Octet, NEW d \in Octet,
         NEW n, n = NumberOf(a, b, c, d)
  PROVE  U32(n) = <<a, b, c, d>>
<1>. DEFINE h == 256 * a + b
            l == 256 * c + d
<1>1. h \in Nat /\ l \in Nat /\ l <= 65535
  BY DEF Octet
<1>2. U16(h) = <<a, b>>
  <2>1. h = 256 * a + b
    OBVIOUS
  <2>. HIDE DEF h
  <2>2. QED
    BY <2>1, U16Of
<1>3. U16(l) = <<c, d>>
  <2>1. c \in Nat
    BY DEF Octet
  <2>2. l = 256 * c + d
    OBVIOUS
  <2>. HIDE DEF l
  <2>3. QED
    BY <2>1, <2>2, U16Of
<1>. HIDE DEF h, l
<1>8. n = 65536 * h + l
  BY DEF h, l, NumberOf
<1>4. n \div 65536 = h /\ n % 65536 = l
  BY <1>1, <1>8, HighDigitsOf
<1>5. U32(n) = U16(h) \o U16(l)
  BY <1>4 DEF U32
<1>6. U32(n) = <<a, b, c, d>>
  BY <1>2, <1>3, <1>5, JoinedPairs
<1>7. QED
  BY <1>6 DEF h, l

\* What a program can send: numbers below 256, except where the highest byte of an
\* identifier or a length can stand, which the model leaves unbounded.
Highest == {1, 3, 7, 11}
Datagrams ==
  {d \in Seq(Nat) : \A i \in 1..Len(d) : i \notin Highest => d[i] \in Octet}

LEMMA NumberRead ==
  ASSUME NEW b \in Datagrams, NEW k \in {2, 6, 10}, k + 4 <= Len(b)
  PROVE  /\ GetU32(b, k) \in Nat
         /\ SubSeq(b, 1, k) \o U32(GetU32(b, k)) = SubSeq(b, 1, k + 4)
<1>1. b \in Seq(Nat) /\ Len(b) \in Nat
  BY LenProperties DEF Datagrams
<1>2. /\ b[k + 1] \in Nat /\ b[k + 2] \in Octet /\ b[k + 3] \in Octet /\ b[k + 4] \in Octet
  <2>1. /\ k + 1 \in 1..Len(b) /\ k + 2 \in 1..Len(b) /\ k + 3 \in 1..Len(b)
        /\ k + 4 \in 1..Len(b)
    BY <1>1
  <2>2. k + 2 \notin Highest /\ k + 3 \notin Highest /\ k + 4 \notin Highest
    BY DEF Highest
  <2>3. QED
    BY <1>1, <2>1, <2>2, ElementOfSeq DEF Datagrams
<1>3. PICK x \in Nat, y \in Octet, z \in Octet, w \in Octet :
        x = b[k + 1] /\ y = b[k + 2] /\ z = b[k + 3] /\ w = b[k + 4]
  BY <1>2
<1>4. GetU32(b, k) = 65536 * (256 * x + y) + (256 * z + w)
  <2>1. k + 2 + 1 = k + 3 /\ k + 2 + 2 = k + 4
    OBVIOUS
  <2>2. QED
    BY <1>3, <2>1 DEF GetU32, GetU16
<1>5. GetU32(b, k) \in Nat
  BY <1>4 DEF Octet
<1>6. U32(GetU32(b, k)) = <<x, y, z, w>>
  <2>. DEFINE n == GetU32(b, k)
  <2>1. n = NumberOf(x, y, z, w)
    BY <1>4 DEF NumberOf
  <2>. HIDE DEF n
  <2>2. U32(n) = <<x, y, z, w>>
    <3>1. x \in Nat /\ y \in Octet /\ z \in Octet /\ w \in Octet
      OBVIOUS
    <3>2. QED
      BY ONLY <2>1, <3>1, U32Of
  <2>3. QED
    BY <2>2 DEF n
<1>7. SubSeq(b, k + 1, k + 4) = <<x, y, z, w>>
  <2>. DEFINE s == SubSeq(b, k + 1, k + 4)
              t == <<x, y, z, w>>
  <2>1. /\ s \in Seq(Nat) /\ Len(s) = 4
        /\ \A i \in 1..4 : s[i] = b[k + 1 + i - 1]
    <3>1. k + 1 \in 1..Len(b) + 1 /\ k + 4 \in (k + 1) - 1..Len(b)
      BY <1>1
    <3>2. /\ s \in Seq(Nat) /\ Len(s) = IF k + 1 <= k + 4 THEN k + 4 - (k + 1) + 1 ELSE 0
          /\ \A i \in 1..(k + 4) - (k + 1) + 1 : s[i] = b[k + 1 + i - 1]
      BY <1>1, <3>1, SubSeqProperties
    <3>. HIDE DEF s
    <3>3. (k + 4) - (k + 1) + 1 = 4
      OBVIOUS
    <3>4. QED
      BY <3>2, <3>3
  <2>2. t \in Seq(Nat) /\ Len(t) = 4 /\ t[1] = x /\ t[2] = y /\ t[3] = z /\ t[4] = w
    BY DEF Octet
  <2>. HIDE DEF s, t
  <2>3. s[1] = x /\ s[2] = y /\ s[3] = z /\ s[4] = w
    BY <1>3, <2>1
  <2>4. \A i \in 1..4 : i = 1 \/ i = 2 \/ i = 3 \/ i = 4
    OBVIOUS
  <2>5. \A i \in 1..4 : s[i] = t[i]
    BY <2>2, <2>3, <2>4
  <2>6. s = t
    BY <2>1, <2>2, <2>5, SeqEqual
  <2>7. QED
    BY <2>6 DEF s, t
<1>8. SubSeq(b, 1, k) \o SubSeq(b, k + 1, k + 4) = SubSeq(b, 1, k + 4)
  BY <1>1, ConcatAdjacentSubSeq
<1>9. QED
  BY <1>5, <1>6, <1>7, <1>8

\* The same of the two bytes of the type, and of what lies behind the header.
LEMMA TypeRead ==
  ASSUME NEW b \in Datagrams, Len(b) >= 2
  PROVE  GetU16(b, 0) \in Nat /\ U16(GetU16(b, 0)) = SubSeq(b, 1, 2)
<1>1. b \in Seq(Nat) /\ Len(b) \in Nat
  BY LenProperties DEF Datagrams
<1>2. b[1] \in Nat /\ b[2] \in Octet
  <2>1. 1 \in 1..Len(b) /\ 2 \in 1..Len(b) /\ 2 \notin Highest
    BY <1>1 DEF Highest
  <2>2. QED
    BY <1>1, <2>1, ElementOfSeq DEF Datagrams
<1>3. GetU16(b, 0) = 256 * b[1] + b[2]
  BY DEF GetU16
<1>4. PICK x \in Nat, y \in Octet : x = b[1] /\ y = b[2]
  BY <1>2
<1>5. U16(GetU16(b, 0)) = <<x, y>>
  <2>. DEFINE n == GetU16(b, 0)
  <2>1. n = 256 * x + y
    BY <1>3, <1>4
  <2>. HIDE DEF n
  <2>2. QED
    BY <2>1, U16Of DEF n
<1>6. SubSeq(b, 1, 2) = <<x, y>>
  <2>. DEFINE s == SubSeq(b, 1, 2)
              t == <<x, y>>
  <2>1. s \in Seq(Nat) /\ Len(s) = 2 /\ s[1] = b[1] /\ s[2] = b[2]
    <3>1. /\ s \in Seq(Nat) /\ Len(s) = IF 1 <= 2 THEN 2 - 1 + 1 ELSE 0
          /\ \A i \in 1..2 - 1 + 1 : s[i] = b[1 + i - 1]
      BY <1>1, SubSeqProperties
    <3>. HIDE DEF s
    <3>2. QED
      BY <3>1
  <2>2. t \in Seq(Nat) /\ Len(t) = 2 /\ t[1] = x /\ t[2] = y
    BY DEF Octet
  <2>. HIDE DEF s, t
  <2>3. \A i \in 1..2 : i = 1 \/ i = 2
    OBVIOUS
  <2>4. \A i \in 1..2 : s[i] = t[i]
    BY <1>4, <2>1, <2>2, <2>3
  <2>5. s = t
    BY <2>1, <2>2, <2>4, SeqEqual
  <2>6. QED
    BY <2>5 DEF s, t
<1>7. GetU16(b, 0) \in Nat
  <2>1. GetU16(b, 0) = 256 * x + y
    BY <1>3, <1>4
  <2>2. 256 * x + y \in Nat
    BY DEF Octet
  <2>3. QED
    BY <2>1, <2>2
<1>8. QED
  BY <1>5, <1>6, <1>7

LEMMA BodyRead ==
  ASSUME NEW b \in Datagrams, NEW k \in Nat, k <= Len(b)
  PROVE  /\ Body(b, k) \in Seq(Nat) /\ Len(Body(b, k)) = Len(b) - k
         /\ SubSeq(b, 1, k) \o Body(b, k) = b
<1>1. b \in Seq(Nat) /\ Len(b) \in Nat
  BY LenProperties DEF Datagrams
<1>2. SubSeq(b, 1, k) \o SubSeq(b, k + 1, Len(b)) = SubSeq(b, 1, Len(b))
  <2>1. 1 \in 1..Len(b) + 1 /\ k \in 1 - 1..Len(b) /\ Len(b) \in k..Len(b)
    BY <1>1
  <2>2. QED
    BY <1>1, <2>1, ConcatAdjacentSubSeq
<1>3. SubSeq(b, 1, Len(b)) = b
  BY <1>1, SubSeqFull
<1>4. SubSeq(b, k + 1, Len(b)) \in Seq(Nat) /\ Len(SubSeq(b, k + 1, Len(b))) = Len(b) - k
  <2>. DEFINE s == SubSeq(b, k + 1, Len(b))
  <2>1. \A i \in k + 1..Len(b) : b[i] \in Nat
    BY <1>1
  <2>2. s \in Seq(Nat) /\ Len(s) = IF k + 1 <= Len(b) THEN Len(b) - (k + 1) + 1 ELSE 0
    BY <1>1, <2>1, SubSeqProperties
  <2>. HIDE DEF s
  <2>3. QED
    BY <1>1, <2>2
<1>5. QED
  BY <1>2, <1>3, <1>4 DEF Body

LEMMA CodesAre ==
  /\ \A t \in DOMAIN Code : Code[t] \in 1..9 /\ Code[t] \in Nat
  /\ \A t, u \in DOMAIN Code : Code[t] = Code[u] => t = u
  /\ \A n \in 1..9 : \E t \in DOMAIN Code : Code[t] = n
  /\ DOMAIN Code = ControlTypes \cup FeedbackTypes \cup {"PASS_RESP", "DATA", "TERMINATE"}
<1>1. DOMAIN Code = {"JOIN_REQ", "PASS_REQ", "PASS_RESP", "PASS_ACCEPT", "DATA", "TERMINATE",
                     "REJECT", "ACK", "NACK"}
  BY DEF Code
<1>2. /\ Code["JOIN_REQ"] = 1 /\ Code["PASS_REQ"] = 2 /\ Code["PASS_RESP"] = 3
      /\ Code["PASS_ACCEPT"] = 4 /\ Code["DATA"] = 5 /\ Code["TERMINATE"] = 6
      /\ Code["REJECT"] = 7 /\ Code["ACK"] = 8 /\ Code["NACK"] = 9
  BY DEF Code
<1>3. \A n \in 1..9 : n \in {1, 2, 3, 4, 5, 6, 7, 8, 9}
  OBVIOUS
<1>4. \A t \in DOMAIN Code : Code[t] \in 1..9 /\ Code[t] \in Nat
  BY <1>1, <1>2
<1>5. \A t, u \in DOMAIN Code : Code[t] = Code[u] => t = u
  BY <1>1, <1>2
<1>6. \A n \in 1..9 : \E t \in DOMAIN Code : Code[t] = n
  BY <1>1, <1>2, <1>3
<1>7. DOMAIN Code = ControlTypes \cup FeedbackTypes \cup {"PASS_RESP", "DATA", "TERMINATE"}
  BY <1>1 DEF ControlTypes, FeedbackTypes
<1>8. QED
  BY <1>4, <1>5, <1>6, <1>7

LEMMA TypeOf ==
  ASSUME NEW t \in DOMAIN Code
  PROVE  (CHOOSE u \in DOMAIN Code : Code[u] = Code[t]) = t
BY CodesAre

\* What the build functions write, field by field.
LEMMA BuildIs ==
  ASSUME NEW p
  PROVE  /\ p.type \in ControlTypes => Build(p) = BuildControl(p)
         /\ p.type = "PASS_RESP" => Build(p) = BuildPassResp(p)
         /\ p.type = "DATA" => Build(p) = BuildData(p)
         /\ p.type = "TERMINATE" => Build(p) = BuildTerminate(p)
         /\ p.type \in FeedbackTypes => Build(p) = BuildFeedback(p)
BY DEF Build, ControlTypes, FeedbackTypes

LEMMA CodeIs ==
  /\ Code.PASS_RESP = Code["PASS_RESP"] /\ Code.DATA = Code["DATA"]
  /\ Code.TERMINATE = Code["TERMINATE"]
OBVIOUS

\* What parse_packet() accepts is what the build function of its type writes, and its
\* payload fits.
LEMMA AcceptedIsBuilt ==
  ASSUME NEW b \in Datagrams, Parse(b) # Refused
  PROVE  /\ Build(Parse(b)) = b
         /\ Len(b) <= RecvBuffer
         /\ Parse(b) # NotParsed
<1>. DEFINE t == CHOOSE u \in DOMAIN Code : Code[u] = GetU16(b, 0)
            n == GetU32(b, 2)
<1>1. b \in Seq(Nat) /\ Len(b) \in Nat
  BY LenProperties DEF Datagrams
<1>2. /\ ~(Len(b) < HeaderSize) /\ ~(Len(b) > RecvBuffer) /\ ValidType(GetU16(b, 0))
      /\ Parse(b) = ParseBody(b, t, n)
  BY DEF Parse
<1>3. Len(b) >= 6 /\ Len(b) <= RecvBuffer
  BY <1>1, <1>2, SizeAssumption DEF HeaderSize
<1>4. t \in DOMAIN Code /\ Code[t] = GetU16(b, 0)
  BY <1>2, CodesAre DEF ValidType
<1>5. U16(Code[t]) = SubSeq(b, 1, 2)
  BY <1>3, <1>4, TypeRead
<1>6. n \in Nat /\ U16(Code[t]) \o U32(n) = SubSeq(b, 1, 6)
  <2>1. GetU32(b, 2) \in Nat /\ SubSeq(b, 1, 2) \o U32(GetU32(b, 2)) = SubSeq(b, 1, 6)
    <3>1. 2 \in {2, 6, 10} /\ 2 + 4 = 6 /\ 2 + 4 <= Len(b)
      BY <1>1, <1>3
    <3>2. QED
      BY <3>1, NumberRead
  <2>2. QED
    BY <1>5, <2>1
<1>7. /\ Body(b, 6) \in Seq(Nat) /\ Len(Body(b, 6)) = Len(b) - 6
      /\ SubSeq(b, 1, 6) \o Body(b, 6) = b
  BY <1>3, BodyRead
<1>. DEFINE p == ParseBody(b, t, n)
<1>8. p # Refused
  BY <1>2
<1>. HIDE DEF t, n
<1>9. CASE t \in ControlTypes
  <2>1. n = 0 /\ Len(b) = 6 /\ p = [type |-> t]
    BY <1>8, <1>9 DEF ParseBody, HeaderSize, ControlTypes, FeedbackTypes
  <2>2. Build(p) = U16(Code[t]) \o U32(0)
    BY <1>9, <2>1 DEF Build, BuildControl, ControlTypes, FeedbackTypes
  <2>3. SubSeq(b, 1, 6) = b
    BY <1>1, <2>1, SubSeqFull
  <2>4. p # NotParsed
    BY <1>9, <2>1 DEF NotParsed, ControlTypes
  <2>5. QED
    BY <1>2, <1>3, <1>6, <2>1, <2>2, <2>3, <2>4
<1>10. CASE t = "PASS_RESP"
  <2>1. n = Len(b) - 6 /\ p = [type |-> "PASS_RESP", payload |-> Body(b, 6)]
    BY <1>1, <1>6, <1>8, <1>10
       DEF ParseBody, HeaderSize, ControlTypes, FeedbackTypes, PassRespFits
  <2>2. Build(p) = U16(Code[t]) \o U32(Len(Body(b, 6))) \o Body(b, 6)
    <3>1. p.type = "PASS_RESP" /\ p.payload = Body(b, 6)
      BY <2>1
    <3>2. Build(p) = BuildPassResp(p)
      BY <3>1, BuildIs
    <3>3. BuildPassResp(p) = U16(Code[t]) \o U32(Len(p.payload)) \o p.payload
      BY <1>10, CodeIs DEF BuildPassResp
    <3>4. QED
      BY <3>1, <3>2, <3>3
  <2>3. Build(p) = b
    BY <1>6, <1>7, <2>1, <2>2
  <2>4. p # NotParsed
    BY <2>1 DEF NotParsed
  <2>5. QED
    BY <1>2, <1>3, <2>3, <2>4
<1>11. CASE t = "DATA"
  <2>1. /\ n = Len(b) - 10 /\ Len(b) >= 10
        /\ p = [type |-> "DATA", id |-> GetU32(b, 6), payload |-> Body(b, 10)]
    BY <1>1, <1>6, <1>8, <1>11
       DEF ParseBody, HeaderSize, DataHeaderSize, ControlTypes, FeedbackTypes, DataFits
  <2>2. /\ Len(Body(b, 10)) = Len(b) - 10 /\ SubSeq(b, 1, 10) \o Body(b, 10) = b
    BY <2>1, BodyRead
  <2>3. SubSeq(b, 1, 6) \o U32(GetU32(b, 6)) = SubSeq(b, 1, 10)
    <3>1. 6 \in {2, 6, 10} /\ 6 + 4 = 10
      OBVIOUS
    <3>2. QED
      BY <2>1, <3>1, NumberRead
  <2>4. Build(p) = U16(Code[t]) \o U32(Len(Body(b, 10))) \o U32(GetU32(b, 6)) \o Body(b, 10)
    <3>1. p.type = "DATA" /\ p.id = GetU32(b, 6) /\ p.payload = Body(b, 10)
      BY <2>1
    <3>2. Build(p) = BuildData(p)
      BY <3>1, BuildIs
    <3>3. BuildData(p) = U16(Code[t]) \o U32(Len(p.payload)) \o U32(p.id) \o p.payload
      BY <1>11, CodeIs DEF BuildData
    <3>4. QED
      BY <3>1, <3>2, <3>3
  <2>5. Build(p) = b
    BY <1>6, <2>1, <2>2, <2>3, <2>4
  <2>6. p # NotParsed
    BY <2>1 DEF NotParsed
  <2>7. QED
    BY <1>2, <1>3, <2>5, <2>6
<1>12. CASE t = "TERMINATE"
  <2>1. n = DigestSize /\ p = [type |-> "TERMINATE", payload |-> Body(b, 6)]
    BY <1>8, <1>12 DEF ParseBody, HeaderSize, ControlTypes, FeedbackTypes
  <2>2. Build(p) = U16(Code[t]) \o U32(DigestSize) \o Body(b, 6)
    <3>1. p.type = "TERMINATE" /\ p.payload = Body(b, 6)
      BY <2>1
    <3>2. Build(p) = BuildTerminate(p)
      BY <3>1, BuildIs
    <3>3. BuildTerminate(p) = U16(Code[t]) \o U32(DigestSize) \o p.payload
      BY <1>12, CodeIs DEF BuildTerminate
    <3>4. QED
      BY <3>1, <3>2, <3>3
  <2>3. Build(p) = b
    BY <1>6, <1>7, <2>1, <2>2
  <2>4. p # NotParsed
    BY <2>1 DEF NotParsed
  <2>5. QED
    BY <1>2, <1>3, <2>3, <2>4
<1>13. CASE t \in FeedbackTypes
  <2>1. /\ n = 8 /\ Len(b) = 14
        /\ p = [type |-> t, id |-> GetU32(b, 6), window |-> GetU32(b, 10)]
    BY <1>8, <1>13
       DEF ParseBody, HeaderSize, FeedbackHeaderSize, ControlTypes, FeedbackTypes
  <2>2. /\ SubSeq(b, 1, 6) \o U32(GetU32(b, 6)) = SubSeq(b, 1, 10)
        /\ SubSeq(b, 1, 10) \o U32(GetU32(b, 10)) = SubSeq(b, 1, 14)
    <3>1. 6 \in {2, 6, 10} /\ 6 + 4 = 10 /\ 6 + 4 <= Len(b)
      BY <2>1
    <3>2. 10 \in {2, 6, 10} /\ 10 + 4 = 14 /\ 10 + 4 <= Len(b)
      BY <2>1
    <3>3. SubSeq(b, 1, 6) \o U32(GetU32(b, 6)) = SubSeq(b, 1, 10)
      BY <3>1, NumberRead
    <3>4. SubSeq(b, 1, 10) \o U32(GetU32(b, 10)) = SubSeq(b, 1, 14)
      BY <3>2, NumberRead
    <3>5. QED
      BY <3>3, <3>4
  <2>3. SubSeq(b, 1, 14) = b
    BY <1>1, <2>1, SubSeqFull
  <2>4. Build(p) = U16(Code[t]) \o U32(8) \o U32(GetU32(b, 6)) \o U32(GetU32(b, 10))
    BY <1>13, <2>1 DEF Build, BuildFeedback, ControlTypes, FeedbackTypes
  <2>5. Build(p) = b
    BY <1>6, <2>1, <2>2, <2>3, <2>4
  <2>6. p # NotParsed
    BY <1>13, <2>1 DEF NotParsed, FeedbackTypes
  <2>7. QED
    BY <1>2, <1>3, <2>5, <2>6
<1>14. QED
  BY <1>4, <1>9, <1>10, <1>11, <1>12, <1>13, CodesAre

\* Parts of a packet are written one behind the other.
LEMMA TypeWritten ==
  ASSUME NEW c \in Nat
  PROVE  U16(c) \in Datagrams /\ Len(U16(c)) = 2 /\ GetU16(U16(c), 0) = c
<1>1. PICK x \in Nat, y \in Octet : U16(c) = <<x, y>> /\ c = 256 * x + y
  BY U16Is
<1>. DEFINE s == <<x, y>>
<1>2. s \in Seq(Nat) /\ Len(s) = 2 /\ s[1] = x /\ s[2] = y
  BY DEF Octet
<1>. HIDE DEF s
<1>3. \A i \in 1..Len(s) : i \notin Highest => s[i] \in Octet
  <2>1. \A i \in 1..Len(s) : i = 1 \/ i = 2
    BY <1>2
  <2>2. QED
    BY <1>2, <2>1 DEF Highest
<1>4. s \in Datagrams
  BY <1>2, <1>3 DEF Datagrams
<1>5. GetU16(s, 0) = 256 * s[1] + s[2]
  BY DEF GetU16
<1>6. GetU16(s, 0) = c
  BY <1>1, <1>2, <1>5
<1>7. U16(c) = s
  BY <1>1 DEF s
<1>8. QED
  BY <1>2, <1>4, <1>6, <1>7

LEMMA PartWritten ==
  ASSUME NEW s \in Datagrams, NEW t \in Seq(Nat)
  PROVE  /\ s \o t \in Seq(Nat) /\ Len(s \o t) = Len(s) + Len(t)
         /\ Len(s) \in Nat /\ Len(t) \in Nat
         /\ \A i \in 1..Len(s) : (s \o t)[i] = s[i]
         /\ \A i \in 1..Len(t) : (s \o t)[Len(s) + i] = t[i]
         /\ (\A i \in 1..Len(t) : Len(s) + i \notin Highest => t[i] \in Octet)
              => s \o t \in Datagrams
         /\ Len(s) >= 2 => GetU16(s \o t, 0) = GetU16(s, 0)
         /\ Len(s) >= 6 => GetU32(s \o t, 2) = GetU32(s, 2)
         /\ Len(s) >= 10 => GetU32(s \o t, 6) = GetU32(s, 6)
<1>. DEFINE u == s \o t
<1>1. s \in Seq(Nat) /\ Len(s) \in Nat /\ Len(t) \in Nat
  BY LenProperties DEF Datagrams
<1>2. u \in Seq(Nat) /\ Grows(s, u, t)
  BY <1>1, Concatenated
<1>. HIDE DEF u
<1>3. /\ Len(u) = Len(s) + Len(t)
      /\ \A i \in 1..Len(s) : u[i] = s[i]
      /\ \A i \in 1..Len(t) : u[Len(s) + i] = t[i]
  BY <1>2 DEF Grows
<1>4. ASSUME \A i \in 1..Len(t) : Len(s) + i \notin Highest => t[i] \in Octet
      PROVE  u \in Datagrams
  <2>1. ASSUME NEW i \in 1..Len(u), i \notin Highest
        PROVE  u[i] \in Octet
    <3>1. CASE i <= Len(s)
      BY <1>1, <1>3, <2>1, <3>1 DEF Datagrams
    <3>2. CASE i > Len(s)
      <4>1. PICK k \in 1..Len(t) : i = Len(s) + k
        <5>1. i - Len(s) \in 1..Len(t) /\ i = Len(s) + (i - Len(s))
          BY <1>1, <1>3, <3>2
        <5>2. QED
          BY <5>1
      <4>2. QED
        BY <1>3, <1>4, <2>1, <4>1
    <3>3. QED
      BY <1>1, <3>1, <3>2
  <2>2. QED
    BY <1>2, <2>1 DEF Datagrams
<1>5. Len(s) >= 2 => GetU16(u, 0) = GetU16(s, 0)
  <2>1. Len(s) >= 2 => u[1] = s[1] /\ u[2] = s[2]
    BY <1>1, <1>3
  <2>2. QED
    BY <2>1 DEF GetU16
<1>6. Len(s) >= 6 => GetU32(u, 2) = GetU32(s, 2)
  <2>1. Len(s) >= 6 => u[3] = s[3] /\ u[4] = s[4] /\ u[5] = s[5] /\ u[6] = s[6]
    BY <1>1, <1>3
  <2>2. QED
    BY <2>1 DEF GetU16, GetU32
<1>7. Len(s) >= 10 => GetU32(u, 6) = GetU32(s, 6)
  <2>1. Len(s) >= 10 => u[7] = s[7] /\ u[8] = s[8] /\ u[9] = s[9] /\ u[10] = s[10]
    BY <1>1, <1>3
  <2>2. QED
    BY <2>1 DEF GetU16, GetU32
<1>8. QED
  BY <1>1, <1>2, <1>3, <1>4, <1>5, <1>6, <1>7 DEF u

LEMMA NumberWritten ==
  ASSUME NEW s \in Datagrams, NEW k \in {2, 6, 10}, Len(s) = k, NEW n \in Nat
  PROVE  /\ s \o U32(n) \in Datagrams /\ Len(s \o U32(n)) = k + 4
         /\ GetU32(s \o U32(n), k) = n
<1>. DEFINE t == U32(n)
            u == s \o t
<1>2. /\ t \in Seq(Nat) /\ Len(t) = 4
      /\ t[2] \in Octet /\ t[3] \in Octet /\ t[4] \in Octet
      /\ GetU32(t, 0) = n
  BY U32Is
<1>. HIDE DEF t
<1>3. /\ u \in Seq(Nat) /\ Len(u) = k + 4
      /\ \A i \in 1..4 : u[k + i] = t[i]
      /\ (\A i \in 1..4 : k + i \notin Highest => t[i] \in Octet) => u \in Datagrams
  <2>1. /\ u \in Seq(Nat) /\ Len(u) = Len(s) + Len(t)
        /\ \A i \in 1..Len(t) : u[Len(s) + i] = t[i]
        /\ (\A i \in 1..Len(t) : Len(s) + i \notin Highest => t[i] \in Octet)
             => u \in Datagrams
    BY ONLY <1>2, s \in Datagrams, PartWritten
  <2>2. QED
    BY <1>2, <2>1
<1>. HIDE DEF u
<1>4. u[k + 1] = t[1] /\ u[k + 2] = t[2] /\ u[k + 3] = t[3] /\ u[k + 4] = t[4]
  BY <1>2, <1>3
<1>5. ASSUME NEW i \in 1..4, k + i \notin Highest
      PROVE  t[i] \in Octet
  <2>1. i = 1 \/ i = 2 \/ i = 3 \/ i = 4
    OBVIOUS
  <2>2. i # 1
    BY <1>5 DEF Highest
  <2>3. QED
    BY <1>2, <2>1, <2>2
<1>6. GetU32(u, k) = 65536 * (256 * u[k + 1] + u[k + 2]) + (256 * u[k + 3] + u[k + 4])
  <2>1. k + 2 + 1 = k + 3 /\ k + 2 + 2 = k + 4
    OBVIOUS
  <2>2. QED
    BY <2>1 DEF GetU32, GetU16
<1>7. GetU32(u, k) = n
  <2>1. GetU32(t, 0) = 65536 * (256 * t[1] + t[2]) + (256 * t[3] + t[4])
    BY DEF GetU32, GetU16
  <2>2. QED
    BY <1>2, <1>4, <1>6, <2>1
<1>8. u \in Datagrams
  BY <1>3, <1>5
<1>9. QED
  BY <1>3, <1>7, <1>8 DEF t, u

LEMMA OctetsAreNumbers == Seq(Octet) \subseteq Seq(Nat)
<1>1. Octet \subseteq Nat
  BY DEF Octet
<1>2. QED
  BY <1>1, SeqMonotonic

LEMMA PayloadWritten ==
  ASSUME NEW s \in Datagrams, NEW t \in Seq(Octet), NEW k \in Nat, Len(s) = k
  PROVE  /\ s \o t \in Datagrams /\ Len(s \o t) = k + Len(t) /\ Len(t) \in Nat
         /\ Body(s \o t, k) = t
<1>1. t \in Seq(Nat) /\ s \in Seq(Nat) /\ Len(t) \in Nat /\ \A i \in 1..Len(t) : t[i] \in Octet
  <2>2. Len(t) \in Nat /\ \A i \in 1..Len(t) : t[i] \in Octet
    BY LenProperties, ElementOfSeq
  <2>3. t \in Seq(Nat)
    BY OctetsAreNumbers
  <2>4. QED
    BY <2>2, <2>3 DEF Datagrams
<1>. DEFINE u == s \o t
<1>2. /\ u \in Datagrams /\ u \in Seq(Nat) /\ Len(u) = k + Len(t)
      /\ \A i \in 1..Len(t) : u[k + i] = t[i]
  BY <1>1, PartWritten
<1>. HIDE DEF u
<1>. DEFINE v == SubSeq(u, k + 1, Len(u))
<1>3. v \in Seq(Nat) /\ Len(v) = Len(t) /\ \A i \in 1..Len(t) : v[i] = u[k + i]
  <2>1. \A i \in k + 1..Len(u) : u[i] \in Nat
    BY <1>1, <1>2
  <2>2. /\ v \in Seq(Nat) /\ Len(v) = IF k + 1 <= Len(u) THEN Len(u) - (k + 1) + 1 ELSE 0
        /\ \A i \in 1..Len(u) - (k + 1) + 1 : v[i] = u[k + 1 + i - 1]
    <3>1. k + 1 \in Int /\ Len(u) \in Int
      BY <1>1, <1>2
    <3>2. QED
      BY ONLY <2>1, <3>1, SubSeqProperties
  <2>. HIDE DEF v
  <2>3. \A i \in 1..Len(t) : k + 1 + i - 1 = k + i
    BY <1>1
  <2>4. Len(u) - (k + 1) + 1 = Len(t)
    BY <1>1, <1>2
  <2>5. QED
    BY <1>1, <1>2, <2>2, <2>3, <2>4
<1>. HIDE DEF v
<1>4. v = t
  BY <1>1, <1>2, <1>3, SeqEqual
<1>5. QED
  BY <1>1, <1>2, <1>4 DEF u, v, Body

LEMMA HeaderStays ==
  ASSUME NEW s \in Datagrams, NEW t \in Seq(Nat), NEW u, u = s \o t
  PROVE  /\ Len(s) = 2 => GetU16(u, 0) = GetU16(s, 0)
         /\ Len(s) = 6 => GetU16(u, 0) = GetU16(s, 0) /\ GetU32(u, 2) = GetU32(s, 2)
         /\ Len(s) = 10 => /\ GetU16(u, 0) = GetU16(s, 0) /\ GetU32(u, 2) = GetU32(s, 2)
                           /\ GetU32(u, 6) = GetU32(s, 6)
<1>1. /\ Len(s \o t) = Len(s) + Len(t)
      /\ Len(s) >= 2 => GetU16(s \o t, 0) = GetU16(s, 0)
      /\ Len(s) >= 6 => GetU32(s \o t, 2) = GetU32(s, 2)
      /\ Len(s) >= 10 => GetU32(s \o t, 6) = GetU32(s, 6)
  BY ONLY s \in Datagrams, t \in Seq(Nat), PartWritten
<1>2. Len(s) = 2 => Len(s) >= 2
  OBVIOUS
<1>3. Len(s) = 6 => Len(s) >= 2 /\ Len(s) >= 6
  OBVIOUS
<1>4. Len(s) = 10 => Len(s) >= 2 /\ Len(s) >= 6 /\ Len(s) >= 10
  OBVIOUS
<1>5. QED
  BY ONLY <1>1, <1>2, <1>3, <1>4, u = s \o t

LEMMA HeaderWritten ==
  ASSUME NEW t \in DOMAIN Code, NEW n \in Nat
  PROVE  /\ U16(Code[t]) \o U32(n) \in Datagrams /\ Len(U16(Code[t]) \o U32(n)) = 6
         /\ GetU16(U16(Code[t]) \o U32(n), 0) = Code[t]
         /\ GetU32(U16(Code[t]) \o U32(n), 2) = n
<1>. DEFINE s == U16(Code[t])
<1>1. Code[t] \in Nat
  BY CodesAre
<1>2. s \in Datagrams /\ Len(s) = 2 /\ GetU16(s, 0) = Code[t]
  BY <1>1, TypeWritten
<1>. HIDE DEF s
<1>3. /\ s \o U32(n) \in Datagrams /\ Len(s \o U32(n)) = 6 /\ GetU32(s \o U32(n), 2) = n
  <2>1. 2 \in {2, 6, 10} /\ 2 + 4 = 6
    OBVIOUS
  <2>2. QED
    BY <1>2, <2>1, NumberWritten
<1>4. GetU16(s \o U32(n), 0) = GetU16(s, 0)
  <2>1. U32(n) \in Seq(Nat)
    BY U32Is
  <2>2. QED
    BY <1>2, <2>1, HeaderStays
<1>5. QED
  BY <1>2, <1>3, <1>4 DEF s

LEMMA ParseIs ==
  ASSUME NEW b, Len(b) \in Nat, Len(b) >= 6, Len(b) <= RecvBuffer,
         NEW t \in DOMAIN Code, GetU16(b, 0) = Code[t]
  PROVE  Parse(b) = ParseBody(b, t, GetU32(b, 2))
<1>1. ~(Len(b) < HeaderSize) /\ ~(Len(b) > RecvBuffer)
  BY SizeAssumption DEF HeaderSize
<1>2. ValidType(GetU16(b, 0))
  BY CodesAre DEF ValidType
<1>3. (CHOOSE u \in DOMAIN Code : Code[u] = GetU16(b, 0)) = t
  BY TypeOf
<1>4. QED
  BY <1>1, <1>2, <1>3 DEF Parse

LEMMA ByteStringsAre ==
  ASSUME NEW max \in Nat, NEW s \in ByteStrings(max)
  PROVE  s \in Seq(Octet) /\ Len(s) \in Nat /\ Len(s) <= max
<1>1. PICK n \in 0..max : s \in [1..n -> Byte]
  BY DEF ByteStrings
<1>2. s \in [1..n -> Octet]
  BY <1>1, ByteAssumption DEF Octet
<1>3. s \in Seq(Octet) /\ Len(s) = n
  BY <1>2, SeqDef, LenProperties
<1>4. QED
  BY <1>1, <1>3

LEMMA BuiltIsAccepted ==
  ASSUME NEW p \in Packets
  PROVE  /\ Build(p) \in Datagrams /\ Len(Build(p)) <= RecvBuffer
         /\ Parse(Build(p)) = p
<1>. DEFINE b == Build(p)
<1>1. /\ {ChunkSize, MaxPassword, DigestSize, RecvBuffer} \subseteq Nat /\ Ids \subseteq Nat
      /\ 14 < RecvBuffer /\ 10 + ChunkSize < RecvBuffer
      /\ 6 + MaxPassword < RecvBuffer /\ 6 + DigestSize < RecvBuffer
  BY SizeAssumption, ByteAssumption
<1>2. CASE p \in [type : ControlTypes]
  <2>1. p.type \in ControlTypes /\ p.type \in DOMAIN Code /\ p = [type |-> p.type]
    BY <1>2, CodesAre
  <2>2. b = U16(Code[p.type]) \o U32(0)
    BY <2>1, BuildIs DEF BuildControl
  <2>. HIDE DEF b
  <2>3. b \in Datagrams /\ Len(b) = 6 /\ GetU16(b, 0) = Code[p.type] /\ GetU32(b, 2) = 0
    BY <2>1, <2>2, HeaderWritten
  <2>4. Parse(b) = ParseBody(b, p.type, 0)
    <3>1. Len(b) \in Nat /\ Len(b) >= 6 /\ Len(b) <= RecvBuffer
      BY <1>1, <2>3
    <3>2. Parse(b) = ParseBody(b, p.type, GetU32(b, 2))
      BY <2>1, <2>3, <3>1, ParseIs
    <3>3. QED
      BY <2>3, <3>2
  <2>5. ParseBody(b, p.type, 0) = [type |-> p.type]
    BY <2>1, <2>3 DEF ParseBody, ControlTypes, FeedbackTypes, HeaderSize
  <2>6. QED
    BY <1>1, <2>1, <2>3, <2>4, <2>5 DEF b
<1>3. CASE p \in [type : {"PASS_RESP"}, payload : ByteStrings(MaxPassword)]
  <2>1. /\ p.type = "PASS_RESP" /\ p.payload \in ByteStrings(MaxPassword)
        /\ p = [type |-> "PASS_RESP", payload |-> p.payload]
    BY <1>3
  <2>. DEFINE s == p.payload
  <2>2. s \in Seq(Octet) /\ Len(s) \in Nat /\ Len(s) <= MaxPassword
    BY <1>1, <2>1, ByteStringsAre
  <2>3. b = U16(Code["PASS_RESP"]) \o U32(Len(s)) \o s
    BY <2>1, BuildIs, CodeIs DEF BuildPassResp
  <2>. HIDE DEF b, s
  <2>. DEFINE h == U16(Code["PASS_RESP"]) \o U32(Len(s))
  <2>4. "PASS_RESP" \in DOMAIN Code
    BY CodesAre
  <2>5. /\ h \in Datagrams /\ Len(h) = 6
        /\ GetU16(h, 0) = Code["PASS_RESP"] /\ GetU32(h, 2) = Len(s)
    BY <2>2, <2>4, HeaderWritten
  <2>6. b = h \o s
    BY <2>3
  <2>. HIDE DEF h
  <2>7. /\ b \in Datagrams /\ Len(b) = 6 + Len(s) /\ Body(b, 6) = s
    BY <2>2, <2>5, <2>6, PayloadWritten
  <2>8. GetU16(b, 0) = GetU16(h, 0) /\ GetU32(b, 2) = GetU32(h, 2)
    <3>1. s \in Seq(Nat)
      BY <2>2, OctetsAreNumbers
    <3>2. QED
      BY <2>5, <2>6, <3>1, HeaderStays
  <2>9. Parse(b) = ParseBody(b, "PASS_RESP", Len(s))
    BY <1>1, <2>2, <2>4, <2>5, <2>7, <2>8, ParseIs
  <2>10. ParseBody(b, "PASS_RESP", Len(s)) = [type |-> "PASS_RESP", payload |-> s]
    BY <2>2, <2>7 DEF ParseBody, ControlTypes, FeedbackTypes, HeaderSize, PassRespFits
  <2>11. Len(b) <= RecvBuffer
    BY <1>1, <2>2, <2>7
  <2>12. QED
    BY <2>1, <2>7, <2>9, <2>10, <2>11 DEF b, s
<1>4. CASE p \in [type : {"DATA"}, id : Ids, payload : ByteStrings(ChunkSize)]
  <2>1. /\ p.type = "DATA" /\ p.payload \in ByteStrings(ChunkSize) /\ p.id \in Ids
        /\ p = [type |-> "DATA", id |-> p.id, payload |-> p.payload]
    BY <1>4
  <2>. DEFINE s == p.payload
              k == p.id
  <2>2. s \in Seq(Octet) /\ Len(s) \in Nat /\ Len(s) <= ChunkSize /\ k \in Nat
    BY <1>1, <2>1, ByteStringsAre
  <2>3. b = U16(Code["DATA"]) \o U32(Len(s)) \o U32(k) \o s
    BY <2>1, BuildIs, CodeIs DEF BuildData
  <2>. HIDE DEF b, s, k
  <2>. DEFINE h == U16(Code["DATA"]) \o U32(Len(s))
  <2>4. "DATA" \in DOMAIN Code
    BY CodesAre
  <2>5. /\ h \in Datagrams /\ Len(h) = 6
        /\ GetU16(h, 0) = Code["DATA"] /\ GetU32(h, 2) = Len(s)
    BY <2>2, <2>4, HeaderWritten
  <2>6. b = h \o U32(k) \o s
    BY <2>3
  <2>. HIDE DEF h
  <2>. DEFINE g == h \o U32(k)
  <2>7. /\ g \in Datagrams /\ Len(g) = 10 /\ GetU32(g, 6) = k
        /\ GetU16(g, 0) = GetU16(h, 0) /\ GetU32(g, 2) = GetU32(h, 2)
    <3>1. 6 \in {2, 6, 10} /\ 6 + 4 = 10
      OBVIOUS
    <3>2. g \in Datagrams /\ Len(g) = 10 /\ GetU32(g, 6) = k
      BY <2>2, <2>5, <3>1, NumberWritten
    <3>3. U32(k) \in Seq(Nat)
      BY <2>2, U32Is
    <3>4. GetU16(g, 0) = GetU16(h, 0) /\ GetU32(g, 2) = GetU32(h, 2)
      BY <2>5, <3>3, HeaderStays
    <3>5. QED
      BY <3>2, <3>4
  <2>8. b = g \o s
    BY <2>6
  <2>. HIDE DEF g
  <2>9. /\ b \in Datagrams /\ Len(b) = 10 + Len(s) /\ Body(b, 10) = s
    BY <2>2, <2>7, <2>8, PayloadWritten
  <2>10. /\ GetU16(b, 0) = GetU16(g, 0) /\ GetU32(b, 2) = GetU32(g, 2)
         /\ GetU32(b, 6) = GetU32(g, 6)
    <3>1. s \in Seq(Nat)
      BY <2>2, OctetsAreNumbers
    <3>2. QED
      BY <2>7, <2>8, <3>1, HeaderStays
  <2>11. Parse(b) = ParseBody(b, "DATA", Len(s))
    BY <1>1, <2>2, <2>4, <2>5, <2>7, <2>9, <2>10, ParseIs
  <2>12. ParseBody(b, "DATA", Len(s)) = [type |-> "DATA", id |-> k, payload |-> s]
    BY <2>2, <2>7, <2>9, <2>10
       DEF ParseBody, ControlTypes, FeedbackTypes, HeaderSize, DataHeaderSize, DataFits
  <2>13. Len(b) <= RecvBuffer
    BY <1>1, <2>2, <2>9
  <2>14. QED
    BY <2>1, <2>9, <2>11, <2>12, <2>13 DEF b, s, k
<1>5. CASE p \in [type : {"TERMINATE"}, payload : [1..DigestSize -> Byte]]
  <2>1. /\ p.type = "TERMINATE" /\ p.payload \in [1..DigestSize -> Byte]
        /\ p = [type |-> "TERMINATE", payload |-> p.payload]
    BY <1>5
  <2>. DEFINE s == p.payload
  <2>2. s \in Seq(Octet) /\ Len(s) = DigestSize
    <3>1. s \in [1..DigestSize -> Octet]
      BY <2>1, ByteAssumption DEF Octet
    <3>2. QED
      BY <1>1, <3>1, SeqDef, LenProperties
  <2>3. b = U16(Code["TERMINATE"]) \o U32(DigestSize) \o s
    BY <2>1, BuildIs, CodeIs DEF BuildTerminate
  <2>. HIDE DEF b, s
  <2>. DEFINE h == U16(Code["TERMINATE"]) \o U32(DigestSize)
  <2>4. "TERMINATE" \in DOMAIN Code
    BY CodesAre
  <2>5. /\ h \in Datagrams /\ Len(h) = 6
        /\ GetU16(h, 0) = Code["TERMINATE"] /\ GetU32(h, 2) = DigestSize
    BY <1>1, <2>4, HeaderWritten
  <2>6. b = h \o s
    BY <2>3
  <2>. HIDE DEF h
  <2>7. /\ b \in Datagrams /\ Len(b) = 6 + DigestSize /\ Body(b, 6) = s
    <3>1. /\ h \o s \in Datagrams /\ Len(h \o s) = 6 + Len(s)
          /\ Body(h \o s, 6) = s
      BY ONLY <2>2, <2>5, PayloadWritten
    <3>2. QED
      BY <2>2, <2>6, <3>1
  <2>8. GetU16(b, 0) = GetU16(h, 0) /\ GetU32(b, 2) = GetU32(h, 2)
    <3>1. s \in Seq(Nat)
      BY <2>2, OctetsAreNumbers
    <3>2. QED
      BY <2>5, <2>6, <3>1, HeaderStays
  <2>9. Parse(b) = ParseBody(b, "TERMINATE", DigestSize)
    BY <1>1, <2>2, <2>4, <2>5, <2>7, <2>8, ParseIs
  <2>10. ParseBody(b, "TERMINATE", DigestSize) = [type |-> "TERMINATE", payload |-> s]
    BY <2>2, <2>7 DEF ParseBody, ControlTypes, FeedbackTypes, HeaderSize
  <2>11. Len(b) <= RecvBuffer
    BY <1>1, <2>7
  <2>12. QED
    BY <2>1, <2>7, <2>9, <2>10, <2>11 DEF b, s
<1>6. CASE p \in [type : FeedbackTypes, id : Ids, window : Ids]
  <2>1. /\ p.type \in FeedbackTypes /\ p.id \in Ids /\ p.window \in Ids
        /\ p = [type |-> p.type, id |-> p.id, window |-> p.window]
    BY <1>6
  <2>. DEFINE t == p.type
              k == p.id
              w == p.window
  <2>2. k \in Nat /\ w \in Nat /\ t \in DOMAIN Code /\ t \in FeedbackTypes
    BY <1>1, <2>1, CodesAre
  <2>3. b = U16(Code[t]) \o U32(8) \o U32(k) \o U32(w)
    BY <2>1, BuildIs DEF BuildFeedback
  <2>. HIDE DEF b, t, k, w
  <2>. DEFINE h == U16(Code[t]) \o U32(8)
  <2>5. /\ h \in Datagrams /\ Len(h) = 6 /\ GetU16(h, 0) = Code[t] /\ GetU32(h, 2) = 8
    BY <2>2, HeaderWritten
  <2>6. b = h \o U32(k) \o U32(w)
    BY <2>3
  <2>. HIDE DEF h
  <2>. DEFINE g == h \o U32(k)
  <2>7. /\ g \in Datagrams /\ Len(g) = 10 /\ GetU32(g, 6) = k
        /\ GetU16(g, 0) = GetU16(h, 0) /\ GetU32(g, 2) = GetU32(h, 2)
    <3>1. 6 \in {2, 6, 10} /\ 6 + 4 = 10
      OBVIOUS
    <3>2. g \in Datagrams /\ Len(g) = 10 /\ GetU32(g, 6) = k
      BY <2>2, <2>5, <3>1, NumberWritten
    <3>3. U32(k) \in Seq(Nat)
      BY <2>2, U32Is
    <3>4. GetU16(g, 0) = GetU16(h, 0) /\ GetU32(g, 2) = GetU32(h, 2)
      BY <2>5, <3>3, HeaderStays
    <3>5. QED
      BY <3>2, <3>4
  <2>8. b = g \o U32(w)
    BY <2>6
  <2>. HIDE DEF g
  <2>9. b \in Datagrams /\ Len(b) = 14 /\ GetU32(b, 10) = w
    <3>1. 10 \in {2, 6, 10} /\ 10 + 4 = 14
      OBVIOUS
    <3>2. QED
      BY <2>2, <2>7, <2>8, <3>1, NumberWritten
  <2>10. /\ GetU16(b, 0) = GetU16(g, 0) /\ GetU32(b, 2) = GetU32(g, 2)
         /\ GetU32(b, 6) = GetU32(g, 6)
    <3>1. U32(w) \in Seq(Nat)
      BY <2>2, U32Is
    <3>2. QED
      BY <2>7, <2>8, <3>1, HeaderStays
  <2>11. Parse(b) = ParseBody(b, t, 8)
    <3>1. Len(b) \in Nat /\ Len(b) >= 6 /\ Len(b) <= RecvBuffer
      BY <1>1, <2>9
    <3>2. GetU16(b, 0) = Code[t] /\ GetU32(b, 2) = 8
      BY <2>5, <2>7, <2>10
    <3>3. Parse(b) = ParseBody(b, t, GetU32(b, 2))
      BY <2>2, <3>1, <3>2, ParseIs
    <3>4. QED
      BY <3>2, <3>3
  <2>12. ParseBody(b, t, 8) = [type |-> t, id |-> k, window |-> w]
    BY <2>2, <2>7, <2>9, <2>10
       DEF ParseBody, ControlTypes, FeedbackTypes, HeaderSize, FeedbackHeaderSize
  <2>13. Len(b) <= RecvBuffer
    BY <1>1, <2>9
  <2>14. QED
    BY <2>1, <2>9, <2>11, <2>12, <2>13 DEF b, t, k, w
<1>7. QED
  BY <1>2, <1>3, <1>4, <1>5, <1>6 DEF Packets

\* A packet that is accepted is shorter than the buffer, and its payload fits.
PayloadFits(p) ==
  p.type \in {"PASS_RESP", "DATA", "TERMINATE"} =>
    Len(p.payload) <= (CASE p.type = "PASS_RESP" -> MaxPassword
                         [] p.type = "DATA" -> ChunkSize
                         [] OTHER -> DigestSize)

LEMMA AcceptedFits ==
  ASSUME NEW b \in Datagrams, Parse(b) # Refused
  PROVE  Len(b) < RecvBuffer /\ PayloadFits(Parse(b))
<1>. DEFINE t == CHOOSE u \in DOMAIN Code : Code[u] = GetU16(b, 0)
            n == GetU32(b, 2)
            p == ParseBody(b, t, n)
<1>1. b \in Seq(Nat) /\ Len(b) \in Nat
  BY LenProperties DEF Datagrams
<1>2. /\ ~(Len(b) < HeaderSize) /\ Parse(b) = p
  BY DEF Parse
<1>3. Len(b) >= 6
  BY <1>1, <1>2 DEF HeaderSize
<1>4. n \in Nat
  <2>1. 2 \in {2, 6, 10} /\ 2 + 4 <= Len(b)
    BY <1>1, <1>3
  <2>2. QED
    BY <2>1, NumberRead
<1>5. p # Refused
  BY <1>2
<1>6. /\ {ChunkSize, MaxPassword, DigestSize, RecvBuffer} \subseteq Nat
      /\ 14 < RecvBuffer /\ 10 + ChunkSize < RecvBuffer
      /\ 6 + MaxPassword < RecvBuffer /\ 6 + DigestSize < RecvBuffer
  BY SizeAssumption
<1>. DEFINE body == Body(b, 6)
            rest == Body(b, 10)
<1>7. Len(body) = Len(b) - 6 /\ (Len(b) >= 10 => Len(rest) = Len(b) - 10)
  BY <1>1, <1>3, BodyRead
<1>. HIDE DEF t, n, body, rest
<1>8. \/ Len(b) = 6 /\ p = [type |-> t] /\ t \in ControlTypes
      \/ /\ n <= MaxPassword /\ Len(b) = 6 + n
         /\ p = [type |-> "PASS_RESP", payload |-> body]
      \/ /\ n <= ChunkSize /\ Len(b) = 10 + n
         /\ p = [type |-> "DATA", id |-> GetU32(b, 6), payload |-> rest]
      \/ Len(b) = 6 + DigestSize /\ p = [type |-> "TERMINATE", payload |-> body]
      \/ /\ Len(b) = 14 /\ t \in FeedbackTypes
         /\ p = [type |-> t, id |-> GetU32(b, 6), window |-> GetU32(b, 10)]
  BY <1>5 DEF ParseBody, HeaderSize, DataHeaderSize, FeedbackHeaderSize, PassRespFits, DataFits,
              body, rest
<1>. HIDE DEF p
<1>9. CASE Len(b) = 6 /\ p = [type |-> t] /\ t \in ControlTypes
  <2>1. p.type \in ControlTypes
    BY <1>9
  <2>2. PayloadFits(p)
    BY <2>1 DEF PayloadFits, ControlTypes
  <2>3. QED
    BY <1>2, <1>6, <1>9, <2>2
<1>10. CASE /\ n <= MaxPassword /\ Len(b) = 6 + n
            /\ p = [type |-> "PASS_RESP", payload |-> body]
  <2>1. p.type = "PASS_RESP" /\ p.payload = body /\ Len(body) <= MaxPassword
    BY <1>1, <1>4, <1>6, <1>7, <1>10
  <2>2. PayloadFits(p)
    BY <2>1 DEF PayloadFits
  <2>3. Len(b) < RecvBuffer
    BY <1>4, <1>6, <1>10
  <2>4. QED
    BY <1>2, <2>2, <2>3
<1>11. CASE /\ n <= ChunkSize /\ Len(b) = 10 + n
            /\ p = [type |-> "DATA", id |-> GetU32(b, 6), payload |-> rest]
  <2>1. p.type = "DATA" /\ p.payload = rest /\ Len(rest) <= ChunkSize
    <3>1. Len(b) = 10 + n /\ Len(b) >= 10
      BY <1>1, <1>4, <1>11
    <3>2. Len(rest) = n
      BY <1>4, <1>7, <3>1
    <3>3. QED
      BY <1>11, <3>2
  <2>2. PayloadFits(p)
    BY <2>1 DEF PayloadFits
  <2>3. Len(b) < RecvBuffer
    BY <1>4, <1>6, <1>11
  <2>4. QED
    BY <1>2, <2>2, <2>3
<1>12. CASE Len(b) = 6 + DigestSize /\ p = [type |-> "TERMINATE", payload |-> body]
  <2>1. p.type = "TERMINATE" /\ p.payload = body /\ Len(body) <= DigestSize
    BY <1>1, <1>6, <1>7, <1>12
  <2>2. PayloadFits(p)
    BY <2>1 DEF PayloadFits
  <2>3. Len(b) < RecvBuffer
    BY <1>6, <1>12
  <2>4. QED
    BY <1>2, <2>2, <2>3
<1>13. CASE /\ Len(b) = 14 /\ t \in FeedbackTypes
            /\ p = [type |-> t, id |-> GetU32(b, 6), window |-> GetU32(b, 10)]
  <2>1. p.type \in FeedbackTypes
    BY <1>13
  <2>2. PayloadFits(p)
    BY <2>1 DEF PayloadFits, FeedbackTypes
  <2>3. QED
    BY <1>2, <1>6, <1>13, <2>2
<1>14. QED
  BY <1>8, <1>9, <1>10, <1>11, <1>12, <1>13

\* What recvfrom() cuts is no packet.
LEMMA ReceivedIs ==
  ASSUME NEW d \in Datagrams
  PROVE  /\ Received(d) \in Datagrams
         /\ Len(d) <= RecvBuffer => Received(d) = d
         /\ Len(d) > RecvBuffer => Parse(Received(d)) = Refused
<1>1. d \in Seq(Nat) /\ Len(d) \in Nat /\ RecvBuffer \in Nat
  BY LenProperties, SizeAssumption DEF Datagrams
<1>2. CASE Len(d) <= RecvBuffer
  <2>1. Received(d) = SubSeq(d, 1, Len(d))
    BY <1>1, <1>2 DEF Received
  <2>2. Received(d) = d
    BY <1>1, <2>1, SubSeqFull
  <2>3. QED
    BY <1>1, <1>2, <2>2
<1>3. CASE Len(d) > RecvBuffer
  <2>. DEFINE r == SubSeq(d, 1, RecvBuffer)
  <2>1. Received(d) = r
    BY <1>1, <1>3 DEF Received
  <2>2. r \in Seq(Nat) /\ Len(r) = RecvBuffer /\ \A i \in 1..Len(r) : r[i] = d[i]
    <3>1. /\ r \in Seq(Nat)
          /\ Len(r) = IF 1 <= RecvBuffer THEN RecvBuffer - 1 + 1 ELSE 0
          /\ \A i \in 1..RecvBuffer - 1 + 1 : r[i] = d[1 + i - 1]
      <4>1. 1 \in Int /\ RecvBuffer \in Int /\ \A i \in 1..RecvBuffer : d[i] \in Nat
        BY <1>1, <1>3
      <4>2. QED
        BY ONLY <4>1, SubSeqProperties
    <3>. HIDE DEF r
    <3>2. RecvBuffer - 1 + 1 = RecvBuffer /\ \A i \in 1..RecvBuffer : 1 + i - 1 = i
      BY <1>1
    <3>3. Len(r) = RecvBuffer
      BY <1>1, <3>1
    <3>4. QED
      BY <3>1, <3>2, <3>3
  <2>. HIDE DEF r
  <2>3. r \in Datagrams
    <3>1. \A i \in 1..Len(r) : i \in 1..Len(d)
      BY <1>1, <1>3, <2>2
    <3>2. QED
      BY <2>2, <3>1 DEF Datagrams
  <2>4. Parse(r) = Refused
    <3>1. SUFFICES ASSUME Parse(r) # Refused
                   PROVE  FALSE
      OBVIOUS
    <3>2. Len(r) < RecvBuffer
      BY <2>3, <3>1, AcceptedFits
    <3>3. QED
      BY <1>1, <2>2, <3>2
  <2>5. QED
    BY <1>1, <1>3, <2>1, <2>3, <2>4
<1>4. QED
  BY <1>1, <1>2, <1>3

\* What another program sends instead is a datagram too.
LEMMA DatagramChanged ==
  ASSUME NEW d \in Datagrams
  PROVE  /\ d # <<>> => Front(d) \in Datagrams
         /\ \A b \in Byte : Append(d, b) \in Datagrams
         /\ \A i \in DOMAIN d, b \in Byte : [d EXCEPT ![i] = b] \in Datagrams
<1>1. /\ d \in Seq(Nat) /\ Len(d) \in Nat /\ Byte \subseteq Octet /\ Octet \subseteq Nat
      /\ DOMAIN d = 1..Len(d)
      /\ \A i \in 1..Len(d) : d[i] \in Nat /\ (i \notin Highest => d[i] \in Octet)
  BY LenProperties, ElementOfSeq, ByteAssumption DEF Datagrams, Octet
<1>2. ASSUME d # <<>>
      PROVE  Front(d) \in Datagrams
  <2>. DEFINE n == Len(d) - 1
              r == SubSeq(d, 1, n)
  <2>1. n \in Nat /\ n < Len(d)
    BY <1>1, <1>2, EmptySeq
  <2>. HIDE DEF n
  <2>2. /\ r \in Seq(Nat) /\ Len(r) = n /\ \A i \in 1..n : r[i] = d[i]
    <3>1. /\ r \in Seq(Nat) /\ Len(r) = (IF 1 <= n THEN n - 1 + 1 ELSE 0)
          /\ \A i \in 1..n - 1 + 1 : r[i] = d[1 + i - 1]
      <4>1. 1 \in Int /\ n \in Int /\ \A i \in 1..n : d[i] \in Nat
        BY <1>1, <2>1
      <4>2. QED
        BY ONLY <4>1, SubSeqProperties
    <3>. HIDE DEF r
    <3>2. n - 1 + 1 = n /\ \A i \in 1..n : 1 + i - 1 = i
      BY <2>1
    <3>3. QED
      BY <2>1, <3>1, <3>2
  <2>. HIDE DEF r
  <2>3. r \in Datagrams
    <3>1. \A i \in 1..n : i \in 1..Len(d)
      BY <1>1, <2>1
    <3>2. QED
      BY <1>1, <2>2, <3>1 DEF Datagrams
  <2>4. QED
    BY <2>3 DEF Front, n, r
<1>3. ASSUME NEW b \in Byte
      PROVE  Append(d, b) \in Datagrams
  <2>. DEFINE r == Append(d, b)
  <2>1. b \in Octet /\ b \in Nat
    BY <1>1
  <2>2. /\ r \in Seq(Nat) /\ Len(r) = Len(d) + 1
        /\ \A i \in 1..Len(d) : r[i] = d[i]
        /\ r[Len(d) + 1] = b
    BY <1>1, <2>1, AppendProperties
  <2>. HIDE DEF r
  <2>3. ASSUME NEW i \in 1..Len(r), i \notin Highest
        PROVE  r[i] \in Octet
    <3>1. i \in 1..Len(d) \/ i = Len(d) + 1
      BY <1>1, <2>2
    <3>2. QED
      BY <1>1, <2>1, <2>2, <2>3, <3>1
  <2>4. QED
    BY <2>2, <2>3 DEF Datagrams, r
<1>4. ASSUME NEW j \in DOMAIN d, NEW b \in Byte
      PROVE  [d EXCEPT ![j] = b] \in Datagrams
  <2>. DEFINE r == [d EXCEPT ![j] = b]
  <2>1. b \in Octet /\ b \in Nat
    BY <1>1
  <2>2. /\ r \in Seq(Nat) /\ Len(r) = Len(d)
        /\ \A i \in 1..Len(d) : r[i] = IF i = j THEN b ELSE d[i]
    BY <1>1, <2>1, ExceptSeq
  <2>. HIDE DEF r
  <2>3. ASSUME NEW i \in 1..Len(r), i \notin Highest
        PROVE  r[i] \in Octet
    BY <1>1, <2>1, <2>2, <2>3
  <2>4. QED
    BY <2>2, <2>3 DEF Datagrams, r
<1>5. QED
  BY <1>2, <1>3, <1>4

\* What is on its way is what a program can send, and what has been received was parsed.
PacketShape ==
  /\ faults \cap {"lose", "reorder"} = {} /\ Pair(at) /\ Channels(Datagrams)
  /\ mem = [sent |-> mem.sent, wire |-> mem.wire, packet |-> mem.packet]
  /\ mem.sent \in Packets
  /\ \/ mem.packet = NotParsed
     \/ mem.wire \in Datagrams /\ mem.packet = Parse(Received(mem.wire))

PacketInv == protocol = "packet" => PacketShape

LEMMA PacketStep ==
  ASSUME [Next]_demoVars, protocol = "packet", "lose" \notin faults
  PROVE  PacketSend \/ PacketReceive \/ PacketOther \/ Duplicate \/ UNCHANGED demoVars
BY DEF Next, Server, Client, Strangers, Lose, TcpFamily, WebFamily

LEMMA PacketInitially == Init => PacketInv
<1>. SUFFICES ASSUME Init, protocol = "packet"
              PROVE  PacketShape
  BY DEF PacketInv
<1>1. PacketInit
  BY DEF Init, QuicInit, RadiusInit, SipInit, DnsInit, TcpInit, MqttInit, WebInit, WsInit,
         Http2Init, DigestInit, RequestInit, FramesInit
<1>2. ProgramsInit("receive") /\ faults \subseteq {"duplicate", "other"}
  BY <1>1 DEF PacketInit
<1>3. PICK p \in Packets : mem = [sent |-> p, wire |-> <<>>, packet |-> NotParsed]
  BY <1>1 DEF PacketInit
<1>4. Pair(at) /\ Pair(net) /\ net.server = <<>> /\ net.client = <<>>
  BY <1>2, PlacesInit
<1>5. Channels(Datagrams)
  BY <1>4, EmptySeq DEF Channels
<1>6. QED
  BY <1>2, <1>3, <1>4, <1>5 DEF PacketShape

LEMMA PacketNext ==
  ASSUME PacketInv, [Next]_demoVars
  PROVE  PacketInv'
<1>. SUFFICES ASSUME protocol' = "packet"
              PROVE  PacketShape'
  BY DEF PacketInv
<1>1. protocol = "packet" /\ faults' = faults
  BY SettingsKept DEF SettingsStay
<1>2. PacketShape
  BY <1>1 DEF PacketInv
<1>3. /\ Pair(at) /\ Pair(net) /\ Channels(Datagrams)
      /\ net.server \in Seq(Datagrams) /\ net.client \in Seq(Datagrams)
      /\ mem = [sent |-> mem.sent, wire |-> mem.wire, packet |-> mem.packet]
  BY <1>2 DEF PacketShape, Channels
<1>4. CASE PacketSend
  <2>1. Send("client", <<Build(mem.sent)>>) /\ Goto("client", "exit") /\ UNCHANGED mem
    BY <1>4 DEF PacketSend
  <2>. DEFINE d == Build(mem.sent)
  <2>2. d \in Datagrams
    BY <1>2, BuiltIsAccepted DEF PacketShape
  <2>3. Channels(Datagrams)'
    <3>1. Send("client", <<d>>)
      BY <2>1
    <3>. HIDE DEF d
    <3>2. QED
      BY <1>3, <2>2, <3>1, ClientSendsOne
  <2>4. Pair(at')
    BY <1>3, <2>1, GotoIs DEF Pair
  <2>5. QED
    BY <1>1, <1>2, <2>1, <2>3, <2>4 DEF PacketShape
<1>5. CASE PacketReceive
  <2>1. PICK i \in Arriving("server") :
          /\ mem' = [mem EXCEPT !.wire = net.server[i], !.packet = Parse(Received(net.server[i]))]
          /\ Exchange("server", i, <<>>)
    BY <1>5 DEF PacketReceive
  <2>2. i = 1 /\ 1 \in DOMAIN net.server
    BY <1>2 DEF Arriving, PacketShape
  <2>3. 1 \in 1..Len(net.server) /\ net.server # <<>>
    BY <1>3, <2>2, EmptySeq
  <2>4. Channels(Datagrams)'
    BY <1>3, <2>1, <2>2, <2>3, ServerTakes
  <2>5. Pair(at')
    BY <1>3, <1>5, GotoIs DEF PacketReceive, Pair
  <2>6. net.server[1] \in Datagrams
    BY <1>3, <2>3, ElementOfSeq
  <2>7. mem' = [sent |-> mem.sent, wire |-> net.server[1],
                packet |-> Parse(Received(net.server[1]))]
    BY <1>3, <2>1, <2>2
  <2>8. QED
    BY <1>1, <1>2, <2>4, <2>5, <2>6, <2>7 DEF PacketShape
<1>6. CASE PacketOther
  <2>1. PICK k \in DOMAIN net.server :
          LET d == net.server[k]
          IN  \/ d # <<>> /\ net' = [net EXCEPT !.server[k] = Front(d)]
              \/ \E b \in Byte : net' = [net EXCEPT !.server[k] = Append(d, b)]
              \/ \E i \in DOMAIN d, b \in Byte : net' = [net EXCEPT !.server[k][i] = b]
    BY <1>6 DEF PacketOther
  <2>. DEFINE d == net.server[k]
  <2>2. d \in Datagrams /\ k \in 1..Len(net.server)
    BY <1>3, ElementOfSeq
  <2>3. PICK e \in Datagrams : net' = [net EXCEPT !.server[k] = e]
    <3>1. CASE d # <<>> /\ net' = [net EXCEPT !.server[k] = Front(d)]
      BY <2>2, <3>1, DatagramChanged
    <3>2. CASE \E b \in Byte : net' = [net EXCEPT !.server[k] = Append(d, b)]
      BY <2>2, <3>2, DatagramChanged
    <3>3. CASE \E i \in DOMAIN d, b \in Byte : net' = [net EXCEPT !.server[k][i] = b]
      <4>1. PICK i \in DOMAIN d, b \in Byte : net' = [net EXCEPT !.server[k][i] = b]
        BY <3>3
      <4>2. net' = [net EXCEPT !.server[k] = [d EXCEPT ![i] = b]]
        BY <4>1
      <4>3. [d EXCEPT ![i] = b] \in Datagrams
        BY <2>2, <4>1, DatagramChanged
      <4>4. QED
        BY <4>2, <4>3
    <3>4. QED
      BY <2>1, <3>1, <3>2, <3>3
  <2>. DEFINE s == [net.server EXCEPT ![k] = e]
  <2>4. s \in Seq(Datagrams)
    BY <1>3, <2>2, <2>3, ExceptSeq
  <2>5. net' = [server |-> s, client |-> net.client]
    BY <1>3, <2>3 DEF Pair
  <2>. HIDE DEF s
  <2>6. Channels(Datagrams)'
    BY <1>3, <2>4, <2>5 DEF Channels, Pair
  <2>7. UNCHANGED <<at, mem>>
    BY <1>6 DEF PacketOther
  <2>8. QED
    BY <1>1, <1>2, <1>3, <2>6, <2>7 DEF PacketShape
<1>7. CASE Duplicate
  <2>1. PICK p \in Programs : \E i \in DOMAIN net[p] :
          net' = [net EXCEPT ![p] = Append(@, net[p][i])]
    BY <1>7 DEF Duplicate
  <2>2. PICK i \in DOMAIN net[p] : net' = [net EXCEPT ![p] = Append(@, net[p][i])]
    BY <2>1
  <2>3. p = "server" \/ p = "client"
    BY DEF Programs
  <2>. DEFINE s == net[p]
              e == s[i]
  <2>4. s \in Seq(Datagrams)
    BY <1>3, <2>3
  <2>5. e \in Datagrams
    <3>1. i \in 1..Len(s)
      BY <2>2, <2>4
    <3>2. QED
      BY <2>4, <3>1, ElementOfSeq
  <2>6. Append(s, e) \in Seq(Datagrams) /\ net' = [net EXCEPT ![p] = Append(s, e)]
    BY <2>2, <2>4, <2>5, AppendProperties
  <2>. DEFINE r == Append(s, e)
  <2>7. r \in Seq(Datagrams) /\ net' = [net EXCEPT ![p] = r]
    BY <2>6
  <2>. HIDE DEF r, s, e
  <2>8. \/ net' = [server |-> r, client |-> net.client]
        \/ net' = [server |-> net.server, client |-> r]
    BY <1>3, <2>3, <2>7 DEF Pair
  <2>9. Channels(Datagrams)'
    BY <1>3, <2>7, <2>8 DEF Channels, Pair
  <2>10. UNCHANGED <<at, mem>>
    BY <1>7 DEF Duplicate
  <2>11. QED
    BY <1>1, <1>2, <1>3, <2>9, <2>10 DEF PacketShape
<1>8. CASE UNCHANGED demoVars
  BY <1>1, <1>2, <1>8 DEF demoVars, PacketShape, Channels, Pair
<1>9. "lose" \notin faults
  BY <1>2 DEF PacketShape
<1>10. QED
  BY <1>1, <1>4, <1>5, <1>6, <1>7, <1>8, <1>9, PacketStep

LEMMA PacketAgrees == PacketInv => ParsedAsBuilt
<1>. SUFFICES ASSUME PacketInv, protocol = "packet", mem.packet # NotParsed
              PROVE  /\ mem.wire = Build(mem.sent) => mem.packet = mem.sent
                     /\ mem.packet # Refused => Build(mem.packet) = mem.wire
  BY DEF ParsedAsBuilt, ParsedAsSent, NothingIgnored
<1>. DEFINE d == mem.wire
            p == mem.packet
            q == mem.sent
<1>1. q \in Packets /\ d \in Datagrams /\ p = Parse(Received(d))
  BY DEF PacketInv, PacketShape
<1>. HIDE DEF d, p, q
<1>2. RecvBuffer \in Nat /\ Len(d) \in Nat
  BY <1>1, SizeAssumption, LenProperties DEF Datagrams
<1>3. ASSUME d = Build(q)
      PROVE  p = q
  BY <1>1, <1>3, BuiltIsAccepted, ReceivedIs
<1>4. ASSUME p # Refused
      PROVE  Build(p) = d
  <2>1. Received(d) = d
    BY <1>1, <1>2, <1>4, ReceivedIs
  <2>2. QED
    BY <1>1, <1>4, <2>1, AcceptedIsBuilt
<1>5. QED
  BY <1>3, <1>4 DEF d, p, q

LEMMA PacketTypes == PacketInv => (protocol = "packet" => PacketTypeOK)
<1>. SUFFICES ASSUME PacketShape
              PROVE  PacketTypeOK
  BY DEF PacketInv
<1>1. PayloadFits(mem.packet)
  <2>1. CASE mem.packet = NotParsed
    BY <2>1 DEF PayloadFits, NotParsed
  <2>2. CASE mem.packet = Refused
    BY <2>2 DEF PayloadFits, Refused
  <2>3. CASE mem.packet # NotParsed /\ mem.packet # Refused
    <3>1. mem.wire \in Datagrams /\ mem.packet = Parse(Received(mem.wire))
      BY <2>3 DEF PacketShape
    <3>2. Received(mem.wire) \in Datagrams
      BY <3>1, ReceivedIs
    <3>3. QED
      BY <2>3, <3>1, <3>2, AcceptedFits
  <2>4. QED
    BY <2>1, <2>2, <2>3
<1>2. QED
  BY <1>1 DEF PacketTypeOK, PayloadFits, PacketShape

\* parse_packet() gives back what the build functions of protocol.c were given, and
\* accepts nothing but what they write, for every payload, size and identifier.
THEOREM PacketsReadAsBuilt == Spec => []ParsedAsBuilt
<1>1. Init => PacketInv
  BY PacketInitially
<1>2. PacketInv /\ [Next]_demoVars => PacketInv'
  BY PacketNext
<1>3. PacketInv => ParsedAsBuilt
  BY PacketAgrees
<1>4. QED
  BY <1>1, <1>2, <1>3, PTL DEF Spec

-----------------------------------------------------------------------------
(***************************************************************************)
(* Sha1.                                                                   *)
(***************************************************************************)
\* A set of natural numbers that is not empty has a least element.
LEMMA Least ==
  ASSUME NEW S \in SUBSET Nat, S # {}
  PROVE  \E m \in S : \A j \in S : m <= j
<1>1. \E m \in S : \A j \in S : ~(<<j, m>> \in OpToRel(<, Nat))
  BY NatLessThanWellFounded, WFMin
<1>2. PICK m \in S : \A j \in S : ~(j < m)
  BY <1>1 DEF OpToRel
<1>3. QED
  BY <1>2

\* What a number leaves when it is divided.
LEMMA Division ==
  ASSUME NEW n \in Nat, NEW m \in Nat \ {0}
  PROVE  \E q \in Nat : \E r \in 0..m - 1 : n = m * q + r /\ n % m = r
<1>. DEFINE q == n \div m
            r == n % m
<1>1. q \in Nat /\ r \in 0..m - 1 /\ n = m * q + r
  BY Z3
<1>2. QED
  BY <1>1

LEMMA SameRemainder ==
  ASSUME NEW m \in Nat \ {0}, NEW a \in Int, NEW b \in Int,
         NEW r \in 0..m - 1, NEW s \in 0..m - 1, m * a + r = m * b + s
  PROVE  a = b /\ r = s
<1>. DEFINE k == a - b
<1>1. k \in Int /\ m * k = s - r
  BY Z3
<1>. HIDE DEF k
<1>2. ~(k >= 1)
  <2>1. k >= 1 => m * k >= m
    BY <1>1, Z3
  <2>2. QED
    BY <1>1, <2>1
<1>3. ~(k <= -1)
  <2>1. k <= -1 => m * k <= -m
    BY <1>1, Z3
  <2>2. QED
    BY <1>1, <2>1
<1>4. k = 0
  BY <1>1, <1>2, <1>3
<1>5. m * k = 0
  BY <1>4
<1>6. QED
  BY <1>1, <1>4, <1>5 DEF k

LEMMA Remainder ==
  ASSUME NEW m \in Nat \ {0}, NEW q \in Nat, NEW r \in 0..m - 1, NEW n \in Nat, n = m * q + r
  PROVE  n % m = r
<1>1. PICK p \in Nat, s \in 0..m - 1 : n = m * p + s /\ n % m = s
  BY Division
<1>2. r = s
  <2>1. q \in Int /\ p \in Int /\ m * q + r = m * p + s
    BY <1>1
  <2>2. QED
    BY <2>1, SameRemainder
<1>3. QED
  BY <1>1, <1>2

\* A counter that wraps counts what one that does not counts.
LEMMA Wraps ==
  ASSUME NEW m \in Nat \ {0}, NEW a \in Nat, NEW b \in Nat
  PROVE  ((a % m) + b) % m = (a + b) % m
<1>1. PICK p \in Nat, r \in 0..m - 1 : a = m * p + r /\ a % m = r
  BY Division
<1>2. PICK q \in Nat, s \in 0..m - 1 : r + b = m * q + s /\ (r + b) % m = s
  <2>1. r + b \in Nat
    OBVIOUS
  <2>2. QED
    BY <2>1, Division
<1>3. (a + b) % m = s
  <2>. DEFINE k == p + q
              n == a + b
  <2>1. k \in Nat /\ n \in Nat /\ n = m * k + s
    <3>1. m * k = m * p + m * q
      OBVIOUS
    <3>2. m * p \in Nat /\ m * q \in Nat
      OBVIOUS
    <3>3. QED
      BY <1>1, <1>2, <3>1, <3>2
  <2>. HIDE DEF k, n
  <2>2. n % m = s
    BY <2>1, Remainder
  <2>3. QED
    BY <2>2 DEF n
<1>4. QED
  BY <1>1, <1>2, <1>3

\* f has the first n sequences of ss, one behind the other.
Flattens(f, ss, n) == f = [i \in 1..n |-> IF i = 1 THEN ss[i] ELSE f[i - 1] \o ss[i]]

LEMMA FlatteningExists ==
  ASSUME NEW ss, NEW n \in Nat \ {0}
  PROVE  \E f : Flattens(f, ss, n)
<1>. DEFINE S == {k \in Nat \ {0} : ~\E f : Flattens(f, ss, k)}
<1>. SUFFICES ASSUME S # {}
              PROVE  FALSE
  OBVIOUS
<1>1. PICK k \in S : \A j \in S : k <= j
  <2>1. S \in SUBSET Nat
    OBVIOUS
  <2>. HIDE DEF S
  <2>2. QED
    BY <2>1, Least
<1>2. k \in Nat \ {0} /\ ~\E f : Flattens(f, ss, k)
  OBVIOUS
<1>3. CASE k = 1
  <2>. DEFINE g == [i \in 1..1 |-> ss[i]]
  <2>1. g = [i \in 1..1 |-> IF i = 1 THEN ss[i] ELSE g[i - 1] \o ss[i]]
    OBVIOUS
  <2>2. Flattens(g, ss, 1)
    BY <2>1 DEF Flattens
  <2>3. QED
    BY <1>2, <1>3, <2>2
<1>4. CASE k # 1
  <2>1. k - 1 \in Nat \ {0} /\ k - 1 \notin S
    BY <1>1, <1>2, <1>4
  <2>2. PICK f : Flattens(f, ss, k - 1)
    BY <2>1
  <2>. DEFINE g == [i \in 1..k |-> IF i = k THEN f[k - 1] \o ss[k] ELSE f[i]]
  <2>3. ASSUME NEW i \in 1..k
        PROVE  g[i] = IF i = 1 THEN ss[i] ELSE g[i - 1] \o ss[i]
    <3>1. CASE i = k
      <4>1. k - 1 \in 1..k /\ k - 1 # k
        BY <1>2, <1>4
      <4>2. g[k - 1] = f[k - 1]
        BY <4>1
      <4>3. QED
        BY <1>4, <3>1, <4>2
    <3>2. CASE i # k
      <4>1. i \in 1..k - 1
        BY <1>2, <3>2
      <4>2. f[i] = IF i = 1 THEN ss[i] ELSE f[i - 1] \o ss[i]
        BY <2>2, <4>1 DEF Flattens
      <4>3. i # 1 => i - 1 \in 1..k /\ i - 1 # k
        BY <1>2, <4>1
      <4>4. i # 1 => g[i - 1] = f[i - 1]
        BY <4>3
      <4>5. QED
        BY <3>2, <4>2, <4>4
    <3>3. QED
      BY <3>1, <3>2
  <2>4. g = [i \in 1..k |-> g[i]]
    OBVIOUS
  <2>. HIDE DEF g
  <2>5. Flattens(g, ss, k)
    BY <2>3, <2>4 DEF Flattens
  <2>6. QED
    BY <1>2, <2>5
<1>5. QED
  BY <1>3, <1>4

LEMMA FlatteningIsOne ==
  ASSUME NEW ss, NEW tt, NEW n \in Nat, NEW m \in Nat, n <= m,
         \A i \in 1..n : ss[i] = tt[i],
         NEW f, Flattens(f, ss, n), NEW g, Flattens(g, tt, m)
  PROVE  \A i \in 1..n : f[i] = g[i]
<1>. DEFINE S == {i \in 1..n : f[i] # g[i]}
<1>. SUFFICES ASSUME S # {}
              PROVE  FALSE
  OBVIOUS
<1>1. PICK k \in S : \A j \in S : k <= j
  <2>1. S \in SUBSET Nat
    OBVIOUS
  <2>. HIDE DEF S
  <2>2. QED
    BY <2>1, Least
<1>2. k \in 1..n /\ k \in 1..m /\ f[k] # g[k]
  OBVIOUS
<1>3. /\ f[k] = IF k = 1 THEN ss[k] ELSE f[k - 1] \o ss[k]
      /\ g[k] = IF k = 1 THEN tt[k] ELSE g[k - 1] \o tt[k]
  BY <1>2 DEF Flattens
<1>4. k # 1 => f[k - 1] = g[k - 1]
  <2>1. k # 1 => k - 1 \in 1..n /\ k - 1 \notin S
    BY <1>1, <1>2
  <2>2. QED
    BY <2>1
<1>5. QED
  BY <1>2, <1>3, <1>4

LEMMA FlatteningTyped ==
  ASSUME NEW T, NEW n \in Nat, NEW ss, \A i \in 1..n : ss[i] \in Seq(T),
         NEW f, Flattens(f, ss, n)
  PROVE  \A i \in 1..n : f[i] \in Seq(T)
<1>. DEFINE S == {i \in 1..n : f[i] \notin Seq(T)}
<1>. SUFFICES ASSUME S # {}
              PROVE  FALSE
  OBVIOUS
<1>1. PICK k \in S : \A j \in S : k <= j
  <2>1. S \in SUBSET Nat
    OBVIOUS
  <2>. HIDE DEF S
  <2>2. QED
    BY <2>1, Least
<1>2. k \in 1..n /\ f[k] \notin Seq(T)
  OBVIOUS
<1>3. f[k] = IF k = 1 THEN ss[k] ELSE f[k - 1] \o ss[k]
  BY <1>2 DEF Flattens
<1>4. k # 1 => f[k - 1] \in Seq(T)
  <2>1. k # 1 => k - 1 \in 1..n /\ k - 1 \notin S
    BY <1>1, <1>2
  <2>2. QED
    BY <2>1
<1>5. k # 1 => f[k - 1] \o ss[k] \in Seq(T)
  BY <1>2, <1>4, ConcatProperties
<1>6. QED
  BY <1>2, <1>3, <1>5

LEMMA FlattenIs ==
  ASSUME NEW ss, Len(ss) \in Nat, Len(ss) # 0
  PROVE  \E f : Flattens(f, ss, Len(ss)) /\ FlattenSeq(ss) = f[Len(ss)]
<1>. DEFINE n == Len(ss)
            F == CHOOSE f : f = [i \in 1..n |-> IF i = 1 THEN ss[i] ELSE f[i - 1] \o ss[i]]
<1>1. FlattenSeq(ss) = F[n]
  BY DEF FlattenSeq
<1>2. \E f : f = [i \in 1..n |-> IF i = 1 THEN ss[i] ELSE f[i - 1] \o ss[i]]
  <2>1. n \in Nat \ {0}
    OBVIOUS
  <2>2. \E f : Flattens(f, ss, n)
    BY <2>1, FlatteningExists
  <2>3. QED
    BY <2>2 DEF Flattens
<1>3. F = [i \in 1..n |-> IF i = 1 THEN ss[i] ELSE F[i - 1] \o ss[i]]
  BY <1>2
<1>4. Flattens(F, ss, n)
  BY <1>3 DEF Flattens
<1>5. QED
  BY <1>1, <1>4

LEMMA Flattened ==
  ASSUME NEW T, NEW ss \in Seq(Seq(T)), NEW b \in Seq(T)
  PROVE  FlattenSeq(ss) \in Seq(T) /\ FlattenSeq(Append(ss, b)) = FlattenSeq(ss) \o b
<1>. DEFINE n == Len(ss)
            tt == Append(ss, b)
<1>1. /\ n \in Nat /\ Len(tt) = n + 1 /\ tt \in Seq(Seq(T))
      /\ (\A i \in 1..n : ss[i] = tt[i]) /\ tt[n + 1] = b
      /\ \A i \in 1..n : ss[i] \in Seq(T)
  <2>1. n \in Nat
    OBVIOUS
  <2>2. /\ tt \in Seq(Seq(T)) /\ Len(tt) = Len(ss) + 1
        /\ (\A i \in 1..Len(ss) : tt[i] = ss[i]) /\ tt[Len(ss) + 1] = b
    BY AppendProperties
  <2>3. \A i \in 1..n : ss[i] \in Seq(T)
    OBVIOUS
  <2>. HIDE DEF tt
  <2>4. QED
    BY <2>1, <2>2, <2>3
<1>. DEFINE m == n + 1
<1>6. m \in Nat /\ n <= m /\ m # 0 /\ Len(tt) = m /\ tt[m] = b
  BY <1>1
<1>. HIDE DEF tt, n, m
<1>2. PICK g : Flattens(g, tt, m) /\ FlattenSeq(tt) = g[m]
  BY <1>6, FlattenIs
<1>3. CASE n = 0
  <2>1. ss = <<>>
    BY <1>3, EmptySeq DEF n
  <2>2. FlattenSeq(ss) = ss
    BY <1>3 DEF FlattenSeq, n
  <2>3. m = 1 /\ g[1] = tt[1]
    <3>1. m = 1
      BY <1>3 DEF m
    <3>2. QED
      BY <1>2, <3>1 DEF Flattens
  <2>4. FlattenSeq(tt) = b
    BY <1>2, <1>6, <2>3
  <2>5. FlattenSeq(ss) \in Seq(T) /\ <<>> \o b = b
    BY <2>1, <2>2, EmptySeq, ConcatEmptySeq
  <2>6. QED
    BY <2>1, <2>2, <2>4, <2>5 DEF tt
<1>4. CASE n # 0
  <2>1. PICK f : Flattens(f, ss, n) /\ FlattenSeq(ss) = f[n]
    BY <1>1, <1>4, FlattenIs DEF n
  <2>2. \A i \in 1..n : f[i] \in Seq(T)
    BY <1>1, <2>1, FlatteningTyped
  <2>3. \A i \in 1..n : f[i] = g[i]
    <3>1. n \in Nat /\ m \in Nat /\ n <= m /\ \A i \in 1..n : ss[i] = tt[i]
      BY <1>1, <1>6
    <3>2. Flattens(f, ss, n) /\ Flattens(g, tt, m)
      BY <1>2, <2>1
    <3>3. QED
      BY ONLY <3>1, <3>2, FlatteningIsOne
  <2>4. g[m] = g[n] \o tt[m]
    <3>1. m \in 1..m /\ m # 1 /\ m - 1 = n
      BY <1>1, <1>4 DEF m
    <3>2. g[m] = IF m = 1 THEN tt[m] ELSE g[m - 1] \o tt[m]
      BY <1>2, <3>1 DEF Flattens
    <3>3. QED
      BY <3>1, <3>2
  <2>5. n \in 1..n
    BY <1>1, <1>4
  <2>6. QED
    BY <1>1, <1>2, <1>6, <2>1, <2>2, <2>3, <2>4, <2>5 DEF tt
<1>5. QED
  BY <1>3, <1>4

\* The zero bytes that a message of n bytes is padded with, the padded message, and what
\* its bytes are.
Zeros(n) == CHOOSE k \in 0..(Block - 1) : (n + 1 + k) % Block = LengthAt
Modulus == 256 ^ LengthSize
PaddedOf(n) ==
  [i \in 1..n |-> i] \o <<OneByte>> \o [i \in 1..Zeros(n) |-> ZeroByte]
    \o BigEndian((8 * n) % Modulus)
DigestBytes ==
  Nat \cup UNION {{(n \div (256 ^ (LengthSize - i))) % 256 : i \in 1..LengthSize} : n \in Nat}

LEMMA ZerosAre ==
  ASSUME NEW n \in Nat
  PROVE  Zeros(n) \in 0..Block - 1 /\ (n + 1 + Zeros(n)) % Block = LengthAt
<1>1. Block \in Nat \ {0} /\ LengthAt \in 0..Block - 1
  BY BlockAssumption DEF LengthAt
<1>. DEFINE k1 == n + 1
<1>2. k1 \in Nat
  OBVIOUS
<1>. HIDE DEF k1
<1>3. PICK q \in Nat, r \in 0..Block - 1 : k1 = Block * q + r /\ k1 % Block = r
  BY <1>1, <1>2, Division
<1>4. \E k \in 0..Block - 1 : (k1 + k) % Block = LengthAt
  <2>1. CASE r <= LengthAt
    <3>. DEFINE k == LengthAt - r
                s == k1 + k
    <3>1. k \in 0..Block - 1 /\ s \in Nat /\ s = Block * q + LengthAt
      BY <1>1, <1>2, <1>3, <2>1
    <3>. HIDE DEF s
    <3>2. s % Block = LengthAt
      BY <1>1, <3>1, Remainder
    <3>3. QED
      BY <3>1, <3>2 DEF s
  <2>2. CASE r > LengthAt
    <3>. DEFINE k == LengthAt + Block - r
                s == k1 + k
                p == q + 1
    <3>1. k \in 0..Block - 1 /\ s \in Nat /\ p \in Nat
      BY <1>1, <1>2, <1>3, <2>2
    <3>2. s = Block * p + LengthAt
      <4>1. Block * p = Block * q + Block
        BY <1>1
      <4>2. Block * q \in Nat
        BY <1>1
      <4>. DEFINE m == Block * q
      <4>3. m \in Nat /\ k1 = m + r /\ Block * p = m + Block
        BY <1>3, <4>1, <4>2
      <4>. HIDE DEF m, p
      <4>4. s = m + LengthAt + Block
        BY <1>1, <1>2, <4>3
      <4>5. QED
        BY <1>1, <4>3, <4>4
    <3>. HIDE DEF s, p
    <3>3. s % Block = LengthAt
      BY <1>1, <3>1, <3>2, Remainder
    <3>4. QED
      BY <3>1, <3>3 DEF s
  <2>3. QED
    BY <1>1, <2>1, <2>2
<1>5. QED
  BY <1>4 DEF Zeros, k1

LEMMA LengthBytes ==
  ASSUME NEW n \in Nat
  PROVE  BigEndian(n) \in Seq(DigestBytes) /\ Len(BigEndian(n)) = LengthSize
<1>1. LengthSize \in Nat
  BY BlockAssumption
<1>2. \A i \in 1..LengthSize : (n \div (256 ^ (LengthSize - i))) % 256 \in DigestBytes
  BY DEF DigestBytes
<1>3. BigEndian(n) \in [1..LengthSize -> DigestBytes]
  BY <1>2 DEF BigEndian
<1>4. QED
  BY <1>1, <1>3, SeqDef, LenProperties

\* The padded message byte by byte.
LEMMA PaddedIs ==
  ASSUME NEW n \in Nat
  PROVE  /\ PaddedOf(n) \in Seq(DigestBytes)
         /\ Len(PaddedOf(n)) = n + 1 + Zeros(n) + LengthSize
         /\ \A i \in 1..n : PaddedOf(n)[i] = i
         /\ PaddedOf(n)[n + 1] = OneByte
         /\ \A i \in 1..Zeros(n) : PaddedOf(n)[n + 1 + i] = ZeroByte
         /\ \A i \in 1..LengthSize :
              PaddedOf(n)[n + 1 + Zeros(n) + i] = BigEndian((8 * n) % Modulus)[i]
<1>. DEFINE z == Zeros(n)
            a == [i \in 1..n |-> i]
            b == <<OneByte>>
            c == [i \in 1..z |-> ZeroByte]
            d == BigEndian((8 * n) % Modulus)
            T == DigestBytes
<1>1. z \in Nat
  BY ZerosAre
<1>2. a \in Seq(T) /\ Len(a) = n /\ \A i \in 1..n : a[i] = i
  <2>1. a \in [1..n -> T]
    BY DEF DigestBytes
  <2>2. QED
    BY <2>1, SeqDef, LenProperties
<1>3. b \in Seq(T) /\ Len(b) = 1 /\ b[1] = OneByte
  <2>1. OneByte \in T
    BY DEF DigestBytes, OneByte
  <2>2. QED
    BY <2>1
<1>. HIDE DEF z
<1>4. c \in Seq(T) /\ Len(c) = z /\ \A i \in 1..z : c[i] = ZeroByte
  <2>1. c \in [1..z -> T]
    BY DEF DigestBytes, ZeroByte
  <2>2. QED
    BY <1>1, <2>1, SeqDef, LenProperties
<1>5. d \in Seq(T) /\ Len(d) = LengthSize /\ LengthSize \in Nat
  <2>1. (8 * n) % Modulus \in Nat
    <3>1. 8 * n \in Nat /\ Modulus \in Nat \ {0}
      BY LengthAssumption DEF Modulus
    <3>2. QED
      BY <3>1, Division
  <2>2. QED
    BY <2>1, LengthBytes, BlockAssumption
<1>6. PaddedOf(n) = a \o b \o c \o d
  BY DEF PaddedOf, z
<1>. HIDE DEF a, b, c, d, T
<1>. DEFINE u == a \o b
            v == u \o c
            w == v \o d
<1>7. /\ u \in Seq(T) /\ Len(u) = n + 1
      /\ \A i \in 1..n : u[i] = i
      /\ u[n + 1] = OneByte
  <2>1. u \in Seq(T) /\ Grows(a, u, b)
    BY <1>2, <1>3, Concatenated
  <2>. HIDE DEF u
  <2>2. QED
    BY <1>2, <1>3, <2>1 DEF Grows
<1>. HIDE DEF u
<1>8. /\ v \in Seq(T) /\ Len(v) = n + 1 + z
      /\ \A i \in 1..n + 1 : v[i] = u[i]
      /\ \A i \in 1..z : v[n + 1 + i] = ZeroByte
  <2>1. v \in Seq(T) /\ Grows(u, v, c)
    BY <1>4, <1>7, Concatenated
  <2>. HIDE DEF v
  <2>2. QED
    BY <1>4, <1>7, <2>1 DEF Grows
<1>. HIDE DEF v
<1>9. /\ w \in Seq(T) /\ Len(w) = n + 1 + z + LengthSize
      /\ \A i \in 1..n + 1 + z : w[i] = v[i]
      /\ \A i \in 1..LengthSize : w[n + 1 + z + i] = d[i]
  <2>1. w \in Seq(T) /\ Grows(v, w, d)
    BY <1>5, <1>8, Concatenated
  <2>. HIDE DEF w
  <2>2. QED
    BY <1>5, <1>8, <2>1 DEF Grows
<1>10. w = PaddedOf(n)
  BY <1>6 DEF u, v
<1>. HIDE DEF w
<1>11. \A i \in 1..n : w[i] = i
  <2>1. \A i \in 1..n : i \in 1..n + 1 /\ i \in 1..n + 1 + z
    BY <1>1
  <2>2. QED
    BY <1>7, <1>8, <1>9, <2>1
<1>12. w[n + 1] = OneByte
  <2>1. n + 1 \in 1..n + 1 /\ n + 1 \in 1..n + 1 + z
    BY <1>1
  <2>2. QED
    BY <1>7, <1>8, <1>9, <2>1
<1>13. \A i \in 1..z : w[n + 1 + i] = ZeroByte
  <2>1. \A i \in 1..z : n + 1 + i \in 1..n + 1 + z
    BY <1>1
  <2>2. QED
    BY <1>8, <1>9, <2>1
<1>14. QED
  BY <1>9, <1>10, <1>11, <1>12, <1>13 DEF d, z, T

\* It is whole blocks.
LEMMA PaddedIsBlocks ==
  ASSUME NEW n \in Nat
  PROVE  \E q \in Nat : Len(PaddedOf(n)) = Block * q
<1>1. Block \in Nat \ {0} /\ LengthAt + LengthSize = Block /\ LengthAt \in Nat
  BY BlockAssumption DEF LengthAt
<1>. DEFINE s == n + 1 + Zeros(n)
<1>2. s \in Nat /\ s % Block = LengthAt /\ Len(PaddedOf(n)) = s + LengthSize
  BY ZerosAre, PaddedIs
<1>. HIDE DEF s
<1>3. PICK q \in Nat, r \in 0..Block - 1 : s = Block * q + r /\ s % Block = r
  BY <1>1, <1>2, Division
<1>4. Block * (q + 1) = Block * q + Block /\ Block * q \in Nat
  BY <1>1
<1>5. Len(PaddedOf(n)) = Block * (q + 1) /\ q + 1 \in Nat
  BY <1>1, <1>2, <1>3, <1>4, BlockAssumption
<1>6. QED
  BY <1>5

\* s is the beginning of t.
Begins(s, t) == Len(s) <= Len(t) /\ \A i \in 1..Len(s) : s[i] = t[i]

LEMMA BeginsIsPrefix ==
  ASSUME NEW T, NEW s \in Seq(T), NEW t \in Seq(T), Begins(s, t)
  PROVE  IsPrefix(s, t) /\ (Len(s) = Len(t) => s = t)
<1>. DEFINE n == Len(s)
            r == SubSeq(t, 1, n)
<1>1. /\ n \in Nat /\ Len(t) \in Nat /\ n <= Len(t)
      /\ \A i \in 1..n : s[i] = t[i] /\ s[i] \in T /\ t[i] \in T
  BY DEF Begins
<1>2. SubSeq(s, 1, n) = s
  BY SubSeqFull
<1>. HIDE DEF n
<1>3. r \in Seq(T) /\ Len(r) = n /\ \A i \in 1..n : r[i] = t[i]
  <2>1. /\ r \in Seq(T) /\ Len(r) = (IF 1 <= n THEN n - 1 + 1 ELSE 0)
        /\ \A i \in 1..n - 1 + 1 : r[i] = t[1 + i - 1]
    <3>1. 1 \in Int /\ n \in Int /\ \A i \in 1..n : t[i] \in T
      BY <1>1
    <3>2. QED
      BY ONLY <3>1, SubSeqProperties
  <2>. HIDE DEF r
  <2>2. n - 1 + 1 = n /\ \A i \in 1..n : 1 + i - 1 = i
    BY <1>1
  <2>3. QED
    BY <1>1, <2>1, <2>2
<1>. HIDE DEF r
<1>4. r = s
  BY <1>1, <1>3, SeqEqual DEF n
<1>5. IsPrefix(s, t)
  BY <1>1, <1>2, <1>4 DEF IsPrefix, n, r
<1>6. Len(s) = Len(t) => s = t
  BY <1>1, SeqEqual DEF n
<1>7. QED
  BY <1>5, <1>6

LEMMA Continues ==
  ASSUME NEW T, NEW p \in Seq(T), NEW s \in Seq(T), NEW t \in Seq(T), Begins(s, p),
         Len(s) + Len(t) <= Len(p), \A i \in 1..Len(t) : p[Len(s) + i] = t[i]
  PROVE  /\ s \o t \in Seq(T) /\ Len(s \o t) = Len(s) + Len(t)
         /\ Begins(s \o t, p)
<1>. DEFINE u == s \o t
<1>1. u \in Seq(T) /\ Grows(s, u, t) /\ Len(s) \in Nat /\ Len(t) \in Nat
  BY Concatenated
<1>. HIDE DEF u
<1>2. Len(u) = Len(s) + Len(t)
  BY <1>1 DEF Grows
<1>3. ASSUME NEW i \in 1..Len(u)
      PROVE  u[i] = p[i]
  <2>1. CASE i <= Len(s)
    BY <1>1, <2>1 DEF Grows, Begins
  <2>2. CASE i > Len(s)
    <3>. DEFINE k == i - Len(s)
    <3>1. k \in 1..Len(t) /\ i = Len(s) + k
      BY <1>1, <1>2, <2>2
    <3>. HIDE DEF k
    <3>2. QED
      BY <1>1, <3>1 DEF Grows
  <2>3. QED
    BY <1>1, <2>1, <2>2
<1>4. QED
  BY <1>1, <1>2, <1>3 DEF Begins, u

DigestFields ==
  [size : Sizes, taken : Nat, data : Seq(DigestBytes), state : Seq(Seq(DigestBytes)),
   bitCount : Nat, buffer : Seq(DigestBytes), length : Nat]

\* The bytes that the digest has been given.
DigestDone == FlattenSeq(mem.state) \o mem.buffer \o mem.data

\* How many they are.
DigestStage ==
  \/ /\ at.server = "update" /\ results.server = <<>>
     /\ Len(DigestDone) = mem.taken /\ mem.bitCount = (8 * mem.taken) % Modulus
  \/ /\ at.server = "pad" /\ results.server = <<>>
     /\ Len(DigestDone) \in mem.size + 1..mem.size + 1 + Zeros(mem.size)
     /\ mem.length = (8 * mem.size) % Modulus
  \/ /\ at.server = "length" /\ results.server = <<>>
     /\ Len(DigestDone) = Len(PaddedOf(mem.size))
  \/ at.server = "exit" /\ results.server = ABORT
  \/ /\ at.server = "exit" /\ results.server = OK
     /\ mem.data = <<>> /\ mem.buffer = <<>> /\ Len(DigestDone) = Len(PaddedOf(mem.size))

DigestShape ==
  /\ faults = {} /\ Pair(at) /\ Pair(results)
  /\ mem \in DigestFields /\ DigestTypeOK
  /\ \E q \in Nat : Len(FlattenSeq(mem.state)) = Block * q
  /\ Begins(DigestDone, PaddedOf(mem.size))
  /\ DigestStage

DigestInv == protocol = "sha1" => DigestShape

LEMMA DigestStep ==
  ASSUME [Next]_demoVars, protocol = "sha1", faults = {}
  PROVE  Digest \/ UNCHANGED demoVars
BY DEF Next, Server, Client, Strangers, Lose, Duplicate, TcpFamily, WebFamily

\* What follows from the shape alone.
LEMMA DigestIs ==
  ASSUME DigestShape
  PROVE  /\ mem.size \in Nat /\ mem.taken \in 0..mem.size
         /\ mem.data \in Seq(DigestBytes) /\ mem.buffer \in Seq(DigestBytes)
         /\ FlattenSeq(mem.state) \in Seq(DigestBytes)
         /\ DigestDone \in Seq(DigestBytes)
         /\ PaddedOf(mem.size) \in Seq(DigestBytes)
         /\ Len(DigestDone) = Len(FlattenSeq(mem.state)) + Len(mem.buffer) + Len(mem.data)
         /\ mem.data = <<>> => DigestDone = FlattenSeq(mem.state) \o mem.buffer
<1>. DEFINE T == DigestBytes
            f == FlattenSeq(mem.state)
            b == mem.buffer
            d == mem.data
<1>1. /\ mem.size \in Nat /\ mem.taken \in 0..mem.size
      /\ d \in Seq(T) /\ b \in Seq(T) /\ mem.state \in Seq(Seq(T))
  BY SizesAssumption DEF DigestShape, DigestFields, DigestTypeOK
<1>2. f \in Seq(T)
  BY <1>1, EmptySeq, Flattened
<1>3. PaddedOf(mem.size) \in Seq(T)
  BY <1>1, PaddedIs
<1>4. DigestDone = f \o b \o d
  BY DEF DigestDone
<1>. HIDE DEF f, b, d, T
<1>5. f \o b \in Seq(T) /\ Len(f \o b) = Len(f) + Len(b)
  BY <1>1, <1>2, ConcatProperties
<1>. DEFINE g == f \o b
<1>6. g \in Seq(T)
  BY <1>5
<1>7. g \o d \in Seq(T) /\ Len(g \o d) = Len(g) + Len(d) /\ (d = <<>> => g \o d = g)
  <2>. HIDE DEF g
  <2>1. QED
    BY <1>1, <1>6, ConcatProperties, ConcatEmptySeq
<1>8. QED
  BY <1>1, <1>2, <1>3, <1>4, <1>5, <1>7 DEF f, b, d, T

\* A call of sha1_update() puts its bytes behind those of the calls before.
LEMMA DigestTakes ==
  ASSUME DigestShape, mem.data = <<>>, NEW bytes \in Seq(DigestBytes),
         mem'.state = mem.state, mem'.buffer = mem.buffer, mem'.data = bytes,
         Len(DigestDone) + Len(bytes) <= Len(PaddedOf(mem.size)),
         \A i \in 1..Len(bytes) : PaddedOf(mem.size)[Len(DigestDone) + i] = bytes[i]
  PROVE  /\ Len(DigestDone') = Len(DigestDone) + Len(bytes)
         /\ Begins(DigestDone', PaddedOf(mem.size))
<1>. DEFINE s == DigestDone
            p == PaddedOf(mem.size)
<1>1. s \in Seq(DigestBytes) /\ p \in Seq(DigestBytes)
  BY DigestIs
<1>2. DigestDone' = s \o bytes
  <2>1. DigestDone' = FlattenSeq(mem.state) \o mem.buffer \o bytes
    BY DEF DigestDone
  <2>2. s = FlattenSeq(mem.state) \o mem.buffer
    BY DigestIs
  <2>3. QED
    BY <2>1, <2>2
<1>3. Begins(s, p)
  BY DEF DigestShape
<1>4. /\ Len(s) + Len(bytes) <= Len(p)
      /\ \A i \in 1..Len(bytes) : p[Len(s) + i] = bytes[i]
  OBVIOUS
<1>. HIDE DEF s, p
<1>5. Len(s \o bytes) = Len(s) + Len(bytes) /\ Begins(s \o bytes, p)
  BY <1>1, <1>3, <1>4, Continues
<1>6. QED
  BY <1>2, <1>5 DEF s, p

LEMMA AddBitsIs ==
  ASSUME DigestShape, NEW n \in Nat
  PROVE  /\ AddBits(n) \in 0..Modulus - 1 /\ AddBits(n) \in Nat
         /\ mem.bitCount = (8 * mem.taken) % Modulus =>
              AddBits(n) = (8 * (mem.taken + n)) % Modulus
<1>1. Modulus \in Nat \ {0}
  BY LengthAssumption DEF Modulus
<1>. DEFINE c == mem.bitCount
            a == 8 * mem.taken
            b == 8 * n
<1>2. c \in Nat /\ a \in Nat /\ b \in Nat /\ a + b = 8 * (mem.taken + n)
  BY DEF DigestShape, DigestFields
<1>3. AddBits(n) = (c + b) % Modulus
  BY DEF AddBits, Modulus
<1>. HIDE DEF a, b, c
<1>4. c + b \in Nat
  BY <1>2
<1>5. (c + b) % Modulus \in 0..Modulus - 1
  <2>. DEFINE m == c + b
  <2>1. m \in Nat
    BY <1>4
  <2>. HIDE DEF m
  <2>2. m % Modulus \in 0..Modulus - 1
    BY <1>1, <2>1, Division
  <2>3. QED
    BY <2>2 DEF m
<1>6. ((a % Modulus) + b) % Modulus = (a + b) % Modulus
  BY <1>1, <1>2, Wraps
<1>7. AddBits(n) \in 0..Modulus - 1 /\ AddBits(n) \in Nat
  BY <1>1, <1>3, <1>5
<1>8. c = a % Modulus => AddBits(n) = (a + b) % Modulus
  BY <1>3, <1>6
<1>9. QED
  BY <1>2, <1>7, <1>8 DEF a, c

LEMMA DigestInitially == Init => DigestInv
<1>. SUFFICES ASSUME Init, protocol = "sha1"
              PROVE  DigestShape
  BY DEF DigestInv
<1>1. DigestInit
  BY DEF Init, QuicInit, RadiusInit, SipInit, DnsInit, TcpInit, MqttInit, WebInit, WsInit,
         Http2Init, PacketInit, RequestInit, FramesInit
<1>2. /\ faults = {} /\ Pair(at) /\ Pair(results)
      /\ at.server = "update" /\ results.server = <<>>
  BY <1>1 DEF DigestInit, ProgramsAt, Programs, Pair
<1>3. PICK n \in Sizes :
        mem = [size |-> n, taken |-> 0, data |-> <<>>, state |-> <<>>, bitCount |-> 0,
               buffer |-> <<>>, length |-> 0]
  BY <1>1 DEF DigestInit
<1>4. mem \in DigestFields
  BY <1>3, EmptySeq DEF DigestFields
<1>5. n \in Nat /\ Modulus \in Nat \ {0} /\ Block \in Nat \ {0}
  BY SizesAssumption, BlockAssumption, LengthAssumption DEF Modulus
<1>6. DigestTypeOK
  BY <1>3, <1>5 DEF DigestTypeOK, Modulus
<1>7. FlattenSeq(mem.state) = <<>> /\ DigestDone = <<>>
  <2>1. Len(mem.state) = 0 /\ mem.state = <<>> /\ mem.buffer = <<>> /\ mem.data = <<>>
    BY <1>3
  <2>2. FlattenSeq(mem.state) = <<>>
    BY <2>1 DEF FlattenSeq
  <2>3. <<>> \o <<>> \o <<>> = <<>>
    BY EmptySeq, ConcatEmptySeq
  <2>4. QED
    BY <2>1, <2>2, <2>3 DEF DigestDone
<1>8. Len(FlattenSeq(mem.state)) = Block * 0 /\ Len(DigestDone) = 0
  BY <1>5, <1>7
<1>9. Begins(DigestDone, PaddedOf(mem.size))
  <2>1. PaddedOf(n) \in Seq(DigestBytes)
    BY <1>5, PaddedIs
  <2>2. Len(PaddedOf(n)) \in Nat
    BY <2>1
  <2>3. QED
    BY <1>3, <1>8, <2>2 DEF Begins
<1>10. (8 * 0) % Modulus = 0
  <2>1. 0 = Modulus * 0 + 0 /\ 8 * 0 = 0
    BY <1>5
  <2>2. QED
    BY <1>5, <2>1, Remainder
<1>11. DigestStage
  BY <1>2, <1>3, <1>8, <1>10 DEF DigestStage
<1>12. QED
  BY <1>2, <1>4, <1>6, <1>8, <1>9, <1>11 DEF DigestShape

\* A buffer that has what the length leaves of a block is one where the zeros end.
LEMMA PaddedMeans ==
  ASSUME DigestShape, mem.data = <<>>, at.server = "pad"
  PROVE  Padded <=> Len(DigestDone) = mem.size + 1 + Zeros(mem.size)
<1>. DEFINE r == Len(mem.buffer)
            n == Len(DigestDone)
            s == mem.size + 1 + Zeros(mem.size)
<1>1. Block \in Nat \ {0} /\ LengthAt \in 0..Block - 1
  BY BlockAssumption DEF LengthAt
<1>2. r \in 0..Block - 1
  BY <1>1, DigestIs DEF DigestShape, DigestTypeOK
<1>3. PICK q \in Nat : Len(FlattenSeq(mem.state)) = Block * q
  BY DEF DigestShape
<1>4. n = Block * q + r
  <2>1. Len(mem.data) = 0 /\ Block * q \in Nat
    BY <1>1, <1>3
  <2>2. n = Len(FlattenSeq(mem.state)) + r + Len(mem.data)
    BY DigestIs
  <2>3. QED
    BY <1>2, <1>3, <2>1, <2>2
<1>5. s \in Nat /\ s % Block = LengthAt
  <2>1. mem.size \in Nat
    BY DigestIs
  <2>2. Zeros(mem.size) \in Nat /\ s % Block = LengthAt
    <3>1. Zeros(mem.size) \in 0..Block - 1 /\ s % Block = LengthAt
      BY ONLY <2>1, ZerosAre
    <3>2. QED
      BY <1>1, <3>1
  <2>3. QED
    BY <2>1, <2>2
<1>6. n \in Nat /\ n <= s /\ s - n \in 0..Block - 1
  <2>1. n \in mem.size + 1..s
    BY DEF DigestShape, DigestStage
  <2>2. mem.size \in Nat /\ Zeros(mem.size) \in 0..Block - 1
    BY DigestIs, ZerosAre
  <2>3. QED
    BY <1>1, <2>1, <2>2
<1>7. Padded <=> r = LengthAt
  BY DEF Padded
<1>. HIDE DEF n, s, r
<1>8. PICK p \in Nat, t \in 0..Block - 1 : s = Block * p + t /\ s % Block = t
  BY <1>1, <1>5, Division
<1>9. ASSUME n = s
      PROVE  r = LengthAt
  <2>1. Block * p + t = Block * q + r /\ p \in Int /\ q \in Int
    BY <1>4, <1>8, <1>9
  <2>2. t = r
    BY <1>1, <1>2, <2>1, SameRemainder
  <2>3. QED
    BY <1>5, <1>8, <2>2
<1>10. ASSUME r = LengthAt
       PROVE  n = s
  <2>. DEFINE d == s - n
  <2>1. d \in 0..Block - 1 /\ s = n + d
    BY <1>5, <1>6
  <2>. HIDE DEF d
  <2>2. Block * p + 0 = Block * q + d
    <3>. DEFINE x == Block * p
                y == Block * q
    <3>1. x \in Nat /\ y \in Nat
      BY <1>1
    <3>2. s = x + LengthAt /\ n = y + LengthAt
      BY <1>4, <1>5, <1>8, <1>10
    <3>. HIDE DEF x, y
    <3>3. x + 0 = y + d
      BY <1>1, <2>1, <3>1, <3>2
    <3>4. QED
      BY <3>3 DEF x, y
  <2>3. 0 = d
    <3>1. 0 \in 0..Block - 1 /\ p \in Int /\ q \in Int
      BY <1>1
    <3>2. QED
      BY ONLY <1>1, <2>1, <2>2, <3>1, SameRemainder
  <2>4. QED
    BY <1>5, <1>6, <2>1, <2>3
<1>11. QED
  BY <1>7, <1>9, <1>10 DEF n, s

\* One turn of the loop moves bytes from the call's data to the buffer and the state.
LEMMA DigestMoves ==
  ASSUME DigestShape, DigestCopy
  PROVE  /\ mem' \in DigestFields /\ DigestTypeOK'
         /\ \E q \in Nat : Len(FlattenSeq(mem'.state)) = Block * q
         /\ DigestDone' = DigestDone
         /\ mem'.size = mem.size /\ mem'.taken = mem.taken
         /\ mem'.bitCount = mem.bitCount /\ mem'.length = mem.length
<1>. DEFINE T == DigestBytes
            f == FlattenSeq(mem.state)
            b == mem.buffer
            d == mem.data
            n == Min({Room, Len(d)})
            c == SubSeq(d, 1, n)
            e == SubSeq(d, n + 1, Len(d))
            filled == b \o c
            full == Len(filled) = Block
<1>1. /\ d # <<>>
      /\ mem' = [mem EXCEPT !.data = e,
                            !.state = IF full THEN Append(mem.state, filled) ELSE mem.state,
                            !.buffer = IF full THEN <<>> ELSE filled]
  BY DEF DigestCopy
<1>2. /\ d \in Seq(T) /\ b \in Seq(T) /\ f \in Seq(T) /\ mem.state \in Seq(Seq(T))
      /\ Block \in Nat \ {0} /\ Len(b) < Block /\ mem \in DigestFields
      /\ \A k \in DOMAIN mem.state : Len(mem.state[k]) = Block
  <2>1. d \in Seq(T) /\ b \in Seq(T) /\ f \in Seq(T)
    BY DigestIs
  <2>2. mem \in DigestFields /\ mem.state \in Seq(Seq(T))
    BY DEF DigestShape, DigestFields
  <2>3. Len(b) < Block /\ \A k \in DOMAIN mem.state : Len(mem.state[k]) = Block
    BY DEF DigestShape, DigestTypeOK
  <2>4. QED
    BY <2>1, <2>2, <2>3, BlockAssumption
<1>3. Len(b) \in Nat /\ Len(d) \in Nat /\ Len(d) # 0
  BY <1>1, <1>2, EmptySeq
<1>4. n \in 1..Len(d) /\ n <= Block - Len(b)
  <2>. DEFINE x == Room
              y == Len(d)
  <2>1. x \in Int /\ y \in Int /\ x = Block - Len(b) /\ x >= 1 /\ y >= 1
    BY <1>2, <1>3 DEF Room
  <2>. HIDE DEF x, y
  <2>2. Min({x, y}) \in {x, y} /\ Min({x, y}) <= x /\ Min({x, y}) <= y
    BY <2>1, MinOfTwo
  <2>. DEFINE m == Min({x, y})
  <2>3. m \in {x, y} /\ m <= x /\ m <= y
    BY <2>2
  <2>4. n = m
    BY DEF x, y
  <2>. HIDE DEF m, n
  <2>5. m \in 1..y /\ m <= Block - Len(b)
    BY <2>1, <2>3
  <2>6. QED
    BY <2>4, <2>5 DEF y
<1>. HIDE DEF n
<1>5. /\ c \in Seq(T) /\ Len(c) = n /\ e \in Seq(T) /\ c \o e = d
  <2>1. /\ c \in Seq(T) /\ Len(c) = (IF 1 <= n THEN n - 1 + 1 ELSE 0)
    <3>1. 1 \in Int /\ n \in Int /\ \A i \in 1..n : d[i] \in T
      BY <1>2, <1>4
    <3>2. QED
      BY ONLY <3>1, SubSeqProperties
  <2>2. e \in Seq(T)
    <3>1. n + 1 \in Int /\ Len(d) \in Int /\ \A i \in n + 1..Len(d) : d[i] \in T
      BY <1>2, <1>3, <1>4
    <3>2. QED
      BY ONLY <3>1, SubSeqProperties
  <2>3. SubSeq(d, 1, n) \o SubSeq(d, n + 1, Len(d)) = SubSeq(d, 1, Len(d))
    <3>1. 1 \in 1..Len(d) + 1 /\ n \in 1 - 1..Len(d) /\ Len(d) \in n..Len(d)
      BY <1>3, <1>4
    <3>2. QED
      BY <1>2, <3>1, ConcatAdjacentSubSeq
  <2>4. SubSeq(d, 1, Len(d)) = d
    BY <1>2, SubSeqFull
  <2>5. Len(c) = n
    <3>. HIDE DEF c
    <3>1. QED
      BY <1>4, <2>1
  <2>6. QED
    BY <2>1, <2>2, <2>3, <2>4, <2>5
<1>. HIDE DEF c, e, b, d, f, T
<1>6. filled \in Seq(T) /\ Len(filled) = Len(b) + n /\ Len(filled) <= Block
  <2>1. b \in Seq(T) /\ c \in Seq(T)
    BY <1>2, <1>5
  <2>2. b \o c \in Seq(T) /\ Len(b \o c) = Len(b) + Len(c)
    BY ONLY <2>1, ConcatProperties
  <2>. HIDE DEF filled
  <2>3. filled \in Seq(T) /\ Len(filled) = Len(b) + n
    BY <1>5, <2>2 DEF filled
  <2>4. QED
    BY <1>2, <1>3, <1>4, <2>3
<1>7. f \o b \o d = f \o filled \o e
  <2>1. f \o b \o d = f \o (b \o d)
    BY <1>2, ConcatAssociative
  <2>2. b \o d = filled \o e
    <3>1. (b \o c) \o e = b \o (c \o e)
      <4>1. b \in Seq(T) /\ c \in Seq(T) /\ e \in Seq(T)
        BY <1>2, <1>5
      <4>2. QED
        BY ONLY <4>1, ConcatAssociative
    <3>2. QED
      BY <1>5, <3>1
  <2>. HIDE DEF filled
  <2>3. f \o (filled \o e) = (f \o filled) \o e
    <3>1. f \in Seq(T) /\ filled \in Seq(T) /\ e \in Seq(T)
      BY <1>2, <1>5, <1>6
    <3>2. QED
      BY ONLY <3>1, ConcatAssociative
  <2>4. QED
    BY <2>1, <2>2, <2>3
<1>8. DigestDone = f \o b \o d
  BY DEF DigestDone, f, b, d
<1>. HIDE DEF filled
<1>9. PICK q \in Nat : Len(f) = Block * q
  BY DEF DigestShape, f
<1>10. CASE full
  <2>1. mem' = [mem EXCEPT !.data = e, !.state = Append(mem.state, filled), !.buffer = <<>>]
    BY <1>1, <1>10
  <2>. DEFINE st == Append(mem.state, filled)
  <2>2. /\ st \in Seq(Seq(T)) /\ Len(st) = Len(mem.state) + 1
        /\ \A k \in 1..Len(mem.state) : st[k] = mem.state[k]
        /\ st[Len(mem.state) + 1] = filled
    BY <1>2, <1>6, AppendProperties
  <2>3. FlattenSeq(st) = f \o filled
    <3>1. FlattenSeq(Append(mem.state, filled)) = FlattenSeq(mem.state) \o filled
      BY <1>2, <1>6, Flattened
    <3>2. QED
      BY <3>1 DEF f
  <2>. HIDE DEF st
  <2>4. /\ mem'.data = e /\ mem'.state = st /\ mem'.buffer = <<>>
        /\ mem'.size = mem.size /\ mem'.taken = mem.taken
        /\ mem'.bitCount = mem.bitCount /\ mem'.length = mem.length
        /\ mem' \in DigestFields
    <3>1. mem' = [mem EXCEPT !.data = e, !.state = st, !.buffer = <<>>]
      BY <2>1 DEF st
    <3>2. <<>> \in Seq(T)
      BY EmptySeq
    <3>3. QED
      BY <1>2, <1>5, <2>2, <3>1, <3>2 DEF DigestFields, T
  <2>5. \A k \in DOMAIN st : Len(st[k]) = Block
    <3>1. DOMAIN st = 1..Len(st) /\ DOMAIN mem.state = 1..Len(mem.state) /\ Len(mem.state) \in Nat
      BY <1>2, <2>2
    <3>2. ASSUME NEW k \in 1..Len(st)
          PROVE  Len(st[k]) = Block
      <4>1. k \in 1..Len(mem.state) \/ k = Len(mem.state) + 1
        BY <2>2, <3>1
      <4>2. QED
        BY <1>2, <1>10, <2>2, <3>1, <4>1
    <3>3. QED
      BY <3>1, <3>2
  <2>6. DigestTypeOK'
    <3>1. Len(mem'.buffer) < Block
      BY <1>2, <2>4
    <3>2. QED
      BY <2>4, <2>5, <3>1 DEF DigestTypeOK, DigestShape
  <2>7. Len(FlattenSeq(st)) = Block * (q + 1) /\ q + 1 \in Nat
    <3>1. Len(f \o filled) = Len(f) + Block
      <4>1. f \in Seq(T) /\ filled \in Seq(T)
        BY <1>2, <1>6
      <4>2. Len(f \o filled) = Len(f) + Len(filled)
        BY ONLY <4>1, ConcatProperties
      <4>3. QED
        BY <1>10, <4>2
    <3>2. Block * (q + 1) = Block * q + Block
      BY <1>2
    <3>3. QED
      BY <1>9, <2>3, <3>1, <3>2
  <2>8. DigestDone' = (f \o filled) \o <<>> \o e
    BY <2>3, <2>4 DEF DigestDone
  <2>9. (f \o filled) \o <<>> = f \o filled
    BY <1>2, <1>6, ConcatProperties, ConcatEmptySeq
  <2>10. QED
    BY <1>7, <1>8, <2>4, <2>6, <2>7, <2>8, <2>9
<1>11. CASE ~full
  <2>1. mem' = [mem EXCEPT !.data = e, !.state = mem.state, !.buffer = filled]
    BY <1>1, <1>11
  <2>2. /\ mem'.data = e /\ mem'.state = mem.state /\ mem'.buffer = filled
        /\ mem'.size = mem.size /\ mem'.taken = mem.taken
        /\ mem'.bitCount = mem.bitCount /\ mem'.length = mem.length
        /\ mem' \in DigestFields
    BY <1>2, <1>5, <1>6, <2>1 DEF DigestFields, T
  <2>3. DigestTypeOK'
    <3>1. Len(mem'.buffer) < Block
      <4>1. Len(filled) \in Nat /\ Len(filled) <= Block /\ Len(filled) # Block
        BY <1>3, <1>4, <1>6, <1>11
      <4>2. QED
        BY <1>2, <2>2, <4>1
    <3>2. QED
      BY <2>2, <3>1 DEF DigestTypeOK, DigestShape
  <2>4. DigestDone' = f \o filled \o e
    BY <2>2 DEF DigestDone, f
  <2>5. QED
    BY <1>7, <1>8, <1>9, <2>2, <2>3, <2>4 DEF f
<1>12. QED
  BY <1>10, <1>11

LEMMA DigestNext ==
  ASSUME DigestInv, [Next]_demoVars
  PROVE  DigestInv'
<1>. SUFFICES ASSUME protocol' = "sha1"
              PROVE  DigestShape'
  BY DEF DigestInv
<1>1. protocol = "sha1" /\ faults' = faults
  BY SettingsKept DEF SettingsStay
<1>2. DigestShape
  BY <1>1 DEF DigestInv
<1>3. /\ faults = {} /\ Pair(at) /\ Pair(results) /\ mem \in DigestFields /\ DigestTypeOK
      /\ \E q \in Nat : Len(FlattenSeq(mem.state)) = Block * q
      /\ Begins(DigestDone, PaddedOf(mem.size)) /\ DigestStage
  BY <1>2 DEF DigestShape
<1>. DEFINE T == DigestBytes
            size == mem.size
            zeros == Zeros(size)
            p == PaddedOf(size)
            n == Len(DigestDone)
<1>4. /\ size \in Nat /\ zeros \in Nat /\ n \in Nat /\ mem.taken \in Nat /\ mem.taken <= size
      /\ LengthSize \in Nat
  <2>1. size \in Nat /\ mem.taken \in 0..size /\ DigestDone \in Seq(T)
    BY <1>2, DigestIs
  <2>2. zeros \in 0..Block - 1
    BY ONLY <2>1, ZerosAre
  <2>3. QED
    BY <2>1, <2>2, BlockAssumption
<1>5. /\ Len(p) = size + 1 + zeros + LengthSize
      /\ \A i \in 1..size : p[i] = i
      /\ p[size + 1] = OneByte
      /\ \A i \in 1..zeros : p[size + 1 + i] = ZeroByte
      /\ \A i \in 1..LengthSize : p[size + 1 + zeros + i] = BigEndian((8 * size) % Modulus)[i]
  BY ONLY <1>4, PaddedIs
<1>. HIDE DEF T, size, zeros, p, n
\* What a call of sha1_update() with bytes leads to.
<1>6. ASSUME NEW bytes \in Seq(T), mem.data = <<>>,
             mem'.size = mem.size, mem'.state = mem.state, mem'.buffer = mem.buffer,
             mem'.data = bytes, mem'.bitCount = AddBits(Len(bytes)),
             mem'.taken \in 0..size, mem'.length \in 0..Modulus - 1,
             mem' = [size |-> mem'.size, taken |-> mem'.taken, data |-> mem'.data,
                     state |-> mem'.state, bitCount |-> mem'.bitCount,
                     buffer |-> mem'.buffer, length |-> mem'.length],
             n + Len(bytes) <= Len(p), \A i \in 1..Len(bytes) : p[n + i] = bytes[i]
      PROVE  /\ mem' \in DigestFields /\ DigestTypeOK'
             /\ \E q \in Nat : Len(FlattenSeq(mem'.state)) = Block * q
             /\ Begins(DigestDone', PaddedOf(mem'.size))
             /\ Len(DigestDone') = n + Len(bytes)
  <2>1. Len(bytes) \in Nat
    BY <1>6
  <2>2. AddBits(Len(bytes)) \in 0..Modulus - 1 /\ AddBits(Len(bytes)) \in Nat
    BY <1>2, <2>1, AddBitsIs
  <2>3. mem'.length \in Nat /\ mem'.taken \in Nat
    BY <1>4, <1>6, LengthAssumption DEF Modulus
  <2>4. mem' \in DigestFields
    BY <1>3, <1>6, <2>2, <2>3 DEF DigestFields, T
  <2>5. DigestTypeOK'
    BY <1>3, <1>6, <2>2 DEF DigestTypeOK, Modulus, size
  <2>6. Len(DigestDone') = n + Len(bytes) /\ Begins(DigestDone', p)
    BY <1>2, <1>6, DigestTakes DEF T, n, p, size
  <2>7. QED
    BY <1>3, <1>6, <2>4, <2>5, <2>6 DEF p, size
<1>7. CASE DigestCopy
  <2>1. UNCHANGED <<at, results>>
    BY <1>7 DEF DigestCopy
  <2>2. mem.data # <<>>
    BY <1>7 DEF DigestCopy
  <2>3. QED
    BY <1>1, <1>2, <1>3, <1>7, <2>1, <2>2, DigestMoves DEF DigestShape, DigestStage, Pair
<1>8. CASE DigestUpdate
  <2>1. at.server = "update" /\ mem.data = <<>> /\ UNCHANGED <<at, results>>
    BY <1>8 DEF DigestUpdate
  <2>2. PICK k \in Pieces :
          /\ mem.taken + k <= mem.size
          /\ mem' = [Given(SubSeq(Message, mem.taken + 1, mem.taken + k)) EXCEPT !.taken = @ + k]
    BY <1>8 DEF DigestUpdate
  <2>. DEFINE bytes == SubSeq(Message, mem.taken + 1, mem.taken + k)
  <2>3. k \in Nat \ {0} /\ n = mem.taken /\ mem.taken + k <= size
    <3>1. k \in Nat \ {0}
      BY SizesAssumption
    <3>2. n = mem.taken
      BY <1>3, <2>1 DEF DigestStage, n
    <3>3. QED
      BY <2>2, <3>1, <3>2 DEF size
  <2>4. bytes \in Seq(T) /\ Len(bytes) = k /\ \A i \in 1..k : bytes[i] = n + i
    <3>. DEFINE msg == [i \in 1..size |-> i]
                lo == mem.taken + 1
                hi == mem.taken + k
    <3>1. msg = Message
      BY DEF Message, size
    <3>2. lo \in Int /\ hi \in Int /\ \A i \in lo..hi : msg[i] = i /\ msg[i] \in T
      <4>1. lo \in Int /\ hi \in Int /\ \A i \in lo..hi : i \in 1..size /\ i \in Nat
        BY <1>4, <2>3
      <4>2. QED
        BY <4>1 DEF T, DigestBytes
    <3>. HIDE DEF msg
    <3>. DEFINE s == SubSeq(msg, lo, hi)
    <3>3. /\ s \in Seq(T) /\ Len(s) = (IF lo <= hi THEN hi - lo + 1 ELSE 0)
          /\ \A i \in 1..hi - lo + 1 : s[i] = msg[lo + i - 1]
      <4>. HIDE DEF lo, hi
      <4>1. QED
        BY ONLY <3>2, SubSeqProperties
    <3>4. lo <= hi /\ hi - lo + 1 = k /\ \A i \in 1..k : lo + i - 1 = n + i /\ lo + i - 1 \in lo..hi
      <4>1. lo = n + 1 /\ hi = n + k /\ n \in Nat /\ k \in Nat \ {0}
        BY <1>4, <2>3
      <4>. HIDE DEF lo, hi
      <4>2. QED
        BY ONLY <4>1
    <3>5. s = bytes
      BY <3>1
    <3>. HIDE DEF s, lo, hi, bytes
    <3>6. QED
      BY <3>2, <3>3, <3>4, <3>5
  <2>5. /\ mem'.size = mem.size /\ mem'.state = mem.state /\ mem'.buffer = mem.buffer
        /\ mem'.data = bytes /\ mem'.bitCount = AddBits(Len(bytes))
        /\ mem'.taken = mem.taken + k /\ mem'.length = mem.length
        /\ mem' = [size |-> mem'.size, taken |-> mem'.taken, data |-> mem'.data,
                   state |-> mem'.state, bitCount |-> mem'.bitCount,
                   buffer |-> mem'.buffer, length |-> mem'.length]
    <3>. DEFINE c == AddBits(Len(bytes))
    <3>1. mem' = [[mem EXCEPT !.data = bytes, !.bitCount = c] EXCEPT !.taken = @ + k]
      BY <2>2 DEF Given
    <3>. HIDE DEF c, bytes
    <3>2. QED
      BY <1>3, <3>1 DEF DigestFields, c
  <2>. HIDE DEF bytes
  <2>6. mem'.taken \in 0..size /\ mem'.length \in 0..Modulus - 1
    <3>1. mem.length \in 0..Modulus - 1
      BY <1>3 DEF DigestTypeOK, Modulus
    <3>2. QED
      BY <1>4, <2>3, <2>5, <3>1
  <2>7. n + Len(bytes) <= Len(p) /\ \A i \in 1..Len(bytes) : p[n + i] = bytes[i]
    <3>1. n + k <= Len(p)
      BY <1>4, <1>5, <2>3
    <3>2. \A i \in 1..k : n + i \in 1..size
      BY <1>4, <2>3
    <3>3. QED
      BY <1>5, <2>4, <3>1, <3>2
  <2>8. /\ mem' \in DigestFields /\ DigestTypeOK'
        /\ \E q \in Nat : Len(FlattenSeq(mem'.state)) = Block * q
        /\ Begins(DigestDone', PaddedOf(mem'.size))
        /\ Len(DigestDone') = n + Len(bytes)
    BY <1>6, <2>1, <2>4, <2>5, <2>6, <2>7
  <2>9. mem'.bitCount = (8 * mem'.taken) % Modulus
    <3>1. mem.bitCount = (8 * mem.taken) % Modulus
      BY <1>3, <2>1 DEF DigestStage
    <3>2. AddBits(k) = (8 * (mem.taken + k)) % Modulus
      <4>1. k \in Nat
        BY <2>3
      <4>2. QED
        BY <1>2, <3>1, <4>1, AddBitsIs
    <3>3. QED
      BY <2>4, <2>5, <3>2
  <2>10. DigestStage'
    <3>1. Len(DigestDone') = mem'.taken
      BY <2>3, <2>4, <2>5, <2>8
    <3>2. at'.server = "update" /\ results'.server = <<>>
      BY <1>3, <2>1 DEF DigestStage
    <3>3. QED
      BY <2>9, <3>1, <3>2 DEF DigestStage
  <2>11. QED
    BY <1>1, <1>3, <2>1, <2>8, <2>10 DEF DigestShape, Pair
<1>9. CASE DigestReadFails
  <2>1. /\ at.server = "update" /\ Finish("server", ABORT) /\ UNCHANGED mem
    BY <1>9 DEF DigestReadFails
  <2>2. results.server = <<>>
    BY <1>3, <2>1 DEF DigestStage
  <2>3. /\ at' = [server |-> "exit", client |-> at.client]
        /\ results' = [server |-> results.server \o ABORT, client |-> results.client]
    BY <1>3, <2>1, FinishIs
  <2>4. results'.server = ABORT
    BY <2>2, <2>3 DEF ABORT
  <2>5. DigestStage'
    BY <2>3, <2>4 DEF DigestStage
  <2>6. DigestTypeOK' /\ DigestDone' = DigestDone
    BY <1>3, <2>1 DEF DigestTypeOK, DigestDone
  <2>7. QED
    BY <1>1, <1>3, <2>1, <2>3, <2>5, <2>6 DEF DigestShape, Pair
<1>10. CASE DigestFinalOne
  <2>1. /\ at.server = "update" /\ mem.data = <<>> /\ mem.taken = mem.size
        /\ mem' = [Given(<<OneByte>>) EXCEPT !.length = mem.bitCount]
        /\ Goto("server", "pad")
    BY <1>10 DEF DigestFinalOne
  <2>. DEFINE bytes == <<OneByte>>
  <2>2. bytes \in Seq(T) /\ Len(bytes) = 1 /\ bytes[1] = OneByte
    <3>1. OneByte \in T
      BY DEF DigestBytes, OneByte, T
    <3>2. QED
      BY <3>1
  <2>3. n = size /\ mem.bitCount = (8 * size) % Modulus /\ mem.bitCount \in 0..Modulus - 1
    BY <1>3, <2>1 DEF DigestStage, DigestTypeOK, Modulus, n, size
  <2>4. at' = [server |-> "pad", client |-> at.client] /\ results' = results
    BY <1>3, <2>1, GotoIs
  <2>5. /\ mem'.size = mem.size /\ mem'.state = mem.state /\ mem'.buffer = mem.buffer
        /\ mem'.data = bytes /\ mem'.bitCount = AddBits(Len(bytes))
        /\ mem'.taken = mem.taken /\ mem'.length = mem.bitCount
        /\ mem' = [size |-> mem'.size, taken |-> mem'.taken, data |-> mem'.data,
                   state |-> mem'.state, bitCount |-> mem'.bitCount,
                   buffer |-> mem'.buffer, length |-> mem'.length]
    <3>. DEFINE c == AddBits(Len(bytes))
    <3>1. mem' = [[mem EXCEPT !.data = bytes, !.bitCount = c] EXCEPT !.length = mem.bitCount]
      BY <2>1 DEF Given
    <3>. HIDE DEF c, bytes
    <3>2. QED
      BY <1>3, <3>1 DEF DigestFields, c
  <2>. HIDE DEF bytes
  <2>6. n + Len(bytes) <= Len(p) /\ \A i \in 1..Len(bytes) : p[n + i] = bytes[i]
    <3>1. n + 1 <= Len(p)
      BY <1>4, <1>5, <2>3
    <3>2. \A i \in 1..1 : i = 1
      OBVIOUS
    <3>3. QED
      BY <1>5, <2>2, <2>3, <3>1, <3>2
  <2>7. mem'.taken \in 0..size /\ mem'.length \in 0..Modulus - 1
    BY <1>4, <2>3, <2>5
  <2>8. /\ mem' \in DigestFields /\ DigestTypeOK'
        /\ \E q \in Nat : Len(FlattenSeq(mem'.state)) = Block * q
        /\ Begins(DigestDone', PaddedOf(mem'.size))
        /\ Len(DigestDone') = n + Len(bytes)
    BY <1>6, <2>1, <2>2, <2>5, <2>6, <2>7
  <2>9. DigestStage'
    <3>1. results.server = <<>>
      BY <1>3, <2>1 DEF DigestStage
    <3>2. Len(DigestDone') \in size + 1..size + 1 + zeros
      BY <1>4, <2>2, <2>3, <2>8
    <3>3. QED
      BY <2>3, <2>4, <2>5, <3>1, <3>2 DEF DigestStage, size, zeros
  <2>10. Pair(at') /\ Pair(results')
    BY <1>3, <2>4 DEF Pair
  <2>11. QED
    BY <1>1, <1>3, <2>8, <2>9, <2>10 DEF DigestShape
<1>11. CASE DigestFinalZero
  <2>1. /\ at.server = "pad" /\ mem.data = <<>> /\ ~Padded
        /\ mem' = Given(<<ZeroByte>>) /\ UNCHANGED <<at, results>>
    BY <1>11 DEF DigestFinalZero
  <2>. DEFINE bytes == <<ZeroByte>>
  <2>2. bytes \in Seq(T) /\ Len(bytes) = 1 /\ bytes[1] = ZeroByte
    <3>1. ZeroByte \in T
      BY DEF DigestBytes, ZeroByte, T
    <3>2. QED
      BY <3>1
  <2>3. n \in size + 1..size + zeros
    <3>1. n \in size + 1..size + 1 + zeros
      BY <1>3, <2>1 DEF DigestStage, n, size, zeros
    <3>2. n # size + 1 + zeros
      BY <1>2, <2>1, PaddedMeans DEF n, size, zeros
    <3>3. QED
      BY <1>4, <3>1, <3>2
  <2>4. mem.length \in 0..Modulus - 1 /\ mem.length = (8 * mem.size) % Modulus
    BY <1>3, <2>1 DEF DigestStage, DigestTypeOK, Modulus
  <2>5. /\ mem'.size = mem.size /\ mem'.state = mem.state /\ mem'.buffer = mem.buffer
        /\ mem'.data = bytes /\ mem'.bitCount = AddBits(Len(bytes))
        /\ mem'.taken = mem.taken /\ mem'.length = mem.length
        /\ mem' = [size |-> mem'.size, taken |-> mem'.taken, data |-> mem'.data,
                   state |-> mem'.state, bitCount |-> mem'.bitCount,
                   buffer |-> mem'.buffer, length |-> mem'.length]
    <3>. DEFINE c == AddBits(Len(bytes))
    <3>1. mem' = [mem EXCEPT !.data = bytes, !.bitCount = c]
      BY <2>1 DEF Given
    <3>. HIDE DEF c, bytes
    <3>2. QED
      BY <1>3, <3>1 DEF DigestFields, c
  <2>. HIDE DEF bytes
  <2>6. n + Len(bytes) <= Len(p) /\ \A i \in 1..Len(bytes) : p[n + i] = bytes[i]
    <3>1. n + 1 <= Len(p)
      BY <1>4, <1>5, <2>3
    <3>2. p[n + 1] = ZeroByte
      <4>. DEFINE k == n - size
      <4>1. k \in 1..zeros /\ n + 1 = size + 1 + k
        BY <1>4, <2>3
      <4>. HIDE DEF k
      <4>2. QED
        BY <1>5, <4>1
    <3>3. \A i \in 1..1 : i = 1
      OBVIOUS
    <3>4. QED
      BY <2>2, <3>1, <3>2, <3>3
  <2>7. mem'.taken \in 0..size /\ mem'.length \in 0..Modulus - 1
    BY <1>4, <2>4, <2>5
  <2>8. /\ mem' \in DigestFields /\ DigestTypeOK'
        /\ \E q \in Nat : Len(FlattenSeq(mem'.state)) = Block * q
        /\ Begins(DigestDone', PaddedOf(mem'.size))
        /\ Len(DigestDone') = n + Len(bytes)
    BY <1>6, <2>1, <2>2, <2>5, <2>6, <2>7
  <2>9. DigestStage'
    <3>1. at'.server = "pad" /\ results'.server = <<>>
      BY <1>3, <2>1 DEF DigestStage
    <3>2. Len(DigestDone') \in size + 1..size + 1 + zeros
      BY <1>4, <2>2, <2>3, <2>8
    <3>3. QED
      BY <2>4, <2>5, <3>1, <3>2 DEF DigestStage, size, zeros
  <2>10. QED
    BY <1>1, <1>3, <2>1, <2>8, <2>9 DEF DigestShape, Pair
<1>12. CASE DigestFinalLength
  <2>1. /\ at.server = "pad" /\ mem.data = <<>> /\ Padded
        /\ mem' = Given(BigEndian(mem.length)) /\ Goto("server", "length")
    BY <1>12 DEF DigestFinalLength
  <2>. DEFINE bytes == BigEndian(mem.length)
  <2>2. n = size + 1 + zeros
    BY <1>2, <2>1, PaddedMeans DEF n, size, zeros
  <2>3. mem.length \in 0..Modulus - 1 /\ mem.length = (8 * size) % Modulus
    BY <1>3, <2>1 DEF DigestStage, DigestTypeOK, Modulus, size
  <2>4. bytes \in Seq(T) /\ Len(bytes) = LengthSize
    <3>1. mem.length \in Nat
      BY <1>3 DEF DigestFields
    <3>2. QED
      BY <3>1, LengthBytes DEF T
  <2>5. /\ mem'.size = mem.size /\ mem'.state = mem.state /\ mem'.buffer = mem.buffer
        /\ mem'.data = bytes /\ mem'.bitCount = AddBits(Len(bytes))
        /\ mem'.taken = mem.taken /\ mem'.length = mem.length
        /\ mem' = [size |-> mem'.size, taken |-> mem'.taken, data |-> mem'.data,
                   state |-> mem'.state, bitCount |-> mem'.bitCount,
                   buffer |-> mem'.buffer, length |-> mem'.length]
    <3>. DEFINE c == AddBits(Len(bytes))
    <3>1. mem' = [mem EXCEPT !.data = bytes, !.bitCount = c]
      BY <2>1 DEF Given
    <3>. HIDE DEF c, bytes
    <3>2. QED
      BY <1>3, <3>1 DEF DigestFields, c
  <2>6. \A i \in 1..LengthSize : p[n + i] = bytes[i]
    BY <1>5, <2>2, <2>3
  <2>. HIDE DEF bytes
  <2>7. n + Len(bytes) <= Len(p) /\ \A i \in 1..Len(bytes) : p[n + i] = bytes[i]
    <3>1. n + LengthSize <= Len(p)
      BY <1>4, <1>5, <2>2
    <3>2. QED
      BY <2>4, <2>6, <3>1
  <2>8. mem'.taken \in 0..size /\ mem'.length \in 0..Modulus - 1
    BY <1>4, <2>3, <2>5
  <2>9. /\ mem' \in DigestFields /\ DigestTypeOK'
        /\ \E q \in Nat : Len(FlattenSeq(mem'.state)) = Block * q
        /\ Begins(DigestDone', PaddedOf(mem'.size))
        /\ Len(DigestDone') = n + Len(bytes)
    BY <1>6, <2>1, <2>4, <2>5, <2>7, <2>8
  <2>10. at' = [server |-> "length", client |-> at.client] /\ results' = results
    BY <1>3, <2>1, GotoIs
  <2>11. DigestStage'
    <3>1. results.server = <<>>
      BY <1>3, <2>1 DEF DigestStage
    <3>2. Len(DigestDone') = Len(p)
      BY <1>5, <2>2, <2>4, <2>9
    <3>3. QED
      BY <2>5, <2>10, <3>1, <3>2 DEF DigestStage, p, size
  <2>12. Pair(at') /\ Pair(results')
    BY <1>3, <2>10 DEF Pair
  <2>13. QED
    BY <1>1, <1>3, <2>9, <2>11, <2>12 DEF DigestShape
<1>13. CASE DigestFinal
  <2>1. at.server = "length" /\ mem.data = <<>> /\ Finish("server", OK) /\ UNCHANGED mem
    BY <1>13 DEF DigestFinal
  <2>2. results.server = <<>> /\ n = Len(p)
    BY <1>3, <2>1 DEF DigestStage, n, p, size
  <2>3. /\ at' = [server |-> "exit", client |-> at.client]
        /\ results' = [server |-> results.server \o OK, client |-> results.client]
    BY <1>3, <2>1, FinishIs
  <2>4. results'.server = OK
    BY <2>2, <2>3 DEF OK
  <2>5. mem.buffer = <<>>
    <3>1. PICK a \in Nat : Len(p) = Block * a
      BY <1>4, PaddedIsBlocks DEF p
    <3>2. PICK b \in Nat : Len(FlattenSeq(mem.state)) = Block * b
      BY <1>3
    <3>. DEFINE r == Len(mem.buffer)
    <3>3. r \in 0..Block - 1 /\ 0 \in 0..Block - 1 /\ Block \in Nat \ {0}
      <4>1. r \in Nat
        BY <1>2, DigestIs
      <4>2. r < Block
        BY <1>3 DEF DigestTypeOK
      <4>3. QED
        BY <4>1, <4>2, BlockAssumption
    <3>4. n = Block * b + r
      <4>1. n = Len(FlattenSeq(mem.state)) + r + Len(mem.data)
        BY <1>2, DigestIs DEF n
      <4>2. Len(mem.data) = 0 /\ Block * b \in Nat
        BY <2>1, <3>3
      <4>3. QED
        BY <3>2, <3>3, <4>1, <4>2
    <3>. HIDE DEF r
    <3>5. Block * a + 0 = Block * b + r /\ a \in Int /\ b \in Int
      <4>1. Block * a \in Nat
        BY <3>3
      <4>2. QED
        BY <2>2, <3>1, <3>4, <4>1
    <3>6. 0 = r
      BY ONLY <3>3, <3>5, SameRemainder
    <3>7. mem.buffer \in Seq(DigestBytes)
      BY <1>2, DigestIs
    <3>8. QED
      BY <3>6, <3>7, EmptySeq DEF r
  <2>6. DigestTypeOK' /\ DigestDone' = DigestDone
    BY <1>3, <2>1 DEF DigestTypeOK, DigestDone
  <2>7. DigestStage'
    BY <2>1, <2>2, <2>3, <2>4, <2>5, <2>6 DEF DigestStage, n, p, size
  <2>8. Pair(at') /\ Pair(results')
    BY <2>3 DEF Pair
  <2>9. QED
    BY <1>1, <1>3, <2>1, <2>6, <2>7, <2>8 DEF DigestShape
<1>14. CASE UNCHANGED demoVars
  <2>1. UNCHANGED <<at, results, mem>>
    BY <1>14 DEF demoVars
  <2>2. DigestTypeOK' /\ DigestDone' = DigestDone
    BY <1>3, <2>1 DEF DigestTypeOK, DigestDone
  <2>3. DigestStage'
    BY <1>3, <2>1, <2>2 DEF DigestStage
  <2>4. QED
    BY <1>1, <1>3, <2>1, <2>2, <2>3 DEF DigestShape, Pair
<1>15. QED
  BY <1>1, <1>3, <1>7, <1>8, <1>9, <1>10, <1>11, <1>12, <1>13, <1>14, DigestStep DEF Digest

LEMMA DigestAgrees == DigestInv => PaddedInPieces
<1>. SUFFICES ASSUME DigestShape
              PROVE  /\ IsPrefix(DigestDone, PaddedMessage)
                     /\ results.server = OK =>
                          FlattenSeq(mem.state) = PaddedMessage /\ mem.buffer = <<>>
  BY DEF DigestInv, PaddedInPieces, NothingLostOrRepeated, DigestOfPaddedMessage, DigestDone
<1>. DEFINE s == DigestDone
            p == PaddedOf(mem.size)
<1>1. p = PaddedMessage
  BY DEF PaddedOf, PaddedMessage, Message, Zeros, Modulus
<1>2. s \in Seq(DigestBytes) /\ p \in Seq(DigestBytes)
  BY DigestIs
<1>3. Begins(s, p)
  BY DEF DigestShape
<1>4. IsPrefix(s, p) /\ (Len(s) = Len(p) => s = p)
  <2>. HIDE DEF s, p
  <2>1. QED
    BY <1>2, <1>3, BeginsIsPrefix
<1>5. ASSUME results.server = OK
      PROVE  FlattenSeq(mem.state) = p /\ mem.buffer = <<>>
  <2>1. mem.data = <<>> /\ mem.buffer = <<>> /\ Len(s) = Len(p)
    BY <1>5 DEF DigestShape, DigestStage, OK, ABORT
  <2>2. s = FlattenSeq(mem.state) \o <<>>
    BY <2>1, DigestIs
  <2>3. FlattenSeq(mem.state) \o <<>> = FlattenSeq(mem.state)
    <3>1. FlattenSeq(mem.state) \in Seq(DigestBytes)
      BY DigestIs
    <3>2. QED
      BY <3>1, ConcatEmptySeq
  <2>4. QED
    BY <1>4, <2>1, <2>2, <2>3
<1>6. QED
  BY <1>1, <1>4, <1>5

\* However sha1_update() is given a message, its blocks are those of the padded
\* message, with no byte lost, repeated or moved, and sha1_final() has given all of
\* them when the digest is ready, for every length of a message and of its pieces.
THEOREM DigestsPadded == Spec => []PaddedInPieces
<1>1. Init => DigestInv
  BY DigestInitially
<1>2. DigestInv /\ [Next]_demoVars => DigestInv'
  BY DigestNext
<1>3. DigestInv => PaddedInPieces
  BY DigestAgrees
<1>4. QED
  BY <1>1, <1>2, <1>3, PTL DEF Spec
=============================================================================
