---------------------------- MODULE ResultsProofs ----------------------------
(***************************************************************************)
(* Proofs about what the demos report: a program reports once or twice the *)
(* same, and when a client reports OK its server does too.  ReportedOnce   *)
(* is about every program.  The agreement has an inductive invariant for   *)
(* each way in which a protocol ends:                                      *)
(*                                                                         *)
(*   ClosedInv   a last message that only a server with OK has sent:       *)
(*               quic-like, sip's REGISTER, dns, tcp-basic, tls-like,      *)
(*               http-basic, websocket-basic                               *)
(*   RadiusInv   an accept that has set the server's rc                    *)
(*   OauthInv    the answer to the refresh request                         *)
(*   MqttInv     two programs in step until the client has ended           *)
(*   H2AgreeInv  as many frames taken as the streams have                  *)
(*   SilentInv   a client that never reports OK                            *)
(*                                                                         *)
(* and the types of all the variables, with what the counts rest on.       *)
(***************************************************************************)
EXTENDS TransferProofs

-----------------------------------------------------------------------------
(***************************************************************************)
(* What the programs report.  A program reports once, or twice the same,   *)
(* and at its end.                                                         *)
(***************************************************************************)
Reports(p) == Finish(p, OK) \/ Finish(p, ABORT) \/ Finish(p, ABORT \o ABORT)

\* p goes on, ends with a report, or is killed.
Acts(p) ==
  \/ UNCHANGED <<at, results>>
  \/ at[p] # "exit" /\ ((\E place : Goto(p, place)) \/ Reports(p) \/ Killed(p))

Printable == {<<>>, OK, ABORT, ABORT \o ABORT}

ReportedOnce ==
  /\ Pair(at) /\ Pair(results)
  /\ results.server \in Printable /\ results.client \in Printable
  /\ at.server # "exit" => results.server = <<>>
  /\ at.client # "exit" => results.client = <<>>

LEMMA QuicActs == (QuicServer => Acts("server")) /\ (QuicClient => Acts("client"))
BY DEF QuicServer, QuicServerInitial, QuicServerZeroRtt, QuicServerNoZeroRtt, QuicServerHandshakeAck,
       QuicServerAck, QuicServerFails, QuicGoesOn, QuicClient, QuicClientStart, QuicClientHandshake,
       QuicClientStream, QuicClientClose, QuicClientIgnores, QuicClientFails, quietVars, Acts, Reports

LEMMA SipActs == (SipServer => Acts("server")) /\ (SipClient => Acts("client"))
BY DEF SipServer, SipServerRegister, SipServerInvite, SipServerAckOrBye, SipServerFails, SipClient,
       SipClientStart, SipClientRegistered, SipClientNotRegistered, SipClientInvited,
       SipClientInviteFails, SipClientBye, SipAfterInvite, Acts, Reports

LEMMA DnsActs == (DnsServer => Acts("server")) /\ (DnsClient => Acts("client"))
BY DEF DnsServer, DnsServerQuery, DnsServerFails, DnsClient, DnsClientStart, DnsClientResponse,
       DnsClientFails, Acts, Reports

LEMMA TcpServerActs == TcpServer => Acts("server")
BY DEF TcpServer, TcpServerJoin, TcpServerPassword, TcpServerUnexpected, TcpServerReceiveFails,
       TlsServerHello, TlsServerFinished, TcpServerSendsUnit, TcpServerTerminates,
       TcpServerSendBreaks, TcpServerTransfers, TcpServerNextRound, SendBreaks, Acts, Reports

LEMMA TcpClientActs == TcpClient => Acts("client")
BY DEF TcpClient, TcpClientStart, TcpClientRefused, TcpClientAuth, TcpClientReceiveFails,
       TlsClientHello, TlsClientFinished, TcpClientData, TcpClientTerminate, TcpClientTransfers,
       TcpClientNextRound, TcpClientNextFrame, Acts, Reports

LEMMA MqttActs == (MqttServer => Acts("server")) /\ (MqttClient => Acts("client"))
BY DEF MqttServer, MqttServerConnect, MqttServerSubscribe, MqttServerPublish, MqttServerRepeats,
       MqttServerBreaks, MqttServerDisconnect, MqttServerFails, MqttClient, MqttClientStart,
       MqttClientConnack, MqttClientSuback, MqttClientPubrec, MqttClientPubrecAgain,
       MqttClientNoReplay, MqttClientFails, Acts, Reports

LEMMA WebActs == (WebServer => Acts("server")) /\ (WebClient => Acts("client"))
BY DEF WebServer, WebServerServes, WebServerInterrupted, WebResult, WebClient, WebClientStart,
       WebClientResponse, WebClientFails, Acts, Reports

LEMMA WsActs == (WsServer => Acts("server")) /\ (WsClient => Acts("client"))
BY DEF WsServer, WsServerUpgrade, WsServerSendsText, WsServerSendBreaks, WsServerPong,
       WsServerFails, WsClient, WsClientStart, WsClientUpgraded, WsClientText, WsClientPing,
       WsClientClose, WsClientFails, WsClientNextFrame, SendBreaks, Acts, Reports

LEMMA H2ServerActs == H2Server => Acts("server")
BY DEF H2Server, H2ServerPreface, H2ServerSettings, H2ServerHeaders, H2ServerBody, H2ServerOverflow,
       H2ServerOtherFrame, H2ServerReceiveFails, H2ServerSendBreaks, H2ServerNextFrame,
       H2ServerResult, Acts, Reports

LEMMA H2ClientActs == H2Client => Acts("client")
BY DEF H2Client, H2ClientStart, H2ClientSettings, H2ClientSettingsFail, H2ClientHeaders,
       H2ClientData, H2ClientLost, H2ClientSkips, H2ClientLostEnds, H2ClientNextStream, Acts, Reports

LEMMA SharedActs ==
  /\ PacketReceive \/ Digest \/ RequestServer \/ FrameServer => Acts("server")
  /\ PacketSend \/ RequestBrowser \/ FrameBrowser => Acts("client")
BY DEF PacketReceive, Digest, DigestUpdate, DigestCopy, DigestReadFails, DigestFinalOne,
       DigestFinalZero, DigestFinalLength, DigestFinal, RequestServer, RequestReceive, RequestEnds,
       FrameServer, FrameReceive, FrameByte, FrameSocketEnds, PacketSend, RequestBrowser,
       BrowserSends, BrowserLeaves, FrameBrowser, BrowserSendsFrame, FrameArrives,
       BrowserClosesSocket,
       quietVars, Acts, Reports

LEMMA NetworkActs ==
  Lose \/ Duplicate \/ Strangers => UNCHANGED <<protocol, faults, scenario, at, results, mem>>
BY DEF Lose, Duplicate, Strangers, OtherSends, PacketOther, settingVars

LEMMA ReportIs ==
  ASSUME ReportedOnce, NEW p \in Programs, Acts(p)
  PROVE  /\ ReportedOnce'
         /\ p = "server" => at'.client = at.client /\ results'.client = results.client
         /\ p = "client" => at'.server = at.server /\ results'.server = results.server
<1>1. Pair(at) /\ Pair(results)
  BY DEF ReportedOnce
<1>2. /\ <<>> \o OK = OK /\ <<>> \o ABORT = ABORT /\ <<>> \o (ABORT \o ABORT) = ABORT \o ABORT
      /\ OK # <<>> /\ ABORT # <<>>
  BY DEF OK, ABORT
<1>3. CASE UNCHANGED <<at, results>>
  BY <1>1, <1>3 DEF ReportedOnce, Pair, Printable
<1>4. CASE p = "server" /\ at.server # "exit" /\ ((\E place : Goto(p, place)) \/ Killed(p))
  BY <1>1, <1>4, Moves DEF ReportedOnce
<1>5. CASE p = "client" /\ at.client # "exit" /\ ((\E place : Goto(p, place)) \/ Killed(p))
  BY <1>1, <1>5, Moves DEF ReportedOnce
<1>6. ASSUME p = "server", at.server # "exit",
             NEW printed \in {OK, ABORT, ABORT \o ABORT}, Finish("server", printed)
      PROVE  ReportedOnce' /\ at'.client = at.client /\ results'.client = results.client
  <2>1. /\ at' = [server |-> "exit", client |-> at.client]
        /\ results' = [server |-> results.server \o printed, client |-> results.client]
    BY <1>1, <1>6, FinishIs
  <2>2. results.server = <<>>
    BY <1>6 DEF ReportedOnce
  <2>3. results'.server \in Printable
    BY <1>2, <1>6, <2>1, <2>2 DEF Printable
  <2>4. QED
    BY <2>1, <2>3 DEF ReportedOnce, Pair
<1>7. ASSUME p = "client", at.client # "exit",
             NEW printed \in {OK, ABORT, ABORT \o ABORT}, Finish("client", printed)
      PROVE  ReportedOnce' /\ at'.server = at.server /\ results'.server = results.server
  <2>1. /\ at' = [server |-> at.server, client |-> "exit"]
        /\ results' = [server |-> results.server, client |-> results.client \o printed]
    BY <1>1, <1>7, FinishIs
  <2>2. results.client = <<>>
    BY <1>7 DEF ReportedOnce
  <2>3. results'.client \in Printable
    BY <1>2, <1>7, <2>1, <2>2 DEF Printable
  <2>4. QED
    BY <2>1, <2>3 DEF ReportedOnce, Pair
<1>8. QED
  BY <1>1, <1>3, <1>4, <1>5, <1>6, <1>7 DEF Acts, Reports, Programs, Pair

\* What the first report of a program is.
LEMMA ReportsOk ==
  ASSUME ReportedOnce
  PROVE  /\ PrintsOk("server") <=> results.server = OK
         /\ PrintsOk("client") <=> results.client = OK
         /\ at.server # "exit" => ~PrintsOk("server")
         /\ at.client # "exit" => ~PrintsOk("client")
         /\ OneResult
<1>1. /\ Range(<<>>) = {} /\ Range(OK) = {"OK"} /\ Range(ABORT) = {"ABORT"}
      /\ Range(ABORT \o ABORT) = {"ABORT"}
  <2>1. DOMAIN (ABORT \o ABORT) = {1, 2} /\ (ABORT \o ABORT)[1] = "ABORT"
        /\ (ABORT \o ABORT)[2] = "ABORT"
    BY DEF ABORT
  <2>2. Range(ABORT \o ABORT) = {"ABORT"}
    BY <2>1 DEF Range
  <2>3. QED
    BY <2>2, ShortSeqs DEF OK, ABORT
<1>2. \A p \in Programs : results[p] \in Printable
  BY DEF ReportedOnce, Programs
<1>3. OneResult
  BY <1>1, <1>2 DEF OneResult, PrintsOk, Printable
<1>4. \A p \in Programs : PrintsOk(p) <=> results[p] = OK
  BY <1>1, <1>2 DEF PrintsOk, Printable
<1>5. QED
  BY <1>1, <1>3, <1>4 DEF ReportedOnce, Programs, PrintsOk

LEMMA FinishReports ==
  ASSUME ReportedOnce, NEW printed \in {OK, ABORT}
  PROVE  /\ at.server # "exit" /\ Finish("server", printed) =>
              /\ at'.server = "exit" /\ results'.server = printed
              /\ PrintsOk("server")' <=> printed = OK
         /\ at.client # "exit" /\ Finish("client", printed) =>
              /\ at'.client = "exit" /\ results'.client = printed
              /\ PrintsOk("client")' <=> printed = OK
<1>1. /\ <<>> \o OK = OK /\ <<>> \o ABORT = ABORT
      /\ "OK" \in Range(OK) /\ "OK" \notin Range(ABORT) /\ OK # ABORT
  BY ShortSeqs DEF OK, ABORT
<1>2. Pair(at) /\ Pair(results)
  BY DEF ReportedOnce
<1>3. /\ Finish("server", printed) =>
           at'.server = "exit" /\ results'.server = results.server \o printed
      /\ Finish("client", printed) =>
           at'.client = "exit" /\ results'.client = results.client \o printed
  <2>1. ASSUME Finish("server", printed)
        PROVE  at'.server = "exit" /\ results'.server = results.server \o printed
    <3>1. /\ at' = [server |-> "exit", client |-> at.client]
          /\ results' = [server |-> results.server \o printed, client |-> results.client]
      BY <1>2, <2>1, FinishIs
    <3>2. QED
      BY <3>1
  <2>2. ASSUME Finish("client", printed)
        PROVE  at'.client = "exit" /\ results'.client = results.client \o printed
    <3>1. /\ at' = [server |-> at.server, client |-> "exit"]
          /\ results' = [server |-> results.server, client |-> results.client \o printed]
      BY <1>2, <2>2, FinishIs
    <3>2. QED
      BY <3>1
  <2>3. QED
    BY <2>1, <2>2
<1>4. printed = OK <=> "OK" \in Range(printed)
  BY <1>1
<1>5. QED
  BY <1>1, <1>3, <1>4 DEF ReportedOnce, PrintsOk

-----------------------------------------------------------------------------
(***************************************************************************)
(* RadiusDemo: an accept that the client has seen is in the server's rc.   *)
(***************************************************************************)
AcceptSeen ==
  \/ \E m \in Range(net.client) : m.type = "accept"
  \/ at.client = "accounted"
  \/ PrintsOk("client")

RadiusShape ==
  /\ Sequences
  /\ mem = [nonce |-> mem.nonce, last |-> mem.last, accepted |-> mem.accepted]
  /\ at.server \in {"request", "accounting", "exit"}
  /\ \A m \in Range(net.server) : m.from # "nobody"
  /\ at.server = "request" => mem.accepted = "nobody"

RadiusParts ==
  /\ RadiusShape
  /\ IF scenario = "replay-attack" THEN at.client # "accounted" /\ ~PrintsOk("client")
     ELSE /\ AcceptSeen => mem.accepted # "nobody"
          /\ at.server = "exit" /\ mem.accepted # "nobody" => PrintsOk("server")

RadiusInv == protocol = "radius" => RadiusParts

LEMMA RadiusActs ==
  ASSUME RadiusShape
  PROVE  (RadiusServer => Acts("server")) /\ (RadiusClient => Acts("client"))
<1>1. ABORT \o RadiusEnd("nobody") = ABORT \o ABORT
  BY DEF RadiusEnd
<1>2. \A accepted : RadiusEnd(accepted) \in {OK, ABORT}
  BY DEF RadiusEnd
<1>3. RadiusServerRequest => Acts("server")
  BY <1>1 DEF RadiusServerRequest, RadiusShape, Acts, Reports
<1>4. RadiusServerAccounting \/ RadiusServerIgnores \/ RadiusServerFails => Acts("server")
  BY <1>2 DEF RadiusServerAccounting, RadiusServerIgnores, RadiusServerFails, Acts, Reports
<1>5. RadiusClient => Acts("client")
  BY DEF RadiusClient, RadiusClientStart, RadiusClientResponse, RadiusClientNoResponse,
         RadiusClientEnd, Acts, Reports
<1>6. QED
  BY <1>3, <1>4, <1>5 DEF RadiusServer

LEMMA RadiusReplies ==
  ASSUME NEW m, NEW x
  PROVE  IsSeq(RadiusReply(m, x)) /\ Range(RadiusReply(m, x)) \subseteq {x}
BY ShortSeqs DEF RadiusReply

LEMMA RadiusTypes ==
  /\ \A auth : AccessResponse(TRUE, auth).type = "accept" /\ AccessResponse(FALSE, auth).type = "reject"
  /\ ReplayReject.type = "reject" /\ AccountingResponse.type = "accounted"
BY DEF AccessResponse, ReplayReject, AccountingResponse

\* What a step of the server does: it may go on, and what it answers is no accept unless it
\* accepts.
RadiusServerStep ==
  /\ Sequences' /\ Range(net'.server) \subseteq Range(net.server)
  /\ mem' = [nonce |-> mem'.nonce, last |-> mem'.last, accepted |-> mem'.accepted]
  /\ at'.server \in {"request", "accounting", "exit"}
  /\ at'.server = "request" => mem'.accepted = "nobody"
  /\ scenario # "replay-attack" =>
       /\ mem.accepted # "nobody" => mem'.accepted # "nobody"
       /\ \A m \in Range(net'.client) : m.type = "accept" =>
            m \in Range(net.client) \/ mem'.accepted # "nobody"
       /\ at'.server = "exit" => Finish("server", RadiusEnd(mem'.accepted))

LEMMA RadiusServerIs ==
  ASSUME RadiusShape, ReportedOnce, RadiusServer
  PROVE  RadiusServerStep
<1>1. /\ Sequences /\ Pair(at) /\ Pair(results) /\ Arriving("server") \subseteq DOMAIN net.server
      /\ mem = [nonce |-> mem.nonce, last |-> mem.last, accepted |-> mem.accepted]
      /\ \A i \in DOMAIN net.server : net.server[i].from # "nobody"
  BY ArrivingIs DEF RadiusShape, ReportedOnce, Range
<1>2. ASSUME NEW i \in DOMAIN net.server, NEW m, NEW x, Exchange("server", i, RadiusReply(m, x))
      PROVE  /\ Sequences' /\ Range(net'.server) \subseteq Range(net.server)
             /\ Range(net'.client) \subseteq Range(net.client) \cup {x}
  <2>. DEFINE msgs == RadiusReply(m, x)
  <2>1. IsSeq(msgs) /\ Range(msgs) \subseteq {x} /\ Exchange("server", i, msgs)
    BY <1>2, RadiusReplies
  <2>. HIDE DEF msgs
  <2>2. QED
    BY <1>1, <2>1, ServerTrades
<1>3. ASSUME NEW i \in DOMAIN net.server, Exchange("server", i, <<>>)
      PROVE  /\ Sequences' /\ Range(net'.server) \subseteq Range(net.server)
             /\ Range(net'.client) = Range(net.client)
  <2>. DEFINE msgs == <<>>
  <2>1. IsSeq(msgs) /\ Range(msgs) = {} /\ Exchange("server", i, msgs)
    BY <1>3, ShortSeqs
  <2>. HIDE DEF msgs
  <2>2. QED
    BY <1>1, <2>1, ServerTrades
<1>4. ASSUME NEW place, Goto("server", place)
      PROVE  at'.server = place
  BY <1>1, <1>4, Moves
<1>5. ASSUME NEW printed, Finish("server", printed)
      PROVE  at'.server = "exit"
  BY <1>1, <1>5, Moves
<1>6. CASE RadiusServerRequest
  <2>1. PICK i \in DOMAIN net.server :
          LET m == net.server[i]
          IN  \/ /\ RadiusReplayed(m) /\ mem' = mem
                 /\ Exchange("server", i, RadiusReply(m, ReplayReject))
                 /\ Finish("server", ABORT \o RadiusEnd(mem.accepted))
              \/ /\ mem' = [mem EXCEPT !.last = m.auth, !.accepted = m.from]
                 /\ Exchange("server", i, RadiusReply(m, AccessResponse(TRUE, m.auth)))
                 /\ Goto("server", "accounting")
              \/ /\ mem' = [mem EXCEPT !.last = m.auth]
                 /\ Exchange("server", i, RadiusReply(m, AccessResponse(FALSE, m.auth)))
                 /\ Goto("server", "request")
    BY <1>1, <1>6 DEF RadiusServerRequest
  <2>2. mem.accepted = "nobody"
    BY <1>6 DEF RadiusServerRequest, RadiusShape
  <2>. DEFINE m == net.server[i]
  <2>3. m.from # "nobody"
    BY <1>1
  <2>4. CASE /\ RadiusReplayed(m) /\ mem' = mem
             /\ Exchange("server", i, RadiusReply(m, ReplayReject))
             /\ Finish("server", ABORT \o RadiusEnd(mem.accepted))
    <3>1. scenario = "replay-attack" /\ at'.server = "exit"
      BY <1>5, <2>4 DEF RadiusReplayed
    <3>2. Sequences' /\ Range(net'.server) \subseteq Range(net.server)
      BY <1>2, <2>4
    <3>3. QED
      BY <1>1, <2>4, <3>1, <3>2 DEF RadiusServerStep
  <2>5. CASE /\ mem' = [mem EXCEPT !.last = m.auth, !.accepted = m.from]
             /\ Exchange("server", i, RadiusReply(m, AccessResponse(TRUE, m.auth)))
             /\ Goto("server", "accounting")
    <3>1. Sequences' /\ Range(net'.server) \subseteq Range(net.server)
      BY <1>2, <2>5
    <3>2. at'.server = "accounting"
      BY <1>4, <2>5
    <3>3. /\ mem' = [nonce |-> mem.nonce, last |-> m.auth, accepted |-> m.from]
          /\ mem'.accepted # "nobody"
      BY <1>1, <2>3, <2>5
    <3>4. QED
      BY <3>1, <3>2, <3>3 DEF RadiusServerStep
  <2>6. CASE /\ mem' = [mem EXCEPT !.last = m.auth]
             /\ Exchange("server", i, RadiusReply(m, AccessResponse(FALSE, m.auth)))
             /\ Goto("server", "request")
    <3>. DEFINE reject == AccessResponse(FALSE, m.auth)
    <3>1. /\ Sequences' /\ Range(net'.server) \subseteq Range(net.server)
          /\ Range(net'.client) \subseteq Range(net.client) \cup {reject}
      BY ZenonT(60), <1>2, <2>6
    <3>2. at'.server = "request" /\ reject.type = "reject"
      BY <1>4, <2>6, RadiusTypes
    <3>3. mem' = [nonce |-> mem.nonce, last |-> m.auth, accepted |-> mem.accepted]
      BY <1>1, <2>6
    <3>. HIDE DEF reject
    <3>4. QED
      BY <2>2, <3>1, <3>2, <3>3 DEF RadiusServerStep
  <2>7. QED
    BY <2>1, <2>4, <2>5, <2>6
<1>7. CASE RadiusServerIgnores
  <2>1. PICK i \in DOMAIN net.server : Exchange("server", i, <<>>)
    BY <1>1, <1>7 DEF RadiusServerIgnores
  <2>2. /\ Sequences' /\ Range(net'.server) \subseteq Range(net.server)
        /\ Range(net'.client) = Range(net.client)
    BY <1>3, <2>1
  <2>3. at' = at /\ mem' = mem /\ at.server = "request"
    BY <1>7 DEF RadiusServerIgnores
  <2>4. QED
    BY <1>1, <2>2, <2>3 DEF RadiusServerStep, RadiusShape
<1>8. CASE RadiusServerAccounting
  <2>1. PICK i \in DOMAIN net.server :
          LET m == net.server[i]
          IN  \/ /\ Exchange("server", i, RadiusReply(m, AccountingResponse))
                 /\ Finish("server", RadiusEnd(mem.accepted)) /\ mem' = mem
              \/ /\ RadiusReplaysAccepted(m)
                 /\ Exchange("server", i, RadiusReply(m, ReplayReject))
                 /\ mem' = [mem EXCEPT !.accepted = "nobody"]
                 /\ Finish("server", RadiusEnd(mem'.accepted))
              \/ /\ Exchange("server", i, <<>>) /\ Goto("server", "accounting") /\ mem' = mem
    BY <1>1, <1>8 DEF RadiusServerAccounting
  <2>. DEFINE m == net.server[i]
  <2>2. CASE /\ Exchange("server", i, RadiusReply(m, AccountingResponse))
             /\ Finish("server", RadiusEnd(mem.accepted)) /\ mem' = mem
    <3>1. /\ Sequences' /\ Range(net'.server) \subseteq Range(net.server)
          /\ Range(net'.client) \subseteq Range(net.client) \cup {AccountingResponse}
      BY <1>2, <2>2
    <3>2. at'.server = "exit" /\ AccountingResponse.type # "accept"
      BY <1>5, <2>2, RadiusTypes
    <3>3. QED
      BY <1>1, <2>2, <3>1, <3>2 DEF RadiusServerStep
  <2>3. CASE /\ RadiusReplaysAccepted(m)
             /\ Exchange("server", i, RadiusReply(m, ReplayReject))
             /\ mem' = [mem EXCEPT !.accepted = "nobody"]
             /\ Finish("server", RadiusEnd(mem'.accepted))
    <3>1. scenario = "replay-attack" /\ at'.server = "exit"
      BY <1>5, <2>3 DEF RadiusReplaysAccepted
    <3>2. Sequences' /\ Range(net'.server) \subseteq Range(net.server)
      BY <1>2, <2>3
    <3>3. mem' = [nonce |-> mem.nonce, last |-> mem.last, accepted |-> "nobody"]
      BY <1>1, <2>3
    <3>4. QED
      BY <3>1, <3>2, <3>3 DEF RadiusServerStep
  <2>4. CASE Exchange("server", i, <<>>) /\ Goto("server", "accounting") /\ mem' = mem
    <3>1. /\ Sequences' /\ Range(net'.server) \subseteq Range(net.server)
          /\ Range(net'.client) = Range(net.client) /\ at'.server = "accounting"
      BY <1>3, <1>4, <2>4
    <3>2. QED
      BY <1>1, <2>4, <3>1 DEF RadiusServerStep
  <2>5. QED
    BY <2>1, <2>2, <2>3, <2>4
<1>9. CASE RadiusServerFails
  <2>1. net' = net /\ mem' = mem /\ Finish("server", RadiusEnd(mem.accepted)) /\ at'.server = "exit"
    BY <1>5, <1>9 DEF RadiusServerFails
  <2>2. Sequences'
    BY <1>1, <2>1 DEF Sequences, Pair
  <2>3. QED
    BY <1>1, <2>1, <2>2 DEF RadiusServerStep
<1>10. QED
  BY <1>6, <1>7, <1>8, <1>9 DEF RadiusServer

LEMMA RadiusServerNext ==
  ASSUME RadiusParts, ReportedOnce, SettingsStay, RadiusServer, at.server # "exit"
  PROVE  RadiusParts'
<1>1. RadiusShape /\ RadiusServerStep /\ Acts("server")
  BY RadiusActs, RadiusServerIs DEF RadiusParts
<1>2. /\ ReportedOnce' /\ at'.client = at.client /\ results'.client = results.client
      /\ scenario' = scenario
  BY <1>1, ReportIs DEF SettingsStay, Programs
<1>3. RadiusShape'
  BY <1>1 DEF RadiusShape, RadiusServerStep
<1>4. PrintsOk("client")' <=> PrintsOk("client")
  BY <1>2 DEF PrintsOk
<1>5. ASSUME scenario # "replay-attack"
      PROVE  /\ AcceptSeen' => mem'.accepted # "nobody"
             /\ at'.server = "exit" /\ mem'.accepted # "nobody" => PrintsOk("server")'
  <2>1. AcceptSeen' => mem'.accepted # "nobody"
    BY <1>1, <1>2, <1>4, <1>5 DEF AcceptSeen, RadiusParts, RadiusServerStep
  <2>2. ASSUME at'.server = "exit", mem'.accepted # "nobody"
        PROVE  PrintsOk("server")'
    <3>1. Finish("server", OK)
      BY <1>1, <1>5, <2>2 DEF RadiusServerStep, RadiusEnd
    <3>2. QED
      BY <3>1, FinishReports
  <2>3. QED
    BY <2>1, <2>2
<1>6. QED
  BY <1>2, <1>3, <1>4, <1>5 DEF RadiusParts

LEMMA RadiusClientNext ==
  ASSUME RadiusParts, ReportedOnce, SettingsStay, RadiusClient
  PROVE  RadiusParts'
<1>1. RadiusShape /\ Acts("client") /\ Arriving("client") \subseteq DOMAIN net.client
      /\ Pair(at) /\ Pair(results) /\ Sequences
  BY RadiusActs, ArrivingIs DEF RadiusParts, RadiusShape, ReportedOnce
<1>2. /\ ReportedOnce' /\ at'.server = at.server /\ results'.server = results.server
      /\ scenario' = scenario
  BY <1>1, ReportIs DEF SettingsStay, Programs
<1>3. mem' = mem
  BY DEF RadiusClient, RadiusClientStart, RadiusClientResponse, RadiusClientNoResponse,
         RadiusClientEnd
<1>4. /\ Sequences' /\ Range(net'.client) \subseteq Range(net.client)
      /\ \A m \in Range(net'.server) : m.from # "nobody"
  <2>. DEFINE ask == <<RadiusClientRequest>>
              account == <<AccountingRequest("client")>>
              nothing == <<>>
  <2>1. /\ IsSeq(ask) /\ IsSeq(account) /\ IsSeq(nothing)
        /\ \A m \in Range(ask) \cup Range(account) \cup Range(nothing) : m.from = "client"
    BY ShortSeqs DEF RadiusClientRequest, AccessRequest, AccountingRequest
  <2>2. \/ net' = net
        \/ Send("client", ask)
        \/ \E i \in DOMAIN net.client : \/ Exchange("client", i, ask)
                                        \/ Exchange("client", i, account)
                                        \/ Exchange("client", i, nothing)
    BY <1>1 DEF RadiusClient, RadiusClientStart, RadiusClientResponse, RadiusClientNoResponse,
                RadiusClientEnd
  <2>. HIDE DEF ask, account, nothing
  <2>3. CASE net' = net
    BY <1>1, <2>3 DEF RadiusShape, Sequences, Pair
  <2>4. CASE Send("client", ask)
    BY <1>1, <2>1, <2>4, ClientAdds DEF RadiusShape
  <2>5. ASSUME NEW msgs \in {ask, account, nothing}, NEW i \in DOMAIN net.client,
               Exchange("client", i, msgs)
        PROVE  /\ Sequences' /\ Range(net'.client) \subseteq Range(net.client)
               /\ \A m \in Range(net'.server) : m.from # "nobody"
    <3>1. IsSeq(msgs) /\ \A m \in Range(msgs) : m.from = "client"
      BY <2>1, <2>5
    <3>2. /\ Sequences' /\ Range(net'.client) \subseteq Range(net.client)
          /\ Range(net'.server) = Range(net.server) \cup Range(msgs)
      BY <1>1, <2>5, <3>1, ClientTrades
    <3>3. QED
      BY <1>1, <3>1, <3>2 DEF RadiusShape
  <2>6. QED
    BY <2>2, <2>3, <2>4, <2>5
<1>5. RadiusShape'
  BY <1>1, <1>2, <1>3, <1>4 DEF RadiusShape
<1>6. /\ at'.client = "accounted" => scenario # "replay-attack" /\ AcceptSeen
      /\ PrintsOk("client")' => scenario # "replay-attack" /\ AcceptSeen
  <2>1. CASE RadiusClientStart
    <3>1. at'.client = "response" /\ results' = results
      BY <1>1, <2>1, Moves DEF RadiusClientStart
    <3>2. QED
      BY <2>1, <3>1, ReportsOk DEF RadiusClientStart, PrintsOk
  <2>2. CASE RadiusClientResponse \/ RadiusClientNoResponse
    <3>1. at.client = "response" /\ results.client = <<>>
      BY <2>2 DEF RadiusClientResponse, RadiusClientNoResponse, ReportedOnce
    <3>2. \/ Finish("client", ABORT)
          \/ Goto("client", "replayed")
          \/ /\ scenario # "replay-attack" /\ Goto("client", "accounted")
             /\ \E i \in DOMAIN net.client : net.client[i].type = "accept"
      BY <1>1, <2>2 DEF RadiusClientResponse, RadiusClientNoResponse
    <3>3. CASE Finish("client", ABORT)
      <4>1. at'.client = "exit" /\ ~PrintsOk("client")'
        BY <3>1, <3>3, FinishReports DEF OK, ABORT
      <4>2. QED
        BY <4>1
    <3>4. CASE Goto("client", "replayed")
      <4>1. at'.client = "replayed" /\ results' = results
        BY <1>1, <3>4, Moves
      <4>2. QED
        BY <3>1, <4>1, ShortSeqs DEF PrintsOk
    <3>5. CASE /\ scenario # "replay-attack" /\ Goto("client", "accounted")
               /\ \E i \in DOMAIN net.client : net.client[i].type = "accept"
      <4>1. AcceptSeen
        BY <3>5 DEF AcceptSeen, Range
      <4>2. QED
        BY <3>5, <4>1
    <3>6. QED
      BY <3>2, <3>3, <3>4, <3>5
  <2>3. CASE RadiusClientEnd
    <3>1. /\ at.client \in {"replayed", "accounted"}
          /\ Finish("client", IF at.client = "replayed" THEN ABORT ELSE OK)
      BY <2>3 DEF RadiusClientEnd
    <3>2. CASE at.client = "replayed"
      <4>1. at'.client = "exit" /\ ~PrintsOk("client")'
        BY <3>1, <3>2, FinishReports DEF OK, ABORT
      <4>2. QED
        BY <4>1
    <3>3. CASE at.client = "accounted"
      <4>1. at'.client = "exit"
        BY <3>1, <3>3, FinishReports
      <4>2. QED
        BY <3>3, <4>1 DEF AcceptSeen, RadiusParts
    <3>4. QED
      BY <3>1, <3>2, <3>3
  <2>4. QED
    BY <2>1, <2>2, <2>3 DEF RadiusClient
<1>7. AcceptSeen' => AcceptSeen
  BY <1>4, <1>6 DEF AcceptSeen
<1>8. PrintsOk("server")' <=> PrintsOk("server")
  BY <1>2 DEF PrintsOk
<1>9. QED
  BY <1>2, <1>3, <1>5, <1>6, <1>7, <1>8 DEF RadiusParts

LEMMA RadiusInitially == Init => RadiusInv
<1>. SUFFICES ASSUME Init, protocol = "radius"
              PROVE  RadiusParts
  BY DEF RadiusInv
<1>1. RadiusInit
  BY DEF Init, QuicInit, WebInit, SipInit, DnsInit, TcpInit, MqttInit, Http2Init, WsInit,
         PacketInit, DigestInit, RequestInit, FramesInit
<1>2. /\ at = [server |-> "request", client |-> "start"]
      /\ net = [server |-> <<>>, client |-> <<>>] /\ results.client = <<>>
      /\ mem = [nonce |-> mem.nonce, last |-> mem.last, accepted |-> mem.accepted]
      /\ mem.accepted = "nobody"
  BY <1>1, PlacesInit DEF RadiusInit
<1>3. Sequences /\ Range(net.server) = {} /\ Range(net.client) = {} /\ Range(results.client) = {}
  BY <1>2, ShortSeqs DEF Sequences, Pair
<1>4. QED
  BY <1>2, <1>3 DEF RadiusParts, RadiusShape, AcceptSeen, PrintsOk

LEMMA RadiusNextKeeps == RadiusInv /\ ReportedOnce /\ [Next]_demoVars => RadiusInv'
<1>. SUFFICES ASSUME RadiusInv, ReportedOnce, [Next]_demoVars, protocol' = "radius"
              PROVE  RadiusParts'
  BY DEF RadiusInv
<1>1. SettingsStay /\ protocol = "radius"
  BY SettingsKept DEF SettingsStay
<1>2. RadiusParts /\ RadiusShape /\ Sequences
  BY <1>1 DEF RadiusInv, RadiusParts, RadiusShape
<1>3. CASE UNCHANGED demoVars
  BY <1>2, <1>3 DEF demoVars, RadiusParts, RadiusShape, Sequences, Pair, AcceptSeen, PrintsOk
<1>4. CASE Lose \/ Duplicate \/ OtherSends(RadiusOtherMessages)
  <2>1. UNCHANGED <<scenario, at, results, mem>>
    BY <1>4 DEF Lose, Duplicate, OtherSends, settingVars
  <2>2. /\ Sequences' /\ Range(net'.client) \subseteq Range(net.client)
        /\ Range(net'.server) \subseteq Range(net.server) \cup RadiusOtherMessages
    BY <1>2, <1>4, Disturbed
  <2>3. \A m \in RadiusOtherMessages : m.from # "nobody"
    BY DEF RadiusOtherMessages, AccessRequest, AccountingRequest
  <2>4. QED
    BY <1>2, <2>1, <2>2, <2>3 DEF RadiusParts, RadiusShape, AcceptSeen, PrintsOk
<1>5. RadiusServer \/ RadiusClient \/ Lose \/ Duplicate \/ OtherSends(RadiusOtherMessages)
        \/ UNCHANGED demoVars
  BY <1>1 DEF Next, Server, Client, Strangers, TcpFamily, WebFamily
<1>6. RadiusServer => at.server # "exit"
  BY DEF RadiusServer, RadiusServerRequest, RadiusServerIgnores, RadiusServerAccounting,
         RadiusServerFails
<1>7. QED
  BY <1>1, <1>2, <1>3, <1>4, <1>5, <1>6, RadiusServerNext, RadiusClientNext

-----------------------------------------------------------------------------
(***************************************************************************)
(* The protocols in which a message says that the server has reported OK,  *)
(* and without which the client does not.                                  *)
(***************************************************************************)
SipRegisters == scenario \notin {"invite-bye", "replay-invite"}

Closing ==
  \/ protocol \in {"quic-like", "dns", "http-basic", "websocket-basic"} \cup TcpFamily
  \/ protocol = "sip" /\ SipRegisters

Closes(m) ==
  CASE protocol = "quic-like" -> m.type = "CLOSE"
    [] protocol \in TcpFamily -> m.type = "TERMINATE"
    [] protocol = "http-basic" -> m = 201
    [] protocol = "websocket-basic" -> m.opcode = "CLOSE"
    [] OTHER -> TRUE

ClosedParts ==
  /\ Sequences
  /\ \A m \in Range(net.client) : Closes(m) => PrintsOk("server")
  /\ PrintsOk("client") => PrintsOk("server")
  /\ protocol = "sip" =>
       /\ at.client \in {"start", "registered", "exit"}
       /\ \A m \in Range(net.server) : m.from = "client" => m.method = "REGISTER"

ClosedInv == Closing => ClosedParts

\* What a step of the server sends, and what one of the client makes of it.
Sayable(msgs) == IsSeq(msgs) /\ \A m \in Range(msgs) : Closes(m) => Finish("server", OK)
ServerCloses ==
  /\ Sequences' /\ Range(net'.server) \subseteq Range(net.server)
  /\ \A m \in Range(net'.client) : m \in Range(net.client) \/ (Closes(m) => Finish("server", OK))
ClientHears ==
  /\ Sequences' /\ Range(net'.client) \subseteq Range(net.client)
  /\ UNCHANGED results \/ Finish("client", ABORT) \/ \E m \in Range(net.client) : Closes(m)

LEMMA SayableOne ==
  /\ Sayable(<<>>)
  /\ \A m : (Closes(m) => Finish("server", OK)) => Sayable(<<m>>)
BY ShortSeqs DEF Sayable

LEMMA SaysCloses ==
  ASSUME Sequences, NEW msgs, Sayable(msgs),
         Send("server", msgs) \/ \E i \in DOMAIN net.server : Exchange("server", i, msgs)
  PROVE  ServerCloses
<1>1. IsSeq(msgs)
  BY DEF Sayable
<1>2. /\ Sequences' /\ Range(net'.server) \subseteq Range(net.server)
      /\ Range(net'.client) = Range(net.client) \cup Range(msgs)
  BY <1>1, ServerTrades, ServerAdds
<1>3. QED
  BY <1>2 DEF Sayable, ServerCloses

LEMMA KeepsCloses ==
  ASSUME Sequences, net' = net
  PROVE  ServerCloses /\ Sequences' /\ Range(net'.client) \subseteq Range(net.client)
BY DEF Sequences, Pair, ServerCloses

LEMMA HearsIs ==
  ASSUME Sequences, NEW msgs, IsSeq(msgs),
         Send("client", msgs) \/ \E i \in DOMAIN net.client : Exchange("client", i, msgs)
  PROVE  /\ Sequences' /\ Range(net'.client) \subseteq Range(net.client)
         /\ Range(net'.server) = Range(net.server) \cup Range(msgs)
BY ClientTrades, ClientAdds

\* One message is taken, with what has come with it.
LEMMA ReceivedOne ==
  ASSUME Sequences, NEW msgs, IsSeq(msgs)
  PROVE  /\ ReceiveOne("client", msgs) =>
              /\ Sequences' /\ Range(net'.client) \subseteq Range(net.client)
              /\ Range(net'.server) = Range(net.server) \cup Range(msgs)
         /\ ReceiveOne("server", msgs) =>
              /\ Sequences' /\ Range(net'.server) \subseteq Range(net.server)
              /\ Range(net'.client) = Range(net.client) \cup Range(msgs)
<1>1. /\ net = [server |-> net.server, client |-> net.client]
      /\ IsSeq(net.server) /\ IsSeq(net.client)
  BY DEF Sequences, Pair
<1>2. /\ IsSeq(net.server \o msgs) /\ Range(net.server \o msgs) = Range(net.server) \cup Range(msgs)
      /\ IsSeq(net.client \o msgs) /\ Range(net.client \o msgs) = Range(net.client) \cup Range(msgs)
  BY <1>1, Joined
<1>3. ASSUME ReceiveOne("client", msgs)
      PROVE  /\ Sequences' /\ Range(net'.client) \subseteq Range(net.client)
             /\ Range(net'.server) = Range(net.server) \cup Range(msgs)
  <2>1. PICK k \in DOMAIN net.client :
          net' = [net EXCEPT !["client"] = SubSeq(net["client"], k + 1, Len(net["client"])),
                             !["server"] = net["server"] \o msgs]
    BY <1>3, OtherIs DEF ReceiveOne
  <2>2. k \in Nat
    BY <1>1, <2>1, SeqIs
  <2>. DEFINE back == SubSeq(net.client, k + 1, Len(net.client))
  <2>3. IsSeq(back) /\ Range(back) \subseteq Range(net.client)
    BY <1>1, <2>2, BackOf
  <2>4. net' = [server |-> net.server \o msgs, client |-> back]
    BY <1>1, <2>1
  <2>. HIDE DEF back
  <2>5. QED
    BY <1>2, <2>3, <2>4 DEF Sequences, Pair
<1>4. ASSUME ReceiveOne("server", msgs)
      PROVE  /\ Sequences' /\ Range(net'.server) \subseteq Range(net.server)
             /\ Range(net'.client) = Range(net.client) \cup Range(msgs)
  <2>1. PICK k \in DOMAIN net.server :
          net' = [net EXCEPT !["server"] = SubSeq(net["server"], k + 1, Len(net["server"])),
                             !["client"] = net["client"] \o msgs]
    BY <1>4, OtherIs DEF ReceiveOne
  <2>2. k \in Nat
    BY <1>1, <2>1, SeqIs
  <2>. DEFINE back == SubSeq(net.server, k + 1, Len(net.server))
  <2>3. IsSeq(back) /\ Range(back) \subseteq Range(net.server)
    BY <1>1, <2>2, BackOf
  <2>4. net' = [server |-> back, client |-> net.client \o msgs]
    BY <1>1, <2>1
  <2>. HIDE DEF back
  <2>5. QED
    BY <1>2, <2>3, <2>4 DEF Sequences, Pair
<1>5. QED
  BY <1>3, <1>4

LEMMA FirstIn ==
  ASSUME Sequences
  PROVE  \A p \in Programs : net[p] # <<>> => 1 \in DOMAIN net[p] /\ Head(net[p]) = net[p][1]
                                              /\ Head(net[p]) \in Range(net[p])
BY SeqIs DEF Sequences, Programs

LEMMA QuicServerCloses ==
  ASSUME protocol = "quic-like", Sequences, QuicServer
  PROVE  ServerCloses
<1>1. /\ Sayable(<<>>) /\ Sayable(<<Packet("HANDSHAKE", "server")>>)
      /\ \A id, seq, payload : Sayable(<<StreamPacket(id, seq, payload)>>)
      /\ Finish("server", OK) => Sayable(<<ClosePacket(original)>>)
  BY SayableOne DEF Closes, Packet, StreamPacket, ClosePacket
<1>2. Arriving("server") \subseteq DOMAIN net.server
  BY ArrivingIs
<1>3. \A i, k, peer : QuicGoesOn(i, k, peer) => \E msgs : Sayable(msgs) /\ Exchange("server", i, msgs)
  BY <1>1 DEF QuicGoesOn
<1>4. \/ net' = net
      \/ \E msgs : Sayable(msgs) /\ Send("server", msgs)
      \/ \E msgs : Sayable(msgs) /\ \E i \in DOMAIN net.server : Exchange("server", i, msgs)
  <2>1. CASE QuicServerInitial
    BY <1>1, <1>2, <2>1 DEF QuicServerInitial
  <2>2. CASE QuicServerZeroRtt
    BY <1>1, <1>2, <2>2 DEF QuicServerZeroRtt
  <2>3. CASE QuicServerNoZeroRtt
    BY <1>1, <2>3 DEF QuicServerNoZeroRtt
  <2>4. CASE QuicServerHandshakeAck
    BY <1>1, <1>2, <1>3, <2>4 DEF QuicServerHandshakeAck
  <2>5. CASE QuicServerAck
    BY <1>1, <1>2, <1>3, <2>5 DEF QuicServerAck
  <2>6. CASE QuicServerFails
    BY <2>6 DEF QuicServerFails
  <2>7. QED
    BY <2>1, <2>2, <2>3, <2>4, <2>5, <2>6 DEF QuicServer
<1>5. QED
  BY <1>4, SaysCloses, KeepsCloses

LEMMA QuicClientHears ==
  ASSUME protocol = "quic-like", Sequences, QuicClient
  PROVE  ClientHears
<1>1. Arriving("client") \subseteq DOMAIN net.client
  BY ArrivingIs
<1>2. IsSeq(<<>>) /\ (\A x : IsSeq(<<x>>)) /\ (\A x, y : IsSeq(<<x, y>>))
  BY ShortSeqs
<1>0. \A x, y : IsSeq(<<x>> \o <<y>>) /\ IsSeq(<<x>> \o <<>>)
  BY <1>2, Joined
<1>3. \/ net' = net
      \/ \E msgs : IsSeq(msgs) /\ Send("client", msgs)
      \/ \E msgs : IsSeq(msgs) /\ \E i \in DOMAIN net.client : Exchange("client", i, msgs)
  BY <1>0, <1>1, <1>2 DEF QuicClient, QuicClientStart, QuicClientHandshake, QuicClientStream,
     QuicClientClose, QuicClientIgnores, QuicClientFails
<1>4. UNCHANGED results \/ Finish("client", ABORT) \/ \E m \in Range(net.client) : Closes(m)
  <2>1. CASE QuicClientClose
    <3>1. PICK i \in DOMAIN net.client : net.client[i].type = "CLOSE"
      BY <1>1, <2>1 DEF QuicClientClose
    <3>2. net.client[i] \in Range(net.client) /\ Closes(net.client[i])
      BY <3>1 DEF Closes, Range, TcpFamily
    <3>3. QED
      BY <3>2
  <2>2. CASE ~QuicClientClose
    BY <2>2 DEF QuicClient, QuicClientStart, QuicClientHandshake, QuicClientStream,
       QuicClientIgnores, QuicClientFails, Goto
  <2>3. QED
    BY <2>1, <2>2
<1>5. QED
  BY <1>3, <1>4, HearsIs, KeepsCloses DEF ClientHears

LEMMA DnsCloses ==
  ASSUME protocol = "dns", Sequences
  PROVE  (DnsServer => ServerCloses) /\ (DnsClient => ClientHears)
<1>1. IsSeq(DnsAnswers)
  BY ShortSeqs DEF DnsAnswers
<1>2. \A p : Arriving(p) \subseteq DOMAIN net[p]
  BY ArrivingIs
<1>3. ASSUME DnsServer
      PROVE  ServerCloses
  <2>1. CASE DnsServerQuery
    <3>1. PICK i \in DOMAIN net.server :
            Exchange("server", i, IF net.server[i].from = "client" THEN DnsAnswers ELSE <<>>)
      BY <1>2, <2>1 DEF DnsServerQuery
    <3>2. Finish("server", OK)
      BY <2>1 DEF DnsServerQuery
    <3>3. Sayable(DnsAnswers) /\ Sayable(<<>>)
      BY <1>1, <3>2, SayableOne DEF Sayable
    <3>4. \E msgs : Sayable(msgs) /\ Exchange("server", i, msgs)
      BY <3>1, <3>3
    <3>5. QED
      BY <3>4, SaysCloses
  <2>2. CASE DnsServerFails
    BY <2>2, KeepsCloses DEF DnsServerFails
  <2>3. QED
    BY <1>3, <2>1, <2>2 DEF DnsServer
<1>4. ASSUME DnsClient
      PROVE  ClientHears
  <2>1. \/ net' = net
        \/ \E msgs : IsSeq(msgs) /\ Send("client", msgs)
        \/ \E msgs : IsSeq(msgs) /\ \E i \in DOMAIN net.client : Exchange("client", i, msgs)
    BY <1>2, <1>4, ShortSeqs DEF DnsClient, DnsClientStart, DnsClientResponse, DnsClientFails
  <2>2. UNCHANGED results \/ Finish("client", ABORT) \/ \E m \in Range(net.client) : Closes(m)
    <3>1. CASE DnsClientResponse
      <4>1. PICK i \in DOMAIN net.client : TRUE
        BY <1>2, <3>1 DEF DnsClientResponse
      <4>2. Closes(net.client[i]) /\ net.client[i] \in Range(net.client)
        BY <4>1 DEF Closes, Range, TcpFamily
      <4>3. QED
        BY <4>2
    <3>2. CASE ~DnsClientResponse
      BY <1>4, <3>2 DEF DnsClient, DnsClientStart, DnsClientFails, Goto
    <3>3. QED
      BY <3>1, <3>2
  <2>3. QED
    BY <2>1, <2>2, HearsIs, KeepsCloses DEF ClientHears
<1>5. QED
  BY <1>3, <1>4

LEMMA SipReplies ==
  ASSUME NEW m, NEW codes \in Seq(Nat)
  PROVE  /\ IsSeq(SipReply(m, codes))
         /\ m.from # "client" => SipReply(m, codes) = <<>>
<1>. DEFINE f == [i \in DOMAIN codes |-> SipStatus(codes[i])]
<1>1. f \in Seq(Range(f))
  BY DEF Range
<1>2. QED
  BY <1>1, ShortSeqs DEF IsSeq, SipReply

LEMMA SipServerCloses ==
  ASSUME protocol = "sip", SipRegisters, ClosedParts, SipServer
  PROVE  ServerCloses
<1>1. /\ \A i \in Arriving("server") : i \in DOMAIN net.server
      /\ \A i \in DOMAIN net.server : net.server[i].from = "client" => net.server[i].method = "REGISTER"
  BY ArrivingIs DEF ClosedParts, Range
<1>2. <<200>> \in Seq(Nat) /\ <<100, 180, 200>> \in Seq(Nat)
  OBVIOUS
<1>3. CASE SipServerRegister
  <2>1. PICK i \in DOMAIN net.server : Exchange("server", i, SipReply(net.server[i], <<200>>))
    BY <1>1, <1>3 DEF SipServerRegister
  <2>2. Finish("server", OK)
    BY <1>3 DEF SipServerRegister, SipRegisters
  <2>3. Sayable(SipReply(net.server[i], <<200>>))
    BY <1>2, <2>2, SipReplies DEF Sayable
  <2>4. QED
    BY <2>1, <2>3, SaysCloses DEF ClosedParts
<1>4. CASE SipServerInvite \/ SipServerAckOrBye
  <2>1. PICK i \in DOMAIN net.server :
          /\ net.server[i].method \in {"INVITE", "ACK", "BYE"}
          /\ \/ Exchange("server", i, SipReply(net.server[i], <<100, 180, 200>>))
             \/ Exchange("server", i, SipReply(net.server[i], <<200>>))
             \/ Exchange("server", i, <<>>)
    BY <1>1, <1>4 DEF SipServerInvite, SipServerAckOrBye
  <2>2. net.server[i].from # "client"
    BY <1>1, <2>1
  <2>3. Exchange("server", i, <<>>)
    BY ZenonT(60), <1>2, <2>1, <2>2, SipReplies
  <2>4. QED
    BY <2>3, SayableOne, SaysCloses DEF ClosedParts
<1>5. CASE SipServerFails
  BY <1>5, KeepsCloses DEF SipServerFails, ClosedParts
<1>6. QED
  BY <1>3, <1>4, <1>5 DEF SipServer

LEMMA SipClientHears ==
  ASSUME protocol = "sip", SipRegisters, ClosedParts, ReportedOnce, SipClient
  PROVE  /\ ClientHears
         /\ at'.client \in {"start", "registered", "exit"}
         /\ \A m \in Range(net'.server) : m.from = "client" => m.method = "REGISTER"
<1>1. /\ \A i \in Arriving("client") : i \in DOMAIN net.client
      /\ \A i \in DOMAIN net.client : Closes(net.client[i]) /\ net.client[i] \in Range(net.client)
      /\ Pair(at) /\ Pair(results) /\ Sequences /\ at.client \in {"start", "registered", "exit"}
  BY ArrivingIs DEF ClosedParts, Range, Closes, TcpFamily, ReportedOnce
<1>2. SipClientStart \/ SipClientRegistered \/ SipClientNotRegistered
  BY <1>1 DEF SipClient, SipClientInvited, SipClientInviteFails, SipClientBye
<1>3. /\ at'.client \in {"start", "registered", "exit"}
      /\ UNCHANGED results \/ Finish("client", ABORT) \/ \E m \in Range(net.client) : Closes(m)
  <2>1. CASE SipClientStart
    BY <1>1, <2>1, Moves DEF SipClientStart
  <2>2. CASE SipClientRegistered
    <3>1. Finish("client", OK) /\ \E i \in DOMAIN net.client : TRUE
      BY <1>1, <2>2 DEF SipClientRegistered, SipRegisters
    <3>2. QED
      BY <1>1, <3>1, Moves
  <2>3. CASE SipClientNotRegistered
    BY <1>1, <2>3, Moves DEF SipClientNotRegistered
  <2>4. QED
    BY <1>2, <2>1, <2>2, <2>3
<1>4. \/ net' = net
      \/ Send("client", <<SipRequest("REGISTER", "client")>>)
      \/ \E i \in DOMAIN net.client : Exchange("client", i, <<>>)
  BY <1>1, <1>2 DEF SipClientStart, SipClientRegistered, SipClientNotRegistered, SipRegisters
<1>5. CASE net' = net
  BY <1>1, <1>3, <1>5, KeepsCloses DEF ClientHears, ClosedParts
<1>6. CASE Send("client", <<SipRequest("REGISTER", "client")>>)
  <2>. DEFINE ask == <<SipRequest("REGISTER", "client")>>
  <2>1. IsSeq(ask) /\ \A m \in Range(ask) : m.method = "REGISTER"
    BY ShortSeqs DEF SipRequest
  <2>. HIDE DEF ask
  <2>2. /\ Sequences' /\ Range(net'.client) \subseteq Range(net.client)
        /\ Range(net'.server) = Range(net.server) \cup Range(ask)
    BY <1>1, <1>6, <2>1, HearsIs DEF ask
  <2>3. QED
    BY <1>3, <2>1, <2>2 DEF ClientHears, ClosedParts
<1>7. CASE \E i \in DOMAIN net.client : Exchange("client", i, <<>>)
  <2>. DEFINE nothing == <<>>
  <2>1. IsSeq(nothing) /\ Range(nothing) = {}
    BY ShortSeqs
  <2>2. \E i \in DOMAIN net.client : Exchange("client", i, nothing)
    BY <1>7
  <2>. HIDE DEF nothing
  <2>3. /\ Sequences' /\ Range(net'.client) \subseteq Range(net.client)
        /\ Range(net'.server) = Range(net.server) \cup Range(nothing)
    BY <1>1, <2>1, <2>2, HearsIs
  <2>4. QED
    BY <1>3, <2>1, <2>3 DEF ClientHears, ClosedParts
<1>8. QED
  BY <1>3, <1>4, <1>5, <1>6, <1>7

LEMMA HttpServerCloses ==
  ASSUME protocol = "http-basic", Sequences, mem \in HttpMem, WebServer
  PROVE  ServerCloses
<1>1. net.server # <<>> => 1 \in DOMAIN net.server
  BY FirstIn DEF Programs
<1>2. CASE WebServerServes
  <2>. DEFINE m == Head(net.server)
  <2>1. /\ 1 \in DOMAIN net.server
        /\ Exchange("server", 1, IF m.from = "client" THEN <<HttpStatus(m)>> ELSE <<>>)
        /\ mem' = IF HttpStatus(m) >= 400 THEN mem ELSE HttpServed(m)
        /\ IF HttpStatus(m) >= 400 \/ mem'.step = LastStep \/ "server" \in stopped'
           THEN Finish("server", WebResult(mem'.step))
           ELSE Goto("server", "accept")
    BY <1>1, <1>2 DEF WebServerServes, WebStatus, WebServed
  <2>2. ASSUME HttpStatus(m) = 201
        PROVE  Finish("server", OK)
    <3>1. m.path = "upload" /\ ~(HttpStatus(m) >= 400)
      BY <2>2 DEF HttpStatus
    <3>2. mem'.step = 3
      BY <2>1, <3>1 DEF HttpServed, HttpMem
    <3>3. QED
      BY <2>1, <3>1, <3>2 DEF LastStep, WebResult
  <2>. HIDE DEF m
  <2>3. Closes(HttpStatus(m)) => HttpStatus(m) = 201
    BY DEF Closes, TcpFamily
  <2>4. Sayable(<<HttpStatus(m)>>) /\ Sayable(<<>>)
    BY <2>2, <2>3, SayableOne
  <2>5. QED
    BY <2>1, <2>4, SaysCloses
<1>3. CASE WebServerInterrupted
  <2>1. Sayable(<<400>>) /\ Sayable(<<>>)
    <3>1. ~Closes(400)
      BY DEF Closes, TcpFamily
    <3>2. QED
      BY <3>1, SayableOne
  <2>2. \/ net' = net
        \/ /\ 1 \in DOMAIN net.server
           /\ Exchange("server", 1, IF Head(net.server).from = "client" THEN <<400>> ELSE <<>>)
    BY <1>1, <1>3 DEF WebServerInterrupted
  <2>3. QED
    BY <2>1, <2>2, SaysCloses, KeepsCloses
<1>4. QED
  BY <1>2, <1>3 DEF WebServer

\* Only the upload at the end of the script is answered with 201.
LEMMA HttpScriptEnds ==
  ASSUME protocol = "http-basic", scenario \in HttpScenarios, ScriptEndsOk
  PROVE  Len(Script) = 3 /\ Script[3].status = 201
BY DEF Script, HttpScript, HttpScenarios, ScriptEndsOk

LEMMA WebClientMoves ==
  ASSUME Sequences, WebClient
  PROVE  Sequences' /\ Range(net'.client) \subseteq Range(net.client)
<1>1. net.client # <<>> => 1 \in DOMAIN net.client
  BY FirstIn DEF Programs
<1>2. IsSeq(<<>>) /\ \A x : IsSeq(<<x>>)
  BY ShortSeqs
<1>3. \/ net' = net
      \/ \E msgs : IsSeq(msgs) /\ Send("client", msgs)
      \/ \E msgs : IsSeq(msgs) /\ \E i \in DOMAIN net.client : Exchange("client", i, msgs)
  BY <1>1, <1>2 DEF WebClient, WebClientStart, WebClientResponse, WebClientFails
<1>4. QED
  BY <1>3, HearsIs, KeepsCloses

LEMMA HttpClientHears ==
  ASSUME protocol = "http-basic", Sequences, scenario \in HttpScenarios, WebClient
  PROVE  ClientHears
<1>1. UNCHANGED results \/ Finish("client", ABORT) \/ \E m \in Range(net.client) : Closes(m)
  <2>1. CASE WebClientResponse /\ ScriptEndsOk
    <3>1. \/ UNCHANGED results \/ Finish("client", ABORT)
          \/ /\ net.client # <<>> /\ mem.asked = Len(Script)
             /\ Head(net.client) = Script[mem.asked].status
      BY <2>1 DEF WebClientResponse, Goto
    <3>2. ASSUME net.client # <<>>, mem.asked = Len(Script),
                 Head(net.client) = Script[mem.asked].status
          PROVE  \E m \in Range(net.client) : Closes(m)
      <4>1. Head(net.client) \in Range(net.client)
        BY <3>2, FirstIn DEF Programs
      <4>2. Head(net.client) = 201
        <5>1. Len(Script) = 3 /\ Script[3].status = 201
          BY <2>1, HttpScriptEnds
        <5>2. QED
          BY <3>2, <5>1
      <4>3. QED
        BY <4>1, <4>2 DEF Closes, TcpFamily
    <3>3. QED
      BY <3>1, <3>2
  <2>2. CASE ~(WebClientResponse /\ ScriptEndsOk)
    BY <2>2 DEF WebClient, WebClientStart, WebClientResponse, WebClientFails, Goto
  <2>3. QED
    BY <2>1, <2>2
<1>2. QED
  BY <1>1, WebClientMoves DEF ClientHears

LEMMA WsServerCloses ==
  ASSUME protocol = "websocket-basic", Sequences, content \in Seq(Data), WsServer
  PROVE  ServerCloses
<1>1. /\ \A m : m.opcode # "CLOSE" => ~Closes(m)
      /\ net.server # <<>> => 1 \in DOMAIN net.server
  BY FirstIn DEF Closes, TcpFamily, Programs
<1>2. /\ Sayable(<<>>) /\ Sayable(<<WsFrame("101")>>) /\ Sayable(<<WsFrame("400")>>)
      /\ Finish("server", OK) => Sayable(<<WsFrame("CLOSE")>>)
  BY <1>1, SayableOne DEF WsFrame
<1>3. Sayable(WsText) /\ Sayable(Append(WsText, WsFrame("PING")))
  <2>1. IsSeq(WsText) /\ \A m \in Range(WsText) : m.opcode = "TEXT"
    <3>1. /\ WsText \in Seq(WsMessages) /\ Len(WsText) \in Nat
          /\ \A k \in 1..Len(WsText) : WsText[k] = TextFrame(content[k])
      BY TextIs
    <3>2. IsSeq(WsText)
      BY <3>1, SeqsOf
    <3>3. \A unit : TextFrame(unit).opcode = "TEXT"
      BY DEF TextFrame
    <3>. HIDE DEF WsText
    <3>4. DOMAIN WsText = 1..Len(WsText)
      BY <3>1
    <3>5. \A k \in DOMAIN WsText : WsText[k].opcode = "TEXT"
      BY <3>1, <3>3, <3>4
    <3>6. QED
      BY <3>2, <3>5 DEF Range
  <2>2. /\ IsSeq(Append(WsText, WsFrame("PING")))
        /\ Range(Append(WsText, WsFrame("PING"))) = Range(WsText) \cup {WsFrame("PING")}
    BY <2>1, Extended
  <2>3. WsFrame("PING").opcode = "PING"
    BY DEF WsFrame
  <2>4. QED
    BY <1>1, <2>1, <2>2, <2>3 DEF Sayable
<1>4. \/ net' = net
      \/ \E msgs : Sayable(msgs) /\ Send("server", msgs)
      \/ \E msgs : Sayable(msgs) /\ \E i \in DOMAIN net.server : Exchange("server", i, msgs)
  <2>1. CASE WsServerUpgrade
    BY <1>1, <1>2, <2>1 DEF WsServerUpgrade
  <2>2. CASE WsServerSendsText
    BY <1>3, <2>2 DEF WsServerSendsText
  <2>3. CASE WsServerPong
    BY <1>1, <1>2, <2>3 DEF WsServerPong
  <2>4. CASE WsServerSendBreaks \/ WsServerFails
    BY <2>4 DEF WsServerSendBreaks, WsServerFails
  <2>5. QED
    BY <2>1, <2>2, <2>3, <2>4 DEF WsServer
<1>5. QED
  BY <1>4, SaysCloses, KeepsCloses

LEMMA WsClientHears ==
  ASSUME protocol = "websocket-basic", Sequences, WsClient
  PROVE  ClientHears
<1>1. net.client # <<>> => 1 \in DOMAIN net.client /\ Head(net.client) \in Range(net.client)
  BY FirstIn DEF Programs
<1>2. IsSeq(<<>>) /\ (\A x : IsSeq(<<x>>)) /\ (\A x, y : IsSeq(<<x, y>>))
  BY ShortSeqs
<1>3. Sequences' /\ Range(net'.client) \subseteq Range(net.client)
  <2>1. CASE WsClientUpgraded
    <3>1. ReceiveOne("client", <<>>)
      BY <2>1 DEF WsClientUpgraded
    <3>2. QED
      BY <3>1, ShortSeqs, ReceivedOne
  <2>2. CASE ~WsClientUpgraded
    <3>1. \/ net' = net
          \/ \E msgs : IsSeq(msgs) /\ Send("client", msgs)
          \/ \E msgs : IsSeq(msgs) /\ \E i \in DOMAIN net.client : Exchange("client", i, msgs)
      BY <1>1, <1>2, <2>2 DEF WsClient, WsClientStart, WsClientText, WsClientPing, WsClientClose,
         WsClientFails
    <3>2. QED
      BY <3>1, HearsIs, KeepsCloses
  <2>3. QED
    BY <2>1, <2>2
<1>4. UNCHANGED results \/ Finish("client", ABORT) \/ \E m \in Range(net.client) : Closes(m)
  <2>1. CASE WsClientClose
    BY <1>1, <2>1 DEF WsClientClose, Closes, TcpFamily
  <2>2. CASE ~WsClientClose
    BY <2>2 DEF WsClient, WsClientStart, WsClientUpgraded, WsClientText, WsClientPing,
       WsClientFails, WsClientNextFrame, SendBreaks, Goto, Killed
  <2>3. QED
    BY <2>1, <2>2
<1>5. QED
  BY <1>3, <1>4 DEF ClientHears

LEMMA TcpServerCloses ==
  ASSUME protocol \in TcpFamily, Sequences, TcpServer
  PROVE  ServerCloses
<1>1. /\ \A m : m.type # "TERMINATE" => ~Closes(m)
      /\ net.server # <<>> => 1 \in DOMAIN net.server
  BY FirstIn DEF Closes, TcpFamily, Programs
<1>2. /\ Sayable(<<>>) /\ Sayable(<<Frame("PASS_REQ")>>) /\ Sayable(<<Frame("PASS_ACCEPT")>>)
      /\ Sayable(<<Frame("REJECT")>>) /\ Sayable(<<Frame("SERVER_HELLO")>>)
      /\ \A mac : Sayable(<<FinishedFrame(mac)>>)
      /\ \A digest : Finish("server", OK) => Sayable(<<TerminateFrame(digest)>>)
  BY <1>1, SayableOne DEF Frame, FinishedFrame
<1>3. \A k : Sayable(TcpFrames(k))
  <2>1. /\ \A seq, unit, mac : ~Closes(AppData(seq, unit, mac))
        /\ \A unit : ~Closes(DataFrame(unit))
    BY <1>1 DEF AppData, DataFrame
  <2>2. /\ \A seq, unit, mac : Sayable(<<AppData(seq, unit, mac)>>)
                               /\ Sayable(<<AppData(seq, unit, mac), AppData(seq, unit, mac)>>)
        /\ \A unit : Sayable(<<DataFrame(unit)>>)
    BY <2>1, SayableOne, ShortSeqs DEF Sayable
  <2>3. QED
    BY <2>2 DEF TcpFrames
<1>4. \/ net' = net
      \/ \E msgs : Sayable(msgs) /\ Send("server", msgs)
      \/ \E msgs : Sayable(msgs) /\ \E i \in DOMAIN net.server : Exchange("server", i, msgs)
  <2>1. CASE TcpServerJoin
    BY <1>1, <1>2, <2>1 DEF TcpServerJoin
  <2>2. CASE TcpServerPassword
    BY <1>1, <1>2, <2>2 DEF TcpServerPassword
  <2>3. CASE TcpServerUnexpected
    BY <1>1, <1>2, <2>3 DEF TcpServerUnexpected
  <2>4. CASE TlsServerHello \/ TlsServerFinished
    BY <1>1, <1>2, <2>4 DEF TlsServerHello, TlsServerFinished
  <2>5. CASE TcpServerSendsUnit
    BY <1>3, <2>5 DEF TcpServerSendsUnit
  <2>6. CASE TcpServerTerminates
    BY <1>2, <2>6 DEF TcpServerTerminates
  <2>7. CASE TcpServerReceiveFails \/ TcpServerSendBreaks
    BY <2>7 DEF TcpServerReceiveFails, TcpServerSendBreaks
  <2>8. QED
    BY <2>1, <2>2, <2>3, <2>4, <2>5, <2>6, <2>7 DEF TcpServer
<1>5. QED
  BY <1>4, SaysCloses, KeepsCloses

\* The client takes no message or one.
LEMMA TcpClientTakes ==
  ASSUME Sequences, NEW taken \in {0, 1}, NEW msgs, IsSeq(msgs), TcpClientSends(taken, msgs)
  PROVE  Sequences' /\ Range(net'.client) \subseteq Range(net.client)
<1>1. /\ net = [server |-> net.server, client |-> net.client]
      /\ IsSeq(net.server) /\ IsSeq(net.client) /\ taken \in Nat
  BY DEF Sequences, Pair
<1>. DEFINE back == SubSeq(net.client, taken + 1, Len(net.client))
            grown == net.server \o msgs
<1>2. IsSeq(back) /\ Range(back) \subseteq Range(net.client) /\ IsSeq(grown)
  BY <1>1, BackOf, Joined
<1>3. net' = [server |-> grown, client |-> back]
  BY <1>1 DEF TcpClientSends
<1>. HIDE DEF back, grown
<1>4. QED
  BY <1>2, <1>3 DEF Sequences, Pair

LEMMA TcpClientHears ==
  ASSUME protocol \in TcpFamily, Sequences, TcpClient
  PROVE  ClientHears
<1>1. net.client # <<>> => Head(net.client) \in Range(net.client)
  BY FirstIn DEF Programs
<1>2. /\ IsSeq(<<>>) /\ (\A x : IsSeq(<<x>>)) /\ (\A x, y : IsSeq(<<x>> \o <<y>>))
      /\ \A y : IsSeq(<<>> \o <<y>>)
  BY ShortSeqs, Joined
<1>3. \A taken, msgs : TcpClientTransfers(taken, msgs) \/ TcpClientNextRound(taken, msgs) =>
        /\ \/ TcpClientSends(taken, msgs) \/ TcpClientSends(taken, msgs \o <<Frame("CLIENT_HELLO")>>)
        /\ UNCHANGED results \/ Finish("client", ABORT)
  BY DEF TcpClientTransfers, TcpClientNextRound, Goto
<1>4. \/ net' = net
      \/ \E taken \in {0, 1} : \E msgs : IsSeq(msgs) /\ TcpClientSends(taken, msgs)
  <2>1. CASE TcpClientStart
    BY <1>2, <1>3, <2>1 DEF TcpClientStart
  <2>2. CASE TcpClientAuth
    <3>1. PICK msgs : /\ \/ msgs = <<>> \/ \E x : msgs = <<x>>
                      /\ \/ TcpClientSends(1, msgs)
                         \/ TcpClientTransfers(1, msgs) \/ TcpClientNextRound(1, msgs)
      BY <2>2 DEF TcpClientAuth
    <3>2. IsSeq(msgs) /\ IsSeq(msgs \o <<Frame("CLIENT_HELLO")>>)
      BY <1>2, <3>1
    <3>3. QED
      BY <1>3, <3>1, <3>2
  <2>3. CASE TlsClientHello \/ TlsClientFinished \/ TcpClientData \/ TcpClientTerminate
    BY <1>2, <2>3 DEF TlsClientHello, TlsClientFinished, TcpClientData, TcpClientTerminate
  <2>4. CASE TcpClientRefused \/ TcpClientReceiveFails
    BY <2>4 DEF TcpClientRefused, TcpClientReceiveFails
  <2>5. QED
    BY <2>1, <2>2, <2>3, <2>4 DEF TcpClient
<1>5. UNCHANGED results \/ Finish("client", ABORT) \/ \E m \in Range(net.client) : Closes(m)
  <2>1. CASE TcpClientTerminate
    BY <1>1, <2>1 DEF TcpClientTerminate, Closes, TcpFamily
  <2>2. CASE TcpClientStart \/ TcpClientAuth
    BY <1>3, <2>2 DEF TcpClientStart, TcpClientAuth
  <2>3. CASE \/ TcpClientRefused \/ TcpClientReceiveFails \/ TlsClientHello
             \/ TlsClientFinished \/ TcpClientData
    BY <2>3 DEF TcpClientRefused, TcpClientReceiveFails, TlsClientHello, TlsClientFinished,
       TcpClientData, TcpClientNextFrame, Goto
  <2>4. QED
    BY <2>1, <2>2, <2>3 DEF TcpClient
<1>6. QED
  BY <1>4, <1>5, TcpClientTakes, KeepsCloses DEF ClientHears

\* A success that has been reported stays so.
LEMMA OkStays ==
  ASSUME ReportedOnce
  PROVE  /\ \A p \in Programs : Acts(p) => \A q \in Programs : PrintsOk(q) => PrintsOk(q)'
         /\ Finish("server", OK) => PrintsOk("server")'
<1>1. ASSUME NEW p \in Programs, Acts(p)
      PROVE  \A q \in Programs : PrintsOk(q) => PrintsOk(q)'
  <2>1. CASE UNCHANGED <<at, results>>
    BY <2>1 DEF PrintsOk
  <2>2. CASE at[p] # "exit"
    <3>1. /\ p = "server" => ~PrintsOk("server") /\ results'.client = results.client
          /\ p = "client" => ~PrintsOk("client") /\ results'.server = results.server
      BY <1>1, <2>2, ReportIs, ReportsOk
    <3>2. QED
      BY <3>1 DEF Programs, PrintsOk
  <2>3. QED
    BY <1>1, <2>1, <2>2 DEF Acts
<1>2. ASSUME Finish("server", OK)
      PROVE  PrintsOk("server")'
  <2>1. results'.server = results.server \o OK
    BY <1>2, Moves DEF ReportedOnce
  <2>2. /\ IsSeq(<<>>) /\ IsSeq(OK) /\ IsSeq(ABORT) /\ "OK" \in Range(OK)
    BY ShortSeqs DEF OK, ABORT
  <2>3. IsSeq(ABORT \o ABORT)
    BY <2>2, Joined
  <2>4. IsSeq(results.server)
    BY <2>2, <2>3 DEF ReportedOnce, Printable
  <2>5. Range(results.server \o OK) = Range(results.server) \cup Range(OK)
    BY <2>2, <2>4, Joined
  <2>6. QED
    BY <2>1, <2>2, <2>5 DEF PrintsOk
<1>3. QED
  BY <1>1, <1>2

LEMMA ClosingStays ==
  ASSUME SettingsStay
  PROVE  (Closing <=> Closing') /\ (\A m : Closes(m)' <=> Closes(m)) /\ protocol' = protocol
BY DEF SettingsStay, Closing, SipRegisters, Closes

LEMMA ServerKeepsClosed ==
  ASSUME ClosedParts, ReportedOnce, SettingsStay, Acts("server"), ServerCloses
  PROVE  ClosedParts'
<1>1. /\ at'.client = at.client /\ results'.client = results.client
      /\ PrintsOk("server") => PrintsOk("server")'
  BY ReportIs, OkStays DEF Programs
<1>2. PrintsOk("client")' <=> PrintsOk("client")
  BY <1>1 DEF PrintsOk
<1>3. \A m \in Range(net'.client) : Closes(m) => PrintsOk("server")'
  BY <1>1, OkStays DEF ClosedParts, ServerCloses
<1>4. \A m \in Range(net'.client) : Closes(m)' => PrintsOk("server")'
  BY <1>3, ClosingStays
<1>5. Sequences' /\ Range(net'.server) \subseteq Range(net.server)
  BY DEF ServerCloses
<1>6. QED
  BY <1>1, <1>2, <1>4, <1>5, ClosingStays DEF ClosedParts

LEMMA ClientKeepsClosed ==
  ASSUME ClosedParts, ReportedOnce, SettingsStay, Acts("client"), ClientHears,
         protocol = "sip" =>
           /\ at'.client \in {"start", "registered", "exit"}
           /\ \A m \in Range(net'.server) : m.from = "client" => m.method = "REGISTER"
  PROVE  ClosedParts'
<1>1. results'.server = results.server
  BY ReportIs DEF Programs
<1>2. PrintsOk("server")' <=> PrintsOk("server")
  BY <1>1 DEF PrintsOk
<1>3. \A m \in Range(net'.client) : Closes(m)' => PrintsOk("server")'
  BY <1>2, ClosingStays DEF ClosedParts, ClientHears
<1>4. PrintsOk("client")' => PrintsOk("server")
  <2>1. CASE UNCHANGED results
    BY <2>1 DEF PrintsOk, ClosedParts
  <2>2. CASE Finish("client", ABORT)
    <3>1. CASE at.client = "exit"
      <4>1. UNCHANGED results
        BY <3>1 DEF Acts
      <4>2. QED
        BY <4>1 DEF PrintsOk, ClosedParts
    <3>2. CASE at.client # "exit"
      BY <2>2, <3>2, FinishReports DEF OK, ABORT
    <3>3. QED
      BY <3>1, <3>2
  <2>3. CASE \E m \in Range(net.client) : Closes(m)
    BY <2>3 DEF ClosedParts
  <2>4. QED
    BY <2>1, <2>2, <2>3 DEF ClientHears
<1>5. Sequences'
  BY DEF ClientHears
<1>6. QED
  BY <1>2, <1>3, <1>4, <1>5, ClosingStays DEF ClosedParts

\* What the network and the strangers do to it.
LEMMA NetworkKeepsClosed ==
  ASSUME Closing, ClosedParts, SettingsStay, Lose \/ Duplicate \/ Strangers
  PROVE  ClosedParts'
<1>1. UNCHANGED <<at, results>>
  BY NetworkActs
<1>2. \A messages : OtherSends(messages) => UNCHANGED results
  BY DEF OtherSends
<1>3. \/ Lose \/ Duplicate
      \/ \E messages : OtherSends(messages)
                       /\ (protocol = "sip" => \A m \in messages : m.from # "client")
  <2>1. \A m \in SipOtherMessages : m.from # "client"
    BY DEF SipOtherMessages, SipRequest
  <2>2. protocol # "packet"
    BY DEF Closing, TcpFamily
  <2>3. QED
    BY <2>1, <2>2 DEF Strangers
<1>4. /\ Sequences' /\ Range(net'.client) \subseteq Range(net.client)
      /\ protocol = "sip" =>
           \A m \in Range(net'.server) : m \in Range(net.server) \/ m.from # "client"
  BY <1>3, Disturbed DEF ClosedParts
<1>5. /\ PrintsOk("server")' <=> PrintsOk("server")
      /\ PrintsOk("client")' <=> PrintsOk("client")
  BY <1>1 DEF PrintsOk
<1>6. QED
  BY <1>1, <1>4, <1>5, ClosingStays DEF ClosedParts

LEMMA ClosedInitially == Init => ClosedInv
<1>. SUFFICES ASSUME Init, Closing
              PROVE  ClosedParts
  BY DEF ClosedInv
<1>1. QuicInit \/ SipInit \/ DnsInit \/ TcpInit \/ WebInit \/ WsInit
  BY DEF Init, RadiusInit, MqttInit, Http2Init, PacketInit, DigestInit, RequestInit, FramesInit,
         Closing, TcpFamily
<1>2. PICK place : ProgramsInit(place)
  BY <1>1 DEF QuicInit, SipInit, DnsInit, TcpInit, WebInit, WsInit
<1>3. /\ Pair(net) /\ net.server = <<>> /\ net.client = <<>> /\ results.client = <<>>
      /\ at.client = "start"
  BY <1>2, PlacesInit
<1>4. QED
  BY <1>3, ShortSeqs DEF ClosedParts, Sequences, PrintsOk

LEMMA ClosedNextKeeps ==
  ASSUME ClosedInv, ReportedOnce, HttpInv, WsInv, [Next]_demoVars
  PROVE  ClosedInv'
<1>. SUFFICES ASSUME Closing
              PROVE  ClosedParts'
  BY SettingsKept, ClosingStays DEF ClosedInv
<1>1. SettingsStay /\ ClosedParts /\ Sequences
  BY SettingsKept DEF ClosedInv, ClosedParts
<1>2. CASE UNCHANGED demoVars
  BY <1>1, <1>2 DEF demoVars, ClosedParts, Sequences, Pair, PrintsOk, Closes
<1>3. /\ Server => Acts("server") /\ ServerCloses
      /\ Client => /\ Acts("client") /\ ClientHears
                   /\ protocol = "sip" =>
                        /\ at'.client \in {"start", "registered", "exit"}
                        /\ \A m \in Range(net'.server) : m.from = "client" => m.method = "REGISTER"
  <2>1. CASE protocol = "quic-like"
    <3>1. (Server => QuicServer) /\ (Client => QuicClient)
      BY <2>1 DEF Server, Client, TcpFamily, WebFamily
    <3>2. QED
      BY <1>1, <2>1, <3>1, QuicActs, QuicServerCloses, QuicClientHears
  <2>2. CASE protocol = "dns"
    <3>1. (Server => DnsServer) /\ (Client => DnsClient)
      BY <2>2 DEF Server, Client, TcpFamily, WebFamily
    <3>2. QED
      BY <1>1, <2>2, <3>1, DnsActs, DnsCloses
  <2>3. CASE protocol = "sip"
    <3>1. (Server => SipServer) /\ (Client => SipClient) /\ SipRegisters
      BY <2>3 DEF Server, Client, TcpFamily, WebFamily, Closing
    <3>2. QED
      BY <1>1, <2>3, <3>1, SipActs, SipServerCloses, SipClientHears
  <2>4. CASE protocol \in TcpFamily
    <3>1. (Server => TcpServer) /\ (Client => TcpClient) /\ protocol # "sip"
      BY <2>4 DEF Server, Client, TcpFamily, WebFamily
    <3>2. QED
      BY <1>1, <2>4, <3>1, TcpServerActs, TcpClientActs, TcpServerCloses, TcpClientHears
  <2>5. CASE protocol = "http-basic"
    <3>1. (Server => WebServer) /\ (Client => WebClient)
      BY <2>5 DEF Server, Client, TcpFamily, WebFamily
    <3>2. mem \in HttpMem /\ scenario \in HttpScenarios
      BY <2>5 DEF HttpInv, HttpParts
    <3>3. QED
      BY <1>1, <2>5, <3>1, <3>2, WebActs, HttpServerCloses, HttpClientHears
  <2>6. CASE protocol = "websocket-basic"
    <3>1. (Server => WsServer) /\ (Client => WsClient)
      BY <2>6 DEF Server, Client, TcpFamily, WebFamily
    <3>2. content \in Seq(Data)
      BY <2>6 DEF WsInv
    <3>3. QED
      BY <1>1, <2>6, <3>1, <3>2, WsActs, WsServerCloses, WsClientHears
  <2>7. QED
    BY <2>1, <2>2, <2>3, <2>4, <2>5, <2>6 DEF Closing
<1>4. CASE Server
  BY <1>1, <1>3, <1>4, ServerKeepsClosed
<1>5. CASE Client
  BY <1>1, <1>3, <1>5, ClientKeepsClosed
<1>6. CASE Lose \/ Duplicate \/ Strangers
  BY <1>1, <1>6, NetworkKeepsClosed
<1>7. QED
  BY <1>2, <1>4, <1>5, <1>6 DEF Next

-----------------------------------------------------------------------------
(***************************************************************************)
(* Every step reports as above.                                            *)
(***************************************************************************)
LEMMA ReportedInitially == Init => ReportedOnce
<1>. SUFFICES ASSUME Init
              PROVE  ReportedOnce
  OBVIOUS
<1>1. (\E place : ProgramsInit(place)) \/ ProgramsAt([server |-> "update", client |-> "exit"])
  BY DEF Init, QuicInit, RadiusInit, SipInit, DnsInit, TcpInit, MqttInit, WebInit, WsInit,
         Http2Init, PacketInit, DigestInit, RequestInit, FramesInit
<1>2. Pair(at) /\ Pair(results) /\ results.server = <<>> /\ results.client = <<>>
  BY <1>1, PlacesInit DEF ProgramsAt, Programs, Pair
<1>3. QED
  BY <1>2 DEF ReportedOnce, Printable

LEMMA StepActs ==
  ASSUME RadiusInv
  PROVE  (Server => Acts("server")) /\ (Client => Acts("client"))
<1>1. protocol = "radius" => (RadiusServer => Acts("server")) /\ (RadiusClient => Acts("client"))
  BY RadiusActs DEF RadiusInv, RadiusParts
<1>2. Server => Acts("server")
  BY <1>1, QuicActs, SipActs, DnsActs, TcpServerActs, MqttActs, WebActs, WsActs, H2ServerActs,
     SharedActs DEF Server
<1>3. Client => Acts("client")
  BY <1>1, QuicActs, SipActs, DnsActs, TcpClientActs, MqttActs, WebActs, WsActs, H2ClientActs,
     SharedActs DEF Client
<1>4. QED
  BY <1>2, <1>3

LEMMA ReportedKept ==
  ASSUME ReportedOnce, RadiusInv, [Next]_demoVars
  PROVE  ReportedOnce'
<1>1. CASE Server \/ Client
  BY <1>1, StepActs, ReportIs DEF Programs
<1>2. CASE Lose \/ Duplicate \/ Strangers \/ UNCHANGED demoVars
  <2>1. UNCHANGED <<at, results>>
    BY <1>2, NetworkActs DEF demoVars
  <2>2. QED
    BY <2>1 DEF ReportedOnce, Pair
<1>3. QED
  BY <1>1, <1>2 DEF Next

\* The client of replay-invite never says OK, and what has no demo programs has no client that
\* reports.
Silent == protocol \in Shared \/ (protocol = "sip" /\ scenario = "replay-invite")
SilentInv == Silent => at.client # "bye" /\ ~PrintsOk("client")

LEMMA SilentInitially == Init => SilentInv
<1>. SUFFICES ASSUME Init
              PROVE  at.client # "bye" /\ ~PrintsOk("client")
  BY DEF SilentInv
<1>1. (\E place : ProgramsInit(place)) \/ ProgramsAt([server |-> "update", client |-> "exit"])
  BY DEF Init, QuicInit, RadiusInit, SipInit, DnsInit, TcpInit, MqttInit, WebInit, WsInit,
         Http2Init, PacketInit, DigestInit, RequestInit, FramesInit
<1>2. results.client = <<>> /\ at.client # "bye"
  BY <1>1, PlacesInit DEF ProgramsAt, Programs
<1>3. QED
  BY <1>2, ShortSeqs DEF PrintsOk

LEMMA SilentKept ==
  ASSUME SilentInv, ReportedOnce, RadiusInv, [Next]_demoVars
  PROVE  SilentInv'
<1>. SUFFICES ASSUME Silent
              PROVE  (at.client # "bye" /\ ~PrintsOk("client"))'
  BY SettingsKept DEF SilentInv, Silent, SettingsStay
<1>1. at.client # "bye" /\ ~PrintsOk("client") /\ Pair(at) /\ Pair(results)
  BY DEF SilentInv, ReportedOnce
<1>2. CASE at'.client = at.client /\ results'.client = results.client
  BY <1>1, <1>2 DEF PrintsOk
<1>3. CASE Server
  BY <1>2, <1>3, StepActs, ReportIs DEF Programs
<1>4. CASE Client
  <2>1. CASE protocol \in Shared
    <3>1. PacketSend \/ RequestBrowser \/ FrameBrowser
      BY <1>4, <2>1 DEF Client, Shared, TcpFamily, WebFamily
    <3>2. UNCHANGED results /\ (UNCHANGED at \/ Goto("client", "exit"))
      BY <3>1 DEF PacketSend, RequestBrowser, BrowserSends, BrowserLeaves, FrameBrowser,
         BrowserSendsFrame, FrameArrives, BrowserClosesSocket, Goto
    <3>3. at'.client # "bye"
      BY <1>1, <3>2, Moves
    <3>4. QED
      BY <1>1, <3>2, <3>3 DEF PrintsOk
  <2>2. CASE protocol = "sip" /\ scenario = "replay-invite"
    <3>1. SipClient
      BY <1>4, <2>2 DEF Client, TcpFamily, WebFamily
    <3>2. /\ at.client # "exit"
          /\ (\E place : place # "bye" /\ Goto("client", place)) \/ Finish("client", ABORT)
      BY <1>1, <2>2, <3>1 DEF SipClient, SipClientStart, SipClientRegistered,
         SipClientNotRegistered, SipClientInvited, SipClientInviteFails, SipClientBye,
         SipAfterInvite
    <3>3. CASE \E place : place # "bye" /\ Goto("client", place)
      BY <1>1, <3>3, Moves DEF PrintsOk
    <3>4. CASE Finish("client", ABORT)
      BY <3>2, <3>4, FinishReports DEF OK, ABORT
    <3>5. QED
      BY <3>2, <3>3, <3>4
  <2>3. QED
    BY <2>1, <2>2 DEF Silent
<1>5. CASE Lose \/ Duplicate \/ Strangers \/ UNCHANGED demoVars
  BY <1>2, <1>5, NetworkActs DEF demoVars
<1>6. QED
  BY <1>3, <1>4, <1>5 DEF Next

-----------------------------------------------------------------------------
(***************************************************************************)
(* WebDemo, oauth2: the client has asked one thing, and the answer to the  *)
(* last one says that the server's flow is complete.                       *)
(***************************************************************************)
Asked == Script[mem.asked].request

OauthShape ==
  /\ scenario \in OauthScenarios /\ faults \in StreamFaults /\ Sequences
  /\ mem = [passwords |-> mem.passwords, asked |-> mem.asked, authed |-> mem.authed,
            last |-> mem.last, step |-> mem.step]
  /\ at.client \in {"start", "response", "exit"}
  /\ \A m \in Range(net.server) : m.path \in {"authorize", "token", "resource", "refresh"}

OauthTurn ==
  /\ mem.asked \in 1..Len(Script) /\ Len(net.client) <= 1
  /\ \A i \in 1..Len(net.server) : net.server[i].from = "client" =>
       /\ net.client = <<>> /\ net.server[i] = Asked
       /\ \A j \in 1..Len(net.server) : net.server[j].from = "client" => j = i
  /\ Asked.path = "refresh" /\ net.client # <<>> /\ net.client[1] = 200 => PrintsOk("server")

OauthParts ==
  /\ OauthShape
  /\ at.client = "start" => net.client = <<>> /\ \A m \in Range(net.server) : m.from # "client"
  /\ at.client = "response" => OauthTurn
  /\ PrintsOk("client") => PrintsOk("server")

OauthInv == protocol = "oauth2" => OauthParts

LEMMA OauthAsks ==
  ASSUME protocol = "oauth2", scenario \in OauthScenarios
  PROVE  /\ Len(Script) \in Nat \ {0}
         /\ \A k \in 1..Len(Script) :
              /\ Script[k].request.from = "client"
              /\ Script[k].request.path \in {"authorize", "token", "resource", "refresh"}
              /\ k = Len(Script) /\ ScriptEndsOk =>
                   Script[k].request.path = "refresh" /\ Script[k].status = 200
<1>1. CASE scenario = "token-replay"
  <2>1. Script = OauthScript /\ ~ScriptEndsOk
    BY <1>1 DEF Script, ScriptEndsOk
  <2>2. QED
    BY <1>1, <2>1 DEF OauthScript, OauthRequest
<1>2. CASE scenario # "token-replay"
  <2>1. Script = OauthScript
    BY DEF Script
  <2>2. Len(Script) = 4
    BY <1>2, <2>1 DEF OauthScript
  <2>3. /\ Script[1].request.from = "client" /\ Script[1].request.path = "authorize"
        /\ Script[2].request.from = "client" /\ Script[2].request.path = "token"
        /\ Script[3].request.from = "client" /\ Script[3].request.path = "resource"
        /\ Script[4].request.from = "client" /\ Script[4].request.path = "refresh"
        /\ Script[4].status = 200
    BY <1>2, <2>1 DEF OauthScript, OauthRequest
  <2>4. \A k \in 1..4 : k = 1 \/ k = 2 \/ k = 3 \/ k = 4
    OBVIOUS
  <2>5. QED
    BY <2>2, <2>3, <2>4
<1>3. QED
  BY <1>1, <1>2

\* The server takes a request and answers the client.
LEMMA OauthAnswer ==
  ASSUME OauthShape, at.client = "response", OauthTurn, SettingsStay,
         protocol = "oauth2", NEW x, net.server # <<>>,
         Exchange("server", 1, IF Head(net.server).from = "client" THEN <<x>> ELSE <<>>),
         mem'.asked = mem.asked, PrintsOk("server") => PrintsOk("server")',
         Head(net.server).path = "refresh" /\ x = 200 => PrintsOk("server")'
  PROVE  OauthTurn'
<1>0. PICK S : S = Range(net.server) \cup Range(net.client) \cup {x}
  OBVIOUS
<1>1. Channels(S) /\ x \in S
  BY <1>0, SeqMonotonic DEF OauthShape, Sequences, IsSeq, Channels
<1>2. /\ Head(net.server) = net.server[1] /\ 1 \in 1..Len(net.server)
      /\ Len(net.server) \in Nat /\ Len(net.client) \in Nat
  BY SeqIs DEF OauthShape, Sequences
<1>3. Asked' = Asked /\ Len(Script)' = Len(Script) /\ mem'.asked \in 1..Len(Script)
  BY DEF SettingsStay, Asked, Script, OauthScript, OauthTurn
<1>4. CASE Head(net.server).from = "client"
  <2>1. net.client = <<>> /\ net.server[1] = Asked
        /\ \A j \in 1..Len(net.server) : net.server[j].from = "client" => j = 1
    BY <1>2, <1>4 DEF OauthTurn
  <2>2. /\ Channels(S)' /\ Shrinks(net.server, net'.server)
        /\ Gains(net.client, net'.client, x)
    <3>1. Exchange("server", 1, <<x>>)
      BY <1>4
    <3>2. QED
      BY <1>1, <3>1, ServerAnswers
  <2>3. Len(net.client) = 0
    BY <2>1
  <2>4. Len(net'.client) = 1 /\ net'.client[1] = x
    BY <2>2, <2>3 DEF Gains
  <2>5. \A i \in 1..Len(net'.server) : net'.server[i].from # "client"
    <3>1. Len(net'.server) \in Nat
      BY <2>2 DEF Channels
    <3>2. TAKE i \in 1..Len(net'.server)
    <3>3. i + 1 \in 1..Len(net.server) /\ net'.server[i] = net.server[i + 1] /\ i + 1 # 1
      BY <1>2, <2>2, <3>1 DEF Shrinks
    <3>4. QED
      BY <2>1, <3>3
  <2>6. QED
    BY <1>2, <1>3, <2>1, <2>4, <2>5 DEF OauthTurn
<1>5. CASE Head(net.server).from # "client"
  <2>1. Channels(S)' /\ Shrinks(net.server, net'.server) /\ net'.client = net.client
    <3>1. Exchange("server", 1, <<>>)
      BY <1>5
    <3>2. QED
      BY <1>1, <3>1, ServerTakes
  <2>2. Len(net'.server) \in Nat
    BY <2>1 DEF Channels
  <2>3. \A i \in 1..Len(net'.server) :
          i + 1 \in 1..Len(net.server) /\ net'.server[i] = net.server[i + 1]
    BY <1>2, <2>1, <2>2 DEF Shrinks
  <2>4. \A i \in 1..Len(net'.server) : net'.server[i].from = "client" =>
          /\ net'.client = <<>> /\ net'.server[i] = Asked'
          /\ \A j \in 1..Len(net'.server) : net'.server[j].from = "client" => j = i
    <3>1. TAKE i \in 1..Len(net'.server)
    <3>2. ASSUME net'.server[i].from = "client"
          PROVE  /\ net'.client = <<>> /\ net'.server[i] = Asked'
                 /\ \A j \in 1..Len(net'.server) : net'.server[j].from = "client" => j = i
      <4>1. /\ net.client = <<>> /\ net.server[i + 1] = Asked
            /\ \A j \in 1..Len(net.server) : net.server[j].from = "client" => j = i + 1
        BY <2>3, <3>2 DEF OauthTurn
      <4>2. ASSUME NEW j \in 1..Len(net'.server), net'.server[j].from = "client"
            PROVE  j = i
        <5>1. j + 1 = i + 1
          BY <2>3, <4>1, <4>2
        <5>2. QED
          BY <2>2, <5>1
      <4>3. QED
        BY <1>3, <2>1, <2>3, <4>1, <4>2
    <3>3. QED
      BY <3>2
  <2>5. QED
    BY <1>3, <2>1, <2>4 DEF OauthTurn
<1>6. QED
  BY <1>4, <1>5

LEMMA OauthServerNext ==
  ASSUME OauthParts, ReportedOnce, SettingsStay, protocol = "oauth2", WebServer
  PROVE  OauthParts'
<1>1. /\ OauthShape /\ Sequences /\ at.server = "accept"
      /\ scenario' = scenario /\ faults' = faults
      /\ net.server # <<>> => 1 \in DOMAIN net.server /\ Head(net.server) \in Range(net.server)
      /\ mem = [passwords |-> mem.passwords, asked |-> mem.asked, authed |-> mem.authed,
                last |-> mem.last, step |-> mem.step]
  BY FirstIn DEF OauthParts, OauthShape, SettingsStay, Programs, WebServer, WebServerServes,
                 WebServerInterrupted
<1>2. /\ Acts("server") /\ ReportedOnce' /\ at'.client = at.client
      /\ results'.client = results.client
      /\ PrintsOk("server") => PrintsOk("server")'
  BY WebActs, ReportIs, OkStays DEF Programs
<1>. DEFINE m == Head(net.server)
<1>3. /\ mem' = [passwords |-> mem'.passwords, asked |-> mem'.asked, authed |-> mem'.authed,
                 last |-> mem'.last, step |-> mem'.step]
      /\ mem'.asked = mem.asked
      /\ \/ net' = net
         \/ /\ net.server # <<>>
            /\ \E x : /\ Exchange("server", 1, IF m.from = "client" THEN <<x>> ELSE <<>>)
                      /\ m.path = "refresh" /\ x = 200 => PrintsOk("server")'
  <2>1. CASE WebServerInterrupted
    <3>1. /\ mem' = mem
          /\ \/ net' = net
             \/ /\ net.server # <<>>
                /\ Exchange("server", 1, IF m.from = "client" THEN <<400>> ELSE <<>>)
      BY <2>1 DEF WebServerInterrupted
    <3>2. PICK x : x = 400
      OBVIOUS
    <3>3. \/ net' = net
          \/ /\ net.server # <<>>
             /\ Exchange("server", 1, IF m.from = "client" THEN <<x>> ELSE <<>>)
      BY <3>1, <3>2
    <3>. HIDE DEF m
    <3>4. x # 200
      BY <3>2
    <3>5. QED
      BY <1>1, <3>1, <3>3, <3>4
  <2>2. CASE WebServerServes
    <3>. DEFINE status == OauthStatus(m)
    <3>1. /\ net.server # <<>>
          /\ Exchange("server", 1, IF m.from = "client" THEN <<status>> ELSE <<>>)
          /\ mem' = IF status >= 400 THEN mem ELSE OauthServed(m)
          /\ IF status >= 400 \/ mem'.step = LastStep \/ "server" \in stopped'
             THEN Finish("server", WebResult(mem'.step))
             ELSE Goto("server", "accept")
      BY <2>2 DEF WebServerServes, WebStatus, WebServed
    <3>2. m.path \in {"authorize", "token", "resource", "refresh"}
      BY <1>1, <3>1 DEF OauthShape
    <3>3. /\ mem' = [passwords |-> mem'.passwords, asked |-> mem'.asked,
                     authed |-> mem'.authed, last |-> mem'.last, step |-> mem'.step]
          /\ mem'.asked = mem.asked
      <4>1. \/ mem' = mem \/ mem' = [mem EXCEPT !.step = 1] \/ mem' = [mem EXCEPT !.step = 3]
            \/ mem' = [mem EXCEPT !.step = 4]
            \/ mem' = [mem EXCEPT !.step = 2, !.last = m.code]
        BY <3>1, <3>2 DEF OauthServed
      <4>. HIDE DEF m
      <4>2. QED
        BY <1>1, <4>1
    <3>4. ASSUME m.path = "refresh"
          PROVE  PrintsOk("server")'
      <4>1. status = 200 /\ mem' = [mem EXCEPT !.step = 4]
        BY <3>1, <3>4 DEF OauthStatus, OauthServed
      <4>2. mem'.step = 4 /\ LastStep = 4
        BY <1>1, <4>1 DEF LastStep
      <4>3. Finish("server", OK)
        BY <3>1, <4>2 DEF WebResult
      <4>4. QED
        BY <4>3, OkStays
    <3>. HIDE DEF status
    <3>5. QED
      BY <3>1, <3>3, <3>4
  <2>3. QED
    BY <2>1, <2>2 DEF WebServer
<1>4. Sequences' /\ Range(net'.server) \subseteq Range(net.server)
  <2>1. CASE net' = net
    BY <1>1, <2>1, KeepsCloses DEF ServerCloses
  <2>2. CASE net' # net
    <3>1. IsSeq(<<>>) /\ \A x : IsSeq(<<x>>)
      BY ShortSeqs
    <3>2. \E msgs : IsSeq(msgs) /\ Exchange("server", 1, msgs)
      BY <1>3, <2>2, <3>1
    <3>3. QED
      BY <1>1, <1>3, <2>2, <3>2, ServerTrades
  <2>3. QED
    BY <2>1, <2>2
<1>5. OauthShape'
  BY <1>1, <1>2, <1>3, <1>4 DEF OauthShape
<1>6. ASSUME at'.client = "start"
      PROVE  (net.client = <<>> /\ \A r \in Range(net.server) : r.from # "client")'
  <2>1. net.client = <<>> /\ \A r \in Range(net.server) : r.from # "client"
    BY <1>2, <1>6 DEF OauthParts
  <2>2. net'.client = <<>>
    <3>1. CASE net' = net
      BY <2>1, <3>1
    <3>2. CASE net' # net
      <4>1. m.from # "client"
        BY <1>1, <1>3, <2>1, <3>2
      <4>2. Exchange("server", 1, <<>>)
        BY <1>3, <3>2, <4>1
      <4>3. Pair(net)
        BY <1>1 DEF Sequences
      <4>4. net' = [server |-> RemoveAt(net.server, 1), client |-> net.client \o <<>>]
        BY <4>2, <4>3, ExchangeIs
      <4>5. QED
        BY <2>1, <4>4
    <3>3. QED
      BY <3>1, <3>2
  <2>3. QED
    BY <1>4, <2>1, <2>2
<1>7. ASSUME at'.client = "response"
      PROVE  OauthTurn'
  <2>1. OauthTurn /\ at.client = "response"
    BY <1>2, <1>7 DEF OauthParts
  <2>2. CASE net' = net
    <3>1. Asked' = Asked /\ Len(Script)' = Len(Script) /\ mem'.asked \in 1..Len(Script)
      BY <1>3, <2>1 DEF SettingsStay, Asked, Script, OauthScript, OauthTurn
    <3>2. QED
      BY <1>2, <2>1, <2>2, <3>1 DEF OauthTurn
  <2>3. CASE net' # net
    BY <1>1, <1>2, <1>3, <2>1, <2>3, OauthAnswer
  <2>4. QED
    BY <2>2, <2>3
<1>8. PrintsOk("client")' => PrintsOk("server")'
  BY <1>2 DEF OauthParts, PrintsOk
<1>9. QED
  BY <1>5, <1>6, <1>7, <1>8 DEF OauthParts

LEMMA OauthClientNext ==
  ASSUME OauthParts, ReportedOnce, SettingsStay, protocol = "oauth2", WebClient
  PROVE  OauthParts'
<1>1. /\ OauthShape /\ Sequences /\ Pair(at) /\ Pair(results)
      /\ scenario' = scenario /\ faults' = faults /\ scenario \in OauthScenarios
      /\ mem = [passwords |-> mem.passwords, asked |-> mem.asked, authed |-> mem.authed,
                last |-> mem.last, step |-> mem.step]
  BY DEF OauthParts, OauthShape, SettingsStay, ReportedOnce
<1>2. /\ Acts("client") /\ ReportedOnce' /\ at'.server = at.server
      /\ results'.server = results.server
  BY WebActs, ReportIs DEF Programs
<1>3. PrintsOk("server")' <=> PrintsOk("server")
  BY <1>2 DEF PrintsOk
<1>4. /\ Len(Script) \in Nat \ {0}
      /\ \A k \in 1..Len(Script) :
              /\ Script[k].request.from = "client"
              /\ Script[k].request.path \in {"authorize", "token", "resource", "refresh"}
              /\ k = Len(Script) /\ ScriptEndsOk =>
                   Script[k].request.path = "refresh" /\ Script[k].status = 200
      /\ Script' = Script
  <2>1. Script = OauthScript /\ Script' = OauthScript'
    BY DEF SettingsStay, Script
  <2>2. OauthScript' = OauthScript
    BY DEF SettingsStay, OauthScript
  <2>3. QED
    BY <1>1, <2>1, <2>2, OauthAsks
<1>5. \A printed : Finish("client", printed) => at'.client = "exit"
  BY <1>1, Moves
<1>6. ASSUME NEW next \in 1..Len(Script), mem' = [mem EXCEPT !.asked = next],
             Goto("client", "response"),
             \/ net.client = <<>> /\ Send("client", <<Script[next].request>>)
             \/ /\ net.client # <<>> /\ Len(net.client) <= 1
                /\ Exchange("client", 1, <<Script[next].request>>),
             \A i \in 1..Len(net.server) : net.server[i].from # "client"
      PROVE  OauthParts'
  <2>1. PICK ask : ask = Script[next].request
    OBVIOUS
  <2>2. PICK S : S = Range(net.server) \cup Range(net.client) \cup {ask}
    OBVIOUS
  <2>3. Channels(S) /\ ask \in S
    BY <1>1, <2>2, SeqMonotonic DEF Sequences, IsSeq, Channels
  <2>4. /\ Channels(S)' /\ Gains(net.server, net'.server, ask) /\ Len(net'.client) = 0
    <3>1. CASE net.client = <<>> /\ Send("client", <<Script[next].request>>)
      <4>1. Send("client", <<ask>>)
        BY <2>1, <3>1
      <4>2. Channels(S)' /\ net'.client = net.client /\ Gains(net.server, net'.server, ask)
        BY <2>3, <4>1, ClientSendsOne
      <4>3. QED
        BY <3>1, <4>2
    <3>2. CASE /\ net.client # <<>> /\ Len(net.client) <= 1
               /\ Exchange("client", 1, <<Script[next].request>>)
      <4>1. Exchange("client", 1, <<ask>>)
        BY <2>1, <3>2
      <4>2. /\ Channels(S)' /\ Shrinks(net.client, net'.client)
            /\ Gains(net.server, net'.server, ask)
        BY <2>3, <3>2, <4>1, ClientAnswers
      <4>3. Len(net.client) \in Nat /\ Len(net'.client) \in Nat
        BY <2>3, <4>2 DEF Channels
      <4>4. QED
        BY <3>2, <4>2, <4>3 DEF Shrinks
    <3>3. QED
      BY <1>6, <3>1, <3>2
  <2>5. /\ Len(net.server) \in Nat /\ net'.server \in Seq(S) /\ net'.client \in Seq(S)
        /\ Pair(net')
    BY <2>3, <2>4 DEF Channels
  <2>6. Sequences' /\ net'.client = <<>> /\ \A m \in Range(net'.server) :
          \E i \in 1..Len(net'.server) : m = net'.server[i]
    BY <2>4, <2>5, SeqsOf, EmptySeq DEF Sequences, Range
  <2>7. /\ mem' = [passwords |-> mem.passwords, asked |-> next, authed |-> mem.authed,
                   last |-> mem.last, step |-> mem.step]
    BY <1>1, <1>6
  <2>8. Asked' = ask
    BY <1>4, <2>1, <2>7 DEF Asked
  <2>9. \A i \in 1..Len(net'.server) :
          \/ i \in 1..Len(net.server) /\ net'.server[i] = net.server[i]
          \/ i = Len(net.server) + 1 /\ net'.server[i] = ask
    BY SMTT(60), <2>4, <2>5 DEF Gains
  <2>10. ask.path \in {"authorize", "token", "resource", "refresh"}
    BY <1>4, <2>1
  <2>11. OauthShape'
    <3>1. \A i \in 1..Len(net.server) :
            net.server[i].path \in {"authorize", "token", "resource", "refresh"}
      BY <1>1, SeqIs DEF OauthShape, Sequences
    <3>2. \A m \in Range(net'.server) : m.path \in {"authorize", "token", "resource", "refresh"}
      BY <2>6, <2>9, <2>10, <3>1
    <3>3. at'.client = "response"
      BY <1>1, <1>6, Moves
    <3>4. QED
      BY <1>1, <2>6, <2>7, <3>2, <3>3 DEF OauthShape
  <2>12. OauthTurn'
    <3>1. \A i \in 1..Len(net'.server) : net'.server[i].from = "client" =>
            i = Len(net.server) + 1 /\ net'.server[i] = ask
      BY <1>6, <2>9
    <3>2. QED
      BY <1>4, <2>4, <2>6, <2>7, <2>8, <3>1 DEF OauthTurn
  <2>13. at'.client = "response" /\ results' = results
    BY <1>1, <1>6, Moves
  <2>14. QED
    BY <1>3, <2>11, <2>12, <2>13 DEF OauthParts, PrintsOk
<1>7. ASSUME mem' = mem, net' = net \/ (net.client # <<>> /\ Exchange("client", 1, <<>>)),
             NEW printed \in {OK, ABORT}, Finish("client", printed), at.client # "exit",
             printed = OK => PrintsOk("server")
      PROVE  OauthParts'
  <2>1. Sequences' /\ \A m \in Range(net'.server) : m \in Range(net.server)
    <3>1. CASE net' = net
      BY <1>1, <3>1 DEF Sequences, Pair
    <3>2. CASE net.client # <<>> /\ Exchange("client", 1, <<>>)
      <4>. DEFINE nothing == <<>>
      <4>1. IsSeq(nothing) /\ Range(nothing) = {} /\ Exchange("client", 1, nothing)
            /\ 1 \in DOMAIN net.client
        BY <1>1, <3>2, ShortSeqs, FirstIn DEF Programs
      <4>. HIDE DEF nothing
      <4>2. Sequences' /\ Range(net'.server) = Range(net.server) \cup Range(nothing)
        BY <1>1, <4>1, ClientTrades
      <4>3. QED
        BY <4>1, <4>2
    <3>3. QED
      BY <1>7, <3>1, <3>2
  <2>2. at'.client = "exit"
    BY <1>5, <1>7
  <2>3. PrintsOk("client")' => PrintsOk("server")'
    BY <1>3, <1>7, FinishReports
  <2>4. OauthShape'
    BY <1>1, <1>7, <2>1, <2>2 DEF OauthShape
  <2>5. QED
    BY <2>2, <2>3, <2>4 DEF OauthParts
<1>8. CASE WebClientStart
  <2>1. /\ net.client = <<>> /\ \A m \in Range(net.server) : m.from # "client"
        /\ Send("client", <<Script[1].request>>) /\ Goto("client", "response")
        /\ mem' = [mem EXCEPT !.asked = 1]
    BY <1>8 DEF WebClientStart, OauthParts
  <2>2. \A i \in 1..Len(net.server) : net.server[i].from # "client"
    BY <1>1, <2>1, SeqIs DEF Sequences
  <2>3. 1 \in 1..Len(Script)
    BY <1>4
  <2>4. QED
    BY <1>6, <2>1, <2>2, <2>3
<1>9. CASE WebClientResponse
  <2>. DEFINE k == mem.asked
  <2>1. /\ OauthTurn /\ net.client # <<>> /\ k \in 1..Len(Script) /\ k \in Nat
        /\ Len(net.client) <= 1 /\ at.client # "exit"
        /\ Head(net.client) = net.client[1]
    BY <1>1, <1>9, FirstIn DEF WebClientResponse, OauthParts, OauthTurn, Programs
  <2>2. \A i \in 1..Len(net.server) : net.server[i].from # "client"
    BY <2>1 DEF OauthTurn
  <2>3. CASE /\ k < Len(Script)
             /\ Exchange("client", 1, <<Script[k + 1].request>>)
             /\ mem' = [mem EXCEPT !.asked = k + 1]
             /\ Goto("client", "response")
    <3>1. k + 1 \in 1..Len(Script)
      BY <1>4, <2>1, <2>3
    <3>2. QED
      BY <1>6, <2>1, <2>2, <2>3, <3>1
  <2>4. CASE /\ Head(net.client) = Script[k].status /\ k = Len(Script)
             /\ Exchange("client", 1, <<>>) /\ UNCHANGED mem
             /\ Finish("client", IF ScriptEndsOk THEN OK ELSE ABORT)
    <3>1. ScriptEndsOk => PrintsOk("server")
      BY <1>4, <2>1, <2>4 DEF OauthTurn, Asked
    <3>2. QED
      BY <1>7, <2>1, <2>4, <3>1 DEF OK, ABORT
  <2>5. CASE Exchange("client", 1, <<>>) /\ UNCHANGED mem /\ Finish("client", ABORT)
    BY <1>7, <2>1, <2>5 DEF OK, ABORT
  <2>6. QED
    BY <1>9, <2>3, <2>4, <2>5 DEF WebClientResponse
<1>10. CASE WebClientFails
  BY <1>7, <1>10 DEF WebClientFails, OK, ABORT
<1>11. QED
  BY <1>8, <1>9, <1>10 DEF WebClient

LEMMA OauthInitially == Init => OauthInv
<1>. SUFFICES ASSUME Init, protocol = "oauth2"
              PROVE  OauthParts
  BY DEF OauthInv
<1>1. WebInit
  BY DEF Init, QuicInit, RadiusInit, SipInit, DnsInit, TcpInit, MqttInit, Http2Init, WsInit,
         PacketInit, DigestInit, RequestInit, FramesInit
<1>2. /\ net.server = <<>> /\ net.client = <<>> /\ Pair(net) /\ results.client = <<>>
      /\ at.client = "start" /\ scenario \in OauthScenarios /\ faults \in StreamFaults
  BY <1>1, PlacesInit DEF WebInit
<1>3. mem = [passwords |-> mem.passwords, asked |-> mem.asked, authed |-> mem.authed,
             last |-> mem.last, step |-> mem.step]
  BY <1>1 DEF WebInit
<1>4. QED
  BY <1>2, <1>3, ShortSeqs DEF OauthParts, OauthShape, Sequences, PrintsOk

\* A stranger's request changes nothing for the client.
LEMMA OauthStranger ==
  ASSUME OauthParts, SettingsStay, protocol = "oauth2", OtherSends(OauthOtherRequests)
  PROVE  OauthParts'
<1>1. UNCHANGED <<at, results, mem>> /\ OauthShape /\ Sequences
  BY DEF OtherSends, OauthParts, OauthShape
<1>2. PICK m \in OauthOtherRequests :
        net' = [net EXCEPT !["server"] = Append(net["server"], m)]
  BY DEF OtherSends
<1>3. m.from = "other" /\ m.path \in {"authorize", "token", "resource", "refresh"}
  BY DEF OauthOtherRequests, OauthRequest
<1>4. Len(net.server) \in Nat /\ IsSeq(net.server) /\ IsSeq(net.client)
      /\ net = [server |-> net.server, client |-> net.client]
  BY <1>1, SeqIs DEF Sequences, Pair
<1>5. /\ IsSeq(Append(net.server, m)) /\ Range(Append(net.server, m)) = Range(net.server) \cup {m}
      /\ Len(Append(net.server, m)) = Len(net.server) + 1
      /\ \A i \in 1..Len(net.server) : Append(net.server, m)[i] = net.server[i]
      /\ Append(net.server, m)[Len(net.server) + 1] = m
  <2>1. net.server \in Seq(Range(net.server) \cup {m})
    BY <1>4, SeqMonotonic DEF IsSeq
  <2>2. QED
    BY <1>4, <2>1, Extended, AppendProperties
<1>6. net' = [server |-> Append(net.server, m), client |-> net.client]
  BY <1>2, <1>4
<1>7. OauthShape'
  BY <1>1, <1>3, <1>4, <1>5, <1>6 DEF OauthShape, Sequences, Pair, SettingsStay
<1>8. Asked' = Asked /\ Len(Script)' = Len(Script)
  BY <1>1 DEF SettingsStay, Asked, Script, OauthScript
<1>9. OauthTurn => OauthTurn'
  <2>1. \A i \in 1..Len(net'.server) : net'.server[i].from = "client" =>
          i \in 1..Len(net.server) /\ net'.server[i] = net.server[i]
    <3>1. TAKE i \in 1..Len(net'.server)
    <3>2. i \in 1..Len(net.server) \/ i = Len(net.server) + 1
      BY <1>4, <1>5, <1>6
    <3>3. QED
      BY <1>3, <1>5, <1>6, <3>2
  <2>2. QED
    BY <1>1, <1>6, <1>8, <2>1 DEF OauthTurn, PrintsOk
<1>10. QED
  BY <1>1, <1>3, <1>5, <1>6, <1>7, <1>9 DEF OauthParts, PrintsOk

LEMMA OauthNextKeeps == OauthInv /\ ReportedOnce /\ [Next]_demoVars => OauthInv'
<1>. SUFFICES ASSUME OauthInv, ReportedOnce, [Next]_demoVars, protocol' = "oauth2"
              PROVE  OauthParts'
  BY DEF OauthInv
<1>1. SettingsStay /\ protocol = "oauth2" /\ OauthParts /\ faults \in StreamFaults
  BY SettingsKept DEF SettingsStay, OauthInv, OauthParts, OauthShape
<1>2. CASE UNCHANGED demoVars
  <2>1. /\ UNCHANGED <<at, results, mem, net>> /\ scenario' = scenario /\ faults' = faults
        /\ Asked' = Asked /\ Len(Script)' = Len(Script)
    BY <1>1, <1>2 DEF demoVars, SettingsStay, Asked, Script, OauthScript
  <2>2. QED
    BY <1>1, <2>1 DEF OauthParts, OauthShape, OauthTurn, Sequences, Pair, PrintsOk
<1>3. WebServer \/ WebClient \/ OtherSends(OauthOtherRequests) \/ UNCHANGED demoVars
  <2>1. ~Lose /\ ~Duplicate
    BY <1>1, StreamsReliable DEF Lose, Duplicate
  <2>2. QED
    BY <1>1, <2>1 DEF Next, Server, Client, Strangers, TcpFamily, WebFamily
<1>4. QED
  BY <1>1, <1>2, <1>3, OauthServerNext, OauthClientNext, OauthStranger

-----------------------------------------------------------------------------
(***************************************************************************)
(* MqttDemo: with no signal, and if no recv returns two packets, the two   *)
(* programs are in step until the client has ended.                        *)
(***************************************************************************)
\* Where the two programs are, and what is on its way to each.
Stage(server, client, toServer, toClient) ==
  at.server = server /\ at.client = client /\ net.server = toServer /\ net.client = toClient

MqttOpening ==
  \/ Stage("CONNECT", "start", <<>>, <<>>)
  \/ Stage("CONNECT", "CONNACK", <<"CONNECT">>, <<>>)
  \/ Stage("SUBSCRIBE", "CONNACK", <<>>, <<"CONNACK">>)
  \/ Stage("SUBSCRIBE", "SUBACK", <<"SUBSCRIBE">>, <<>>)
  \/ Stage("PUBLISH", "SUBACK", <<>>, <<"SUBACK">>)
  \/ Stage("exit", "SUBACK", <<>>, <<"SUBACK 0x80">>)

MqttReplay ==
  \/ Stage("PUBLISH", "PUBREC", <<"PUBLISH">>, <<>>)
  \/ Stage("pause", "PUBREC", <<>>, <<"PUBREC">>)
  \/ Stage("exit", "PUBREC", <<>>, <<"PUBREC", "PUBREC">>)
  \/ Stage("pause", "PUBREC again", <<>>, <<>>)
  \/ Stage("exit", "PUBREC again", <<>>, <<"PUBREC">>)

MqttEnding ==
  \/ Stage("PUBLISH", "exit", <<"PUBLISH", "DISCONNECT">>, <<>>)
  \/ Stage("DISCONNECT", "exit", <<"DISCONNECT">>, <<>>)
  \/ at.server = "exit" /\ at.client = "exit" /\ PrintsOk("server")

MqttParts ==
  /\ Pair(net) /\ faults \in StreamFaults
  /\ \/ MqttOpening
     \/ scenario = "qos2-replay" /\ MqttReplay
     \/ scenario # "qos2-replay" /\ MqttEnding
     \/ at.client = "exit" /\ ~PrintsOk("client")

MqttUndisturbed == protocol = "mqtt" /\ faults \cap {"stop", "merge"} = {}
MqttInv == MqttUndisturbed => MqttParts

LEMMA MqttTakesIs ==
  ASSUME Pair(net), "merge" \notin faults, NEW packet, NEW msgs
  PROVE  /\ MqttTakes("server", packet, msgs) =>
              /\ net.server # <<>> /\ Head(net.server) = packet
              /\ net' = [server |-> SubSeq(net.server, 2, Len(net.server)),
                         client |-> net.client \o msgs]
         /\ MqttTakes("client", packet, msgs) =>
              /\ net.client # <<>> /\ Head(net.client) = packet
              /\ net' = [server |-> net.server \o msgs,
                         client |-> SubSeq(net.client, 2, Len(net.client))]
<1>1. net = [server |-> net.server, client |-> net.client]
  BY DEF Pair
<1>2. ASSUME MqttTakes("server", packet, msgs)
      PROVE  /\ net.server # <<>> /\ Head(net.server) = packet
             /\ net' = [server |-> SubSeq(net.server, 2, Len(net.server)),
                        client |-> net.client \o msgs]
  <2>1. net.server # <<>> /\ Head(net.server) = packet
    BY <1>2 DEF MqttTakes
  <2>2. net' = [net EXCEPT !["server"] = SubSeq(net["server"], 1 + 1, Len(net["server"])),
                           !["client"] = net["client"] \o msgs]
    BY <1>2, OtherIs DEF MqttTakes, ReceiveOne
  <2>3. 1 + 1 = 2
    OBVIOUS
  <2>4. QED
    BY <1>1, <2>1, <2>2, <2>3
<1>3. ASSUME MqttTakes("client", packet, msgs)
      PROVE  /\ net.client # <<>> /\ Head(net.client) = packet
             /\ net' = [server |-> net.server \o msgs,
                        client |-> SubSeq(net.client, 2, Len(net.client))]
  <2>1. net.client # <<>> /\ Head(net.client) = packet
    BY <1>3 DEF MqttTakes
  <2>2. net' = [net EXCEPT !["client"] = SubSeq(net["client"], 1 + 1, Len(net["client"])),
                           !["server"] = net["server"] \o msgs]
    BY <1>3, OtherIs DEF MqttTakes, ReceiveOne
  <2>3. 1 + 1 = 2
    OBVIOUS
  <2>4. QED
    BY <1>1, <2>1, <2>2, <2>3
<1>4. QED
  BY <1>2, <1>3

\* The few channels there are.
LEMMA ShortChannels ==
  /\ \A x : /\ <<x>> # <<>> /\ Head(<<x>>) = x /\ SubSeq(<<x>>, 2, Len(<<x>>)) = <<>>
            /\ <<>> \o <<x>> = <<x>>
  /\ \A x, y : /\ <<x, y>> # <<>> /\ Head(<<x, y>>) = x
               /\ SubSeq(<<x, y>>, 2, Len(<<x, y>>)) = <<y>>
               /\ <<>> \o <<x, y>> = <<x, y>> /\ <<x>> \o <<y>> = <<x, y>>
  /\ <<>> \o <<>> = <<>>
<1>1. ASSUME NEW x
      PROVE  SubSeq(<<x>>, 2, Len(<<x>>)) = <<>>
  OBVIOUS
<1>2. ASSUME NEW x, NEW y
      PROVE  SubSeq(<<x, y>>, 2, Len(<<x, y>>)) = <<y>>
  <2>1. PICK s : s = <<x, y>>
    OBVIOUS
  <2>2. s \in Seq({x, y}) /\ s # <<>> /\ Len(s) = 2 /\ s[2] = y
    BY <2>1
  <2>3. /\ SubSeq(s, 2, Len(s)) \in Seq({x, y})
        /\ Shrinks(s, SubSeq(s, 2, Len(s)))
    BY <2>2, FirstRemoved
  <2>4. PICK t : t = SubSeq(s, 2, Len(s))
    OBVIOUS
  <2>5. t \in Seq({x, y}) /\ Len(t) = 1 /\ t[1] = y
    BY <2>2, <2>3, <2>4 DEF Shrinks
  <2>6. <<y>> \in Seq({x, y}) /\ Len(<<y>>) = 1 /\ <<y>>[1] = y
    OBVIOUS
  <2>7. t = <<y>>
    BY <2>5, <2>6, SeqEqual
  <2>8. QED
    BY <2>1, <2>4, <2>7
<1>3. ASSUME NEW x, NEW y
      PROVE  <<x>> \o <<y>> = <<x, y>>
  <2>1. PICK S : S = {x, y}
    OBVIOUS
  <2>2. x \in S /\ y \in S
    BY <2>1
  <2>3. QED
    BY <2>2, TwoSingles
<1>4. ASSUME NEW x, NEW y
      PROVE  <<>> \o <<x, y>> = <<x, y>>
  OBVIOUS
<1>5. QED
  BY <1>1, <1>2, <1>3, <1>4

LEMMA MqttServerNext ==
  ASSUME MqttParts, ReportedOnce, SettingsStay, faults \cap {"stop", "merge"} = {}, MqttServer
  PROVE  MqttParts'
<1>1. /\ Pair(net) /\ Pair(at) /\ Pair(results) /\ "merge" \notin faults /\ "stop" \notin faults
      /\ scenario' = scenario /\ faults' = faults /\ faults \in StreamFaults
      /\ net = [server |-> net.server, client |-> net.client]
      /\ at.server # "exit"
  BY DEF MqttParts, ReportedOnce, SettingsStay, Pair, MqttServer, MqttServerConnect,
         MqttServerSubscribe, MqttServerPublish, MqttServerRepeats, MqttServerBreaks,
         MqttServerDisconnect, MqttServerFails
<1>2. /\ Acts("server") /\ at'.client = at.client /\ results'.client = results.client
      /\ (PrintsOk("client")' <=> PrintsOk("client"))
  BY MqttActs, ReportIs DEF Programs, PrintsOk
<1>3. Pair(net')
  <2>1. \A packet, msgs : MqttTakes("server", packet, msgs) => Pair(net')
    BY <1>1, MqttTakesIs DEF Pair
  <2>2. \A msgs : Send("server", msgs) => Pair(net')
    BY <1>1, SendIs DEF Pair
  <2>3. QED
    BY <1>1, <2>1, <2>2 DEF MqttServer, MqttServerConnect, MqttServerSubscribe,
       MqttServerPublish, MqttServerRepeats, MqttServerBreaks, MqttServerDisconnect,
       MqttServerFails
<1>. SUFFICES \/ MqttOpening'
              \/ scenario = "qos2-replay" /\ MqttReplay'
              \/ scenario # "qos2-replay" /\ MqttEnding'
              \/ at'.client = "exit" /\ ~PrintsOk("client")'
  BY <1>1, <1>3 DEF MqttParts
<1>4. CASE at.client = "exit" /\ ~PrintsOk("client")
  BY <1>2, <1>4
<1>5. \/ MqttOpening
      \/ scenario = "qos2-replay" /\ MqttReplay
      \/ scenario # "qos2-replay" /\ MqttEnding
      \/ at.client = "exit" /\ ~PrintsOk("client")
  BY DEF MqttParts
<1>6. \A place : Goto("server", place) => at'.server = place
  BY <1>1, Moves
<1>7. \A packet, msgs : MqttTakes("server", packet, msgs) =>
        /\ net.server # <<>> /\ Head(net.server) = packet
        /\ net'.server = SubSeq(net.server, 2, Len(net.server))
        /\ net'.client = net.client \o msgs
  BY <1>1, MqttTakesIs
<1>8. CASE MqttServerConnect
  <2>1. /\ at.server = "CONNECT" /\ MqttTakes("server", "CONNECT", <<"CONNACK">>)
        /\ at'.server = "SUBSCRIBE"
    BY <1>6, <1>8 DEF MqttServerConnect
  <2>2. CASE Stage("CONNECT", "CONNACK", <<"CONNECT">>, <<>>)
    BY ZenonT(60), <1>2, <1>7, <2>1, <2>2, ShortChannels DEF Stage, MqttOpening
  <2>3. CASE Stage("CONNECT", "start", <<>>, <<>>)
    BY <1>7, <2>1, <2>3 DEF Stage
  <2>4. QED
    BY <1>4, <1>5, <2>1, <2>2, <2>3 DEF MqttOpening, MqttReplay, MqttEnding, Stage
<1>9. CASE MqttServerSubscribe
  <2>1. /\ at.server = "SUBSCRIBE"
        /\ \/ MqttTakes("server", "SUBSCRIBE", <<"SUBACK">>) /\ at'.server = "PUBLISH"
           \/ MqttTakes("server", "SUBSCRIBE", <<"SUBACK 0x80">>) /\ at'.server = "exit"
    BY <1>1, <1>6, <1>9, Moves DEF MqttServerSubscribe
  <2>2. CASE Stage("SUBSCRIBE", "SUBACK", <<"SUBSCRIBE">>, <<>>)
    BY ZenonT(60), <1>2, <1>7, <2>1, <2>2, ShortChannels DEF Stage, MqttOpening
  <2>3. CASE Stage("SUBSCRIBE", "CONNACK", <<>>, <<"CONNACK">>)
    BY <1>7, <2>1, <2>3 DEF Stage
  <2>4. QED
    BY <1>4, <1>5, <2>1, <2>2, <2>3 DEF MqttOpening, MqttReplay, MqttEnding, Stage
<1>10. CASE MqttServerPublish
  <2>1. /\ at.server = "PUBLISH"
        /\ \/ /\ scenario = "qos2-replay" /\ MqttTakes("server", "PUBLISH", <<"PUBREC">>)
              /\ at'.server = "pause"
           \/ /\ scenario # "qos2-replay" /\ MqttTakes("server", "PUBLISH", <<>>)
              /\ at'.server = "DISCONNECT"
    BY <1>6, <1>10 DEF MqttServerPublish
  <2>2. CASE Stage("PUBLISH", "SUBACK", <<>>, <<"SUBACK">>)
    BY <1>7, <2>1, <2>2 DEF Stage
  <2>3. CASE scenario = "qos2-replay" /\ Stage("PUBLISH", "PUBREC", <<"PUBLISH">>, <<>>)
    BY ZenonT(60), <1>2, <1>7, <2>1, <2>3, ShortChannels DEF Stage, MqttReplay
  <2>4. CASE /\ scenario # "qos2-replay"
             /\ Stage("PUBLISH", "exit", <<"PUBLISH", "DISCONNECT">>, <<>>)
    BY <1>2, <1>7, <2>1, <2>4, ShortChannels DEF Stage, MqttEnding
  <2>5. QED
    BY <1>4, <1>5, <2>1, <2>2, <2>3, <2>4 DEF MqttOpening, MqttReplay, MqttEnding, Stage
<1>11. CASE MqttServerRepeats \/ MqttServerBreaks
  <2>1. /\ at.server = "pause" /\ at'.server = "exit"
        /\ \/ Send("server", <<"PUBREC">>)
           \/ at.client = "exit"
    BY <1>1, <1>11, Moves DEF MqttServerRepeats, MqttServerBreaks, Ended
  <2>2. Send("server", <<"PUBREC">>) =>
          net'.server = net.server /\ net'.client = net.client \o <<"PUBREC">>
    <3>1. Send("server", <<"PUBREC">>) =>
            net' = [server |-> net.server, client |-> net.client \o <<"PUBREC">>]
      BY <1>1, SendIs
    <3>2. QED
      BY <3>1
  <2>3. CASE scenario = "qos2-replay" /\ Stage("pause", "PUBREC", <<>>, <<"PUBREC">>)
    BY <1>2, <2>1, <2>2, <2>3, ShortChannels DEF Stage, MqttReplay
  <2>4. CASE scenario = "qos2-replay" /\ Stage("pause", "PUBREC again", <<>>, <<>>)
    BY <1>2, <2>1, <2>2, <2>4, ShortChannels DEF Stage, MqttReplay
  <2>5. QED
    BY <1>4, <1>5, <2>1, <2>3, <2>4 DEF MqttOpening, MqttReplay, MqttEnding, Stage
<1>12. CASE MqttServerDisconnect
  <2>1. at.server = "DISCONNECT" /\ Finish("server", OK)
    BY <1>12 DEF MqttServerDisconnect
  <2>2. at'.server = "exit" /\ PrintsOk("server")'
    BY <1>1, <2>1, Moves, OkStays
  <2>3. QED
    BY <1>2, <1>4, <1>5, <2>1, <2>2 DEF MqttOpening, MqttReplay, MqttEnding, Stage
<1>13. CASE MqttServerFails
  <2>1. /\ at.server \in {"CONNECT", "SUBSCRIBE", "PUBLISH"}
        /\ at.client = "exit" /\ (net.server = <<>> \/ net.client # <<>>)
    BY <1>1, <1>13, OtherIs DEF MqttServerFails, ReceiveFails, Ended
  <2>2. <<"PUBLISH", "DISCONNECT">> # <<>>
    BY ShortChannels
  <2>3. QED
    BY <1>4, <1>5, <2>1, <2>2 DEF MqttOpening, MqttReplay, MqttEnding, Stage
<1>14. QED
  BY <1>8, <1>9, <1>10, <1>11, <1>12, <1>13 DEF MqttServer

LEMMA MqttClientNext ==
  ASSUME MqttParts, ReportedOnce, SettingsStay, faults \cap {"stop", "merge"} = {}, MqttClient
  PROVE  MqttParts'
<1>1. /\ Pair(net) /\ Pair(at) /\ Pair(results) /\ "merge" \notin faults /\ "stop" \notin faults
      /\ scenario' = scenario /\ faults' = faults /\ faults \in StreamFaults
      /\ net = [server |-> net.server, client |-> net.client]
      /\ at.client # "exit"
  BY DEF MqttParts, ReportedOnce, SettingsStay, Pair, MqttClient, MqttClientStart,
         MqttClientConnack, MqttClientSuback, MqttClientPubrec, MqttClientPubrecAgain,
         MqttClientNoReplay, MqttClientFails
<1>2. Acts("client") /\ at'.server = at.server
  BY MqttActs, ReportIs DEF Programs
<1>3. Pair(net')
  <2>1. \A packet, msgs : MqttTakes("client", packet, msgs) => Pair(net')
    BY <1>1, MqttTakesIs DEF Pair
  <2>2. \A msgs : Send("client", msgs) \/ Exchange("client", 1, msgs) => Pair(net')
    BY <1>1, SendIs, ExchangeIs DEF Pair
  <2>3. QED
    BY <1>1, <2>1, <2>2 DEF MqttClient, MqttClientStart, MqttClientConnack, MqttClientSuback,
       MqttClientPubrec, MqttClientPubrecAgain, MqttClientNoReplay, MqttClientFails
<1>. SUFFICES \/ MqttOpening'
              \/ scenario = "qos2-replay" /\ MqttReplay'
              \/ scenario # "qos2-replay" /\ MqttEnding'
              \/ at'.client = "exit" /\ ~PrintsOk("client")'
  BY <1>1, <1>3 DEF MqttParts
<1>4. CASE Finish("client", ABORT) \/ Killed("client")
  <2>1. at'.client = "exit"
    BY <1>1, <1>4, Moves
  <2>2. ~PrintsOk("client")'
    <3>1. CASE Finish("client", ABORT)
      BY <1>1, <3>1, FinishReports DEF OK, ABORT
    <3>2. CASE Killed("client")
      BY <1>1, <3>2, Moves, ReportsOk DEF PrintsOk
    <3>3. QED
      BY <1>4, <3>1, <3>2
  <2>3. QED
    BY <2>1, <2>2
<1>5. \/ MqttOpening
      \/ scenario = "qos2-replay" /\ MqttReplay
      \/ scenario # "qos2-replay" /\ MqttEnding
  BY <1>1 DEF MqttParts
<1>6. \A place : Goto("client", place) => at'.client = place
  BY <1>1, Moves
<1>7. \A packet, msgs : MqttTakes("client", packet, msgs) =>
        /\ net.client # <<>> /\ Head(net.client) = packet
        /\ net'.client = SubSeq(net.client, 2, Len(net.client))
        /\ net'.server = net.server \o msgs
  BY <1>1, MqttTakesIs
<1>8. CASE MqttClientStart /\ Goto("client", "CONNACK")
  <2>1. at.client = "start" /\ Send("client", <<"CONNECT">>) /\ at'.client = "CONNACK"
    <3>1. at'.client = "CONNACK" /\ "CONNACK" # "exit"
      BY <1>6, <1>8
    <3>2. ~Finish("client", ABORT)
      BY <1>1, <3>1, Moves
    <3>3. QED
      BY <1>8, <3>1, <3>2 DEF MqttClientStart
  <2>2. net'.client = net.client /\ net'.server = net.server \o <<"CONNECT">>
    BY <1>1, <2>1, SendIs
  <2>3. Stage("CONNECT", "start", <<>>, <<>>)
    BY <1>5, <2>1 DEF MqttOpening, MqttReplay, MqttEnding, Stage
  <2>4. QED
    BY <1>2, <2>1, <2>2, <2>3, ShortChannels DEF Stage, MqttOpening
<1>9. CASE MqttClientConnack
  <2>1. /\ at.client = "CONNACK" /\ MqttTakes("client", "CONNACK", <<"SUBSCRIBE">>)
        /\ at'.client = "SUBACK"
    BY <1>6, <1>9 DEF MqttClientConnack
  <2>2. CASE Stage("SUBSCRIBE", "CONNACK", <<>>, <<"CONNACK">>)
    BY ZenonT(60), <1>2, <1>7, <2>1, <2>2, ShortChannels DEF Stage, MqttOpening
  <2>3. CASE Stage("CONNECT", "CONNACK", <<"CONNECT">>, <<>>)
    BY <1>7, <2>1, <2>3 DEF Stage
  <2>4. QED
    BY <1>5, <2>1, <2>2, <2>3 DEF MqttOpening, MqttReplay, MqttEnding, Stage
<1>10. CASE MqttClientSuback /\ ~(Finish("client", ABORT) \/ Killed("client"))
  <2>1. /\ at.client = "SUBACK"
        /\ \/ /\ scenario = "qos2-replay" /\ MqttTakes("client", "SUBACK", <<"PUBLISH">>)
              /\ at'.client = "PUBREC"
           \/ /\ scenario # "qos2-replay"
              /\ MqttTakes("client", "SUBACK", <<"PUBLISH", "DISCONNECT">>)
              /\ at'.client = "exit"
    BY <1>1, <1>6, <1>10, Moves DEF MqttClientSuback
  <2>2. CASE Stage("PUBLISH", "SUBACK", <<>>, <<"SUBACK">>)
    <3>1. /\ at.server = "PUBLISH" /\ net.server = <<>> /\ net.client = <<"SUBACK">>
          /\ SubSeq(<<"SUBACK">>, 2, Len(<<"SUBACK">>)) = <<>>
          /\ <<>> \o <<"PUBLISH">> = <<"PUBLISH">>
          /\ <<>> \o <<"PUBLISH", "DISCONNECT">> = <<"PUBLISH", "DISCONNECT">>
      BY <2>2, ShortChannels DEF Stage
    <3>2. CASE scenario = "qos2-replay"
      <4>1. net'.client = <<>> /\ net'.server = <<"PUBLISH">> /\ at'.client = "PUBREC"
        BY <1>7, <2>1, <3>1, <3>2
      <4>2. QED
        BY <1>2, <3>1, <3>2, <4>1 DEF Stage, MqttReplay
    <3>3. CASE scenario # "qos2-replay"
      <4>1. /\ net'.client = <<>> /\ net'.server = <<"PUBLISH", "DISCONNECT">>
            /\ at'.client = "exit"
        BY <1>7, <2>1, <3>1, <3>3
      <4>2. QED
        BY <1>2, <3>1, <3>3, <4>1 DEF Stage, MqttEnding
    <3>4. QED
      BY <3>2, <3>3
  <2>3. CASE \/ Stage("SUBSCRIBE", "SUBACK", <<"SUBSCRIBE">>, <<>>)
             \/ Stage("exit", "SUBACK", <<>>, <<"SUBACK 0x80">>)
    <3>1. net.client # <<>> /\ Head(net.client) = "SUBACK"
      BY <1>7, <2>1
    <3>2. net.client = <<>> \/ net.client = <<"SUBACK 0x80">>
      BY <2>3 DEF Stage
    <3>3. Head(<<"SUBACK 0x80">>) = "SUBACK 0x80"
      BY ShortChannels
    <3>4. QED
      BY <3>1, <3>2, <3>3
  <2>4. QED
    BY <1>5, <2>1, <2>2, <2>3 DEF MqttOpening, MqttReplay, MqttEnding, Stage
<1>11. CASE MqttClientPubrec
  <2>1. /\ at.client = "PUBREC" /\ MqttTakes("client", "PUBREC", <<>>)
        /\ at'.client = "PUBREC again"
    BY <1>6, <1>11 DEF MqttClientPubrec
  <2>2. CASE /\ scenario = "qos2-replay"
             /\ \/ Stage("pause", "PUBREC", <<>>, <<"PUBREC">>)
                \/ Stage("exit", "PUBREC", <<>>, <<"PUBREC", "PUBREC">>)
    <3>1. /\ net'.client = SubSeq(net.client, 2, Len(net.client))
          /\ net'.server = <<>> \o <<>> /\ at'.client = "PUBREC again"
          /\ at'.server = at.server
      BY <1>2, <1>7, <2>1, <2>2 DEF Stage
    <3>2. /\ SubSeq(<<"PUBREC">>, 2, Len(<<"PUBREC">>)) = <<>> /\ <<>> \o <<>> = <<>>
          /\ SubSeq(<<"PUBREC", "PUBREC">>, 2, Len(<<"PUBREC", "PUBREC">>)) = <<"PUBREC">>
      BY ShortChannels
    <3>3. CASE Stage("pause", "PUBREC", <<>>, <<"PUBREC">>)
      BY <2>2, <3>1, <3>2, <3>3 DEF Stage, MqttReplay
    <3>4. CASE Stage("exit", "PUBREC", <<>>, <<"PUBREC", "PUBREC">>)
      BY <2>2, <3>1, <3>2, <3>4 DEF Stage, MqttReplay
    <3>5. QED
      BY <2>2, <3>3, <3>4
  <2>3. CASE Stage("PUBLISH", "PUBREC", <<"PUBLISH">>, <<>>)
    BY <1>7, <2>1, <2>3 DEF Stage
  <2>4. QED
    BY <1>5, <2>1, <2>2, <2>3 DEF MqttOpening, MqttReplay, MqttEnding, Stage
<1>12. CASE MqttClientPubrecAgain
  <2>1. at.client = "PUBREC again" /\ net.client # <<>>
        /\ Finish("client", IF MqttReplaySeen(Head(net.client)) THEN ABORT ELSE OK)
    BY <1>12 DEF MqttClientPubrecAgain
  <2>2. Head(net.client) = "PUBREC"
    BY <1>5, <2>1, ShortChannels DEF MqttOpening, MqttReplay, MqttEnding, Stage
  <2>3. QED
    BY <1>4, <2>1, <2>2 DEF MqttReplaySeen
<1>13. CASE MqttClientNoReplay
  <2>1. /\ at.client = "PUBREC again" /\ at.server = "exit"
        /\ net.client = <<>> \/ net.server # <<>>
    BY <1>1, <1>13, OtherIs DEF MqttClientNoReplay, ReceiveFails, Ended
  <2>2. QED
    BY <1>5, <2>1, ShortChannels DEF MqttOpening, MqttReplay, MqttEnding, Stage
<1>14. QED
  BY <1>4, <1>8, <1>9, <1>10, <1>11, <1>12, <1>13
     DEF MqttClient, MqttClientStart, MqttClientFails

LEMMA MqttInitially == Init => MqttInv
<1>. SUFFICES ASSUME Init, protocol = "mqtt"
              PROVE  MqttParts
  BY DEF MqttInv, MqttUndisturbed
<1>1. MqttInit
  BY DEF Init, QuicInit, RadiusInit, SipInit, DnsInit, TcpInit, WebInit, Http2Init, WsInit,
         PacketInit, DigestInit, RequestInit, FramesInit
<1>2. /\ net.server = <<>> /\ net.client = <<>> /\ Pair(net)
      /\ at.server = "CONNECT" /\ at.client = "start" /\ faults \in StreamFaults
  BY <1>1, PlacesInit DEF MqttInit
<1>3. QED
  BY <1>2 DEF MqttParts, MqttOpening, Stage

LEMMA MqttNextKeeps == MqttInv /\ ReportedOnce /\ [Next]_demoVars => MqttInv'
<1>. SUFFICES ASSUME MqttInv, ReportedOnce, [Next]_demoVars, MqttUndisturbed'
              PROVE  MqttParts'
  BY DEF MqttInv
<1>1. SettingsStay /\ protocol = "mqtt" /\ faults \cap {"stop", "merge"} = {}
  BY SettingsKept DEF SettingsStay, MqttUndisturbed
<1>2. MqttParts /\ faults \in StreamFaults
  BY <1>1 DEF MqttInv, MqttUndisturbed, MqttParts
<1>3. CASE UNCHANGED demoVars
  BY <1>2, <1>3 DEF demoVars, MqttParts, MqttOpening, MqttReplay, MqttEnding, Stage, Pair,
     PrintsOk
<1>4. MqttServer \/ MqttClient \/ UNCHANGED demoVars
  <2>1. ~Lose /\ ~Duplicate
    BY <1>2, StreamsReliable DEF Lose, Duplicate
  <2>2. QED
    BY <1>1, <2>1 DEF Next, Server, Client, Strangers, TcpFamily, WebFamily
<1>5. QED
  BY <1>1, <1>2, <1>3, <1>4, MqttServerNext, MqttClientNext

LEMMA MqttAgrees == MqttInv /\ MqttUndisturbed /\ PrintsOk("client") /\ at.server = "exit"
                      /\ ReportedOnce => PrintsOk("server")
BY ReportsOk DEF MqttInv, MqttParts, MqttOpening, MqttReplay, MqttEnding, Stage

-----------------------------------------------------------------------------
(***************************************************************************)
(* Http2Demo: with no signal, a client that has ended with OK has had the  *)
(* data of every stream, and the server has ended, or waits for nothing    *)
(* but the end of the connection.                                          *)
(***************************************************************************)
\* How many frames of its streams the client has taken, and the server has sent; and how
\* many requests the server has read.
H2Taken == 2 * (mem.stream - 1) + (IF at.client = "data" THEN 1 ELSE 0)
H2Sent == 2 * mem.seen + (IF at.server = "body" THEN 1 ELSE 0)
H2Begun == mem.seen + (IF at.server = "body" THEN 1 ELSE 0)

\* What follows the first n frames: a stream is a HEADERS and a DATA.
H2InTurn(n, frames) ==
  \A j \in 1..Len(frames), k \in Nat :
    /\ n + j = 2 * k => frames[j].type = "DATA"
    /\ n + j = 2 * k + 1 => frames[j].type = "HEADERS"

\* The requests not yet read, of n, come behind the acknowledgement of the server's SETTINGS.
H2Requests(n, begun, frames) ==
  \/ /\ Len(frames) = n + 1 /\ begun = 0 /\ frames[1].type = "SETTINGS"
     /\ \A j \in 2..Len(frames) : frames[j].type = "HEADERS"
  \/ /\ Len(frames) = n - begun
     /\ \A j \in 1..Len(frames) : frames[j].type = "HEADERS"

H2Opening ==
  /\ mem.seen = 0 /\ mem.stream = 1
  /\ \/ Stage("preface", "start", <<>>, <<>>)
     \/ Stage("preface", "settings", <<H2Frame("PREFACE"), H2Frame("SETTINGS")>>, <<>>)
     \/ Stage("settings", "settings", <<H2Frame("SETTINGS")>>, <<>>)
     \/ Stage("frames", "settings", <<>>, <<H2Frame("SETTINGS"), H2Frame("SETTINGS")>>)

H2Streaming ==
  /\ at.client \in {"headers", "data"} /\ at.server \in {"frames", "body"}
  /\ mem.stream \in 1..H2Streams
  /\ scenario = "multiplex" => mem.seen < Multiplexed
  /\ scenario = "hpack-overflow" => H2Sent = 0
  /\ H2Taken + Len(net.client) = H2Sent
  /\ H2InTurn(H2Taken, net.client) /\ H2Requests(H2Streams, H2Begun, net.server)

H2Refusing ==
  /\ scenario = "hpack-overflow" /\ at.server = "exit" /\ at.client = "headers"
  /\ net.server = <<>> /\ net.client # <<>> /\ Head(net.client).type = "RST_STREAM"

H2Served ==
  scenario # "multiplex" /\ at.server = "frames" /\ at.client = "exit" /\ net.server = <<>>

H2Stages ==
  /\ ~mem.cancelled /\ stopped = {}
  /\ H2Opening \/ H2Streaming \/ H2Refusing \/ H2Served

H2Agreement ==
  PrintsOk("server") \/ (at.client = "exit" /\ ~PrintsOk("client")) \/ H2Stages

H2Undisturbed == protocol = "http2" /\ "stop" \notin faults
H2AgreeInv == H2Undisturbed => H2Agreement

LEMMA InTurnTaken ==
  ASSUME NEW n \in Nat, NEW old, NEW new, Len(old) \in Nat, Len(new) \in Nat,
         Shrinks(old, new), H2InTurn(n, old)
  PROVE  H2InTurn(n + 1, new)
<1>1. \A j \in 1..Len(new) : new[j] = old[j + 1] /\ j + 1 \in 1..Len(old)
  BY ShrinksIs
<1>2. \A j \in 1..Len(new) : (n + 1) + j = n + (j + 1)
  OBVIOUS
<1>3. ASSUME NEW j \in 1..Len(new), NEW k \in Nat
      PROVE  /\ (n + 1) + j = 2 * k => new[j].type = "DATA"
             /\ (n + 1) + j = 2 * k + 1 => new[j].type = "HEADERS"
  <2>1. /\ n + (j + 1) = 2 * k => old[j + 1].type = "DATA"
        /\ n + (j + 1) = 2 * k + 1 => old[j + 1].type = "HEADERS"
    BY <1>1 DEF H2InTurn
  <2>2. QED
    BY <1>1, <1>2, <2>1
<1>4. QED
  BY <1>3 DEF H2InTurn

LEMMA InTurnSent ==
  ASSUME NEW n \in Nat, NEW old, NEW new, Len(old) \in Nat, NEW m, Gains(old, new, m),
         H2InTurn(n, old), NEW sent, sent = n + Len(old),
         \A k \in Nat : /\ sent + 1 = 2 * k => m.type = "DATA"
                        /\ sent + 1 = 2 * k + 1 => m.type = "HEADERS"
  PROVE  H2InTurn(n, new)
<1>1. ASSUME NEW j \in 1..Len(new), NEW k \in Nat
      PROVE  /\ n + j = 2 * k => new[j].type = "DATA"
             /\ n + j = 2 * k + 1 => new[j].type = "HEADERS"
  <2>1. Len(new) = Len(old) + 1
    BY DEF Gains
  <2>2. CASE j \in 1..Len(old)
    <3>1. new[j] = old[j]
      BY <2>2 DEF Gains
    <3>2. QED
      BY SMTT(60), <2>2, <3>1 DEF H2InTurn
  <2>3. CASE j = Len(old) + 1
    <3>1. new[j] = m /\ n + j = sent + 1
      BY <2>3 DEF Gains
    <3>2. QED
      BY <3>1
  <2>4. QED
    BY <2>1, <2>2, <2>3
<1>2. QED
  BY <1>1 DEF H2InTurn

LEMMA RequestTaken ==
  ASSUME NEW n \in Nat, NEW begun \in Nat, NEW old, NEW new, Len(old) \in Nat, Len(new) \in Nat,
         Shrinks(old, new), H2Requests(n, begun, old)
  PROVE  /\ old[1].type = "HEADERS" => H2Requests(n, begun + 1, new)
         /\ old[1].type # "HEADERS" => old[1].type = "SETTINGS" /\ H2Requests(n, begun, new)
<1>1. /\ Len(new) = Len(old) - 1
      /\ \A j \in 1..Len(new) : new[j] = old[j + 1] /\ j + 1 \in 2..Len(old)
  <2>1. Len(new) = Len(old) - 1 /\ \A j \in 1..Len(new) : new[j] = old[j + 1]
    BY ShrinksIs
  <2>2. QED
    BY <2>1
<1>2. CASE /\ Len(old) = n + 1 /\ begun = 0 /\ old[1].type = "SETTINGS"
           /\ \A j \in 2..Len(old) : old[j].type = "HEADERS"
  <2>1. Len(new) = n - begun /\ \A j \in 1..Len(new) : new[j].type = "HEADERS"
    BY <1>1, <1>2
  <2>2. QED
    BY <1>2, <2>1 DEF H2Requests
<1>3. CASE /\ Len(old) = n - begun
           /\ \A j \in 1..Len(old) : old[j].type = "HEADERS"
  <2>1. 1 \in 1..Len(old) /\ 2..Len(old) \subseteq 1..Len(old)
    BY <1>1
  <2>2. old[1].type = "HEADERS"
    BY <1>3, <2>1
  <2>3. Len(new) = n - (begun + 1) /\ \A j \in 1..Len(new) : new[j].type = "HEADERS"
    BY <1>1, <1>3, <2>1
  <2>4. QED
    BY <2>2, <2>3 DEF H2Requests
<1>4. QED
  BY <1>2, <1>3 DEF H2Requests

LEMMA H2NextFrameIs ==
  ASSUME Pair(at), Pair(results), stopped = {}, "stop" \notin faults, H2ServerNextFrame
  PROVE  stopped' = {} /\ at'.server = "frames"
BY Moves DEF H2ServerNextFrame, SignalWhileBusy

\* The numbers behind the stages.
LEMMA H2Counts ==
  ASSUME H2Parts
  PROVE  /\ mem.seen \in Nat /\ mem.stream \in Nat /\ H2Sent \in Nat /\ H2Begun \in Nat
         /\ H2Streams \in Nat \ {0} /\ Len(net.client) \in Nat /\ Len(net.server) \in Nat
         /\ mem.stream # 0 => H2Taken \in Nat
         /\ at.client # "data" => H2Taken = 2 * (mem.stream - 1)
         /\ at.client = "data" => H2Taken = 2 * mem.stream - 1
         /\ at.server # "body" => H2Sent = 2 * mem.seen /\ H2Begun = mem.seen
         /\ at.server = "body" => H2Sent = 2 * mem.seen + 1 /\ H2Begun = mem.seen + 1
         /\ scenario = "multiplex" => H2Streams = Multiplexed
         /\ scenario # "multiplex" => H2Streams = 1
<1>1. /\ mem.seen \in Nat /\ mem.stream \in Nat
      /\ Len(net.client) \in Nat /\ Len(net.server) \in Nat
  BY DEF H2Parts, Channels, H2Mem
<1>2. /\ H2Streams \in Nat \ {0}
      /\ scenario = "multiplex" => H2Streams = Multiplexed
      /\ scenario # "multiplex" => H2Streams = 1
  BY Http2Assumption DEF H2Streams
<1>3. /\ mem.stream # 0 => H2Taken \in Nat
      /\ at.client # "data" => H2Taken = 2 * (mem.stream - 1)
      /\ at.client = "data" => H2Taken = 2 * mem.stream - 1
  BY <1>1 DEF H2Taken
<1>4. /\ H2Sent \in Nat /\ H2Begun \in Nat
      /\ at.server # "body" => H2Sent = 2 * mem.seen /\ H2Begun = mem.seen
      /\ at.server = "body" => H2Sent = 2 * mem.seen + 1 /\ H2Begun = mem.seen + 1
  BY <1>1 DEF H2Sent, H2Begun
<1>5. QED
  BY <1>1, <1>2, <1>3, <1>4

\* The server while it answers the requests.
LEMMA H2ServerStreams ==
  ASSUME H2Parts, H2Parts', ReportedOnce, SettingsStay, ~mem.cancelled, stopped = {},
         "stop" \notin faults, H2Streaming, H2Server
  PROVE  H2Agreement'
<1>1. /\ Pair(at) /\ Pair(results) /\ Channels(H2Messages)
      /\ scenario' = scenario /\ H2Streams' = H2Streams
      /\ mem \in H2Mem
  BY DEF ReportedOnce, SettingsStay, H2Streams, H2Parts
<1>2. /\ at.client \in {"headers", "data"} /\ at.server \in {"frames", "body"}
      /\ mem.stream \in 1..H2Streams
      /\ scenario = "multiplex" => mem.seen < Multiplexed
      /\ scenario = "hpack-overflow" => H2Sent = 0
      /\ H2Taken + Len(net.client) = H2Sent
      /\ H2InTurn(H2Taken, net.client) /\ H2Requests(H2Streams, H2Begun, net.server)
  BY DEF H2Streaming
<1>3. at'.client = at.client
  BY H2ServerActs, ReportIs DEF Programs
<1>4. net.server # <<>> => Head(net.server) = net.server[1]
  BY <1>1, FirstOf DEF Channels
<1>5. CASE H2ServerHeaders
  <2>. DEFINE m == H2Stream("HEADERS", Head(net.server).id)
  <2>1. /\ at.server = "frames" /\ net.server # <<>> /\ net.server[1].type = "HEADERS"
        /\ scenario # "hpack-overflow" /\ Exchange("server", 1, <<m>>)
        /\ at'.server = "body" /\ mem' = mem /\ stopped' = {}
    BY <1>1, <1>4, <1>5, Moves DEF H2ServerHeaders, quietVars
  <2>2. m \in H2Messages /\ m.type = "HEADERS"
    BY <1>1, <1>4, <2>1, FirstOf, H2MessagesAre DEF Channels
  <2>. HIDE DEF m
  <2>3. Shrinks(net.server, net'.server) /\ Gains(net.client, net'.client, m)
    BY <1>1, <2>1, <2>2, ServerAnswers
  <2>4. H2Requests(H2Streams, H2Begun + 1, net'.server)
    <3>1. /\ H2Streams \in Nat /\ H2Begun \in Nat
          /\ Len(net.server) \in Nat /\ Len(net'.server) \in Nat
      BY H2Counts DEF H2Parts, Channels
    <3>2. QED
      BY <1>2, <2>1, <2>3, <3>1, RequestTaken
  <2>5. H2InTurn(H2Taken, net'.client)
    <3>1. \A k \in Nat : /\ H2Sent + 1 # 2 * k
                         /\ m.type = "HEADERS"
      BY <2>1, <2>2, H2Counts
    <3>2. H2Taken \in Nat /\ Len(net.client) \in Nat /\ H2Sent = H2Taken + Len(net.client)
      BY <1>2, H2Counts
    <3>3. QED
      BY <1>2, <2>3, <3>1, <3>2, InTurnSent
  <2>6. /\ H2Taken' = H2Taken /\ H2Sent' = H2Sent + 1 /\ H2Begun' = H2Begun + 1
        /\ Len(net'.client) = Len(net.client) + 1
    <3>1. H2Taken' = H2Taken
      BY <1>3, <2>1 DEF H2Taken
    <3>2. H2Sent' = H2Sent + 1 /\ H2Begun' = H2Begun + 1
      BY <2>1, H2Counts DEF H2Sent, H2Begun
    <3>3. QED
      BY <2>3, <3>1, <3>2 DEF Gains
  <2>7. H2Taken' + Len(net'.client) = H2Sent'
    BY <1>2, <2>6, H2Counts
  <2>8. H2Streaming'
    BY <1>1, <1>2, <1>3, <2>1, <2>4, <2>5, <2>6, <2>7 DEF H2Streaming
  <2>9. QED
    BY <2>1, <2>8 DEF H2Agreement, H2Stages
<1>6. CASE H2ServerBody
  <2>. DEFINE next == mem.seen + 1
              m == H2Stream("DATA", next)
  <2>1. /\ at.server = "body" /\ next \in Nat /\ mem' = [mem EXCEPT !.seen = next]
        /\ mem'.seen = next
        /\ mem'.cancelled = mem.cancelled /\ mem'.stream = mem.stream
    BY <1>1, <1>6 DEF H2ServerBody, H2Mem
  <2>2. Send("server", <<m>>)
    BY <1>6, <2>1 DEF H2ServerBody
  <2>3. m \in H2Messages /\ m.type = "DATA"
    BY <2>1, H2MessagesAre
  <2>4. \/ Finish("server", OK)
        \/ ~(scenario = "multiplex" /\ next = Multiplexed) /\ H2ServerNextFrame
    BY <1>6, <2>1 DEF H2ServerBody, H2ServerResult
  <2>. HIDE DEF m
  <2>5. CASE Finish("server", OK)
    BY <2>5, OkStays DEF H2Agreement
  <2>6. CASE ~(scenario = "multiplex" /\ next = Multiplexed) /\ H2ServerNextFrame
    <3>1. at'.server = "frames" /\ stopped' = {}
      BY <1>1, <2>6, H2NextFrameIs
    <3>2. net'.server = net.server /\ Gains(net.client, net'.client, m)
      BY <1>1, <2>2, <2>3, ServerSendsOne
    <3>3. /\ H2Taken' = H2Taken /\ H2Sent' = H2Sent + 1 /\ H2Begun' = H2Begun
          /\ H2Sent + 1 = 2 * next
      <4>1. H2Taken' = H2Taken
        BY <1>3, <2>1 DEF H2Taken
      <4>2. H2Sent' = 2 * next /\ H2Begun' = next
        BY <2>1, <3>1 DEF H2Sent, H2Begun
      <4>3. H2Sent = 2 * mem.seen + 1 /\ H2Begun = next /\ mem.seen \in Nat
        BY <2>1, H2Counts
      <4>4. QED
        BY <4>1, <4>2, <4>3
    <3>4. H2InTurn(H2Taken, net'.client)
      <4>1. \A k \in Nat : /\ H2Sent + 1 = 2 * k => m.type = "DATA"
                           /\ H2Sent + 1 = 2 * k + 1 => m.type = "HEADERS"
        <5>1. \A k \in Nat : H2Sent + 1 # 2 * k + 1
          BY <2>1, <3>3
        <5>2. QED
          BY <2>3, <5>1
      <4>2. H2Taken \in Nat /\ Len(net.client) \in Nat /\ H2Sent = H2Taken + Len(net.client)
        BY <1>2, H2Counts
      <4>3. Gains(net.client, net'.client, m) /\ H2InTurn(H2Taken, net.client)
        BY <1>2, <3>2
      <4>4. PICK n, sent, old, new :
              n = H2Taken /\ sent = H2Sent /\ old = net.client /\ new = net'.client
        OBVIOUS
      <4>5. /\ n \in Nat /\ Len(old) \in Nat /\ sent = n + Len(old)
            /\ Gains(old, new, m) /\ H2InTurn(n, old)
        BY <4>2, <4>3, <4>4
      <4>6. \A k \in Nat : /\ sent + 1 = 2 * k => m.type = "DATA"
                           /\ sent + 1 = 2 * k + 1 => m.type = "HEADERS"
        BY <4>1, <4>4
      <4>7. H2InTurn(n, new)
        BY <4>5, <4>6, InTurnSent
      <4>8. QED
        BY <4>4, <4>7
    <3>5. H2Taken' + Len(net'.client) = H2Sent'
      BY <1>2, <3>2, <3>3, H2Counts DEF Gains
    <3>6. scenario = "multiplex" => mem'.seen < Multiplexed
      BY <1>2, <2>1, <2>6, H2Counts, Http2Assumption
    <3>7. scenario # "hpack-overflow"
      BY <1>2, <2>1, H2Counts
    <3>8. H2Streaming'
      BY <1>1, <1>2, <1>3, <2>1, <3>1, <3>2, <3>3, <3>4, <3>5, <3>6, <3>7 DEF H2Streaming
    <3>9. QED
      BY <2>1, <3>1, <3>8 DEF H2Agreement, H2Stages
  <2>7. QED
    BY <2>4, <2>5, <2>6
<1>7. CASE H2ServerOverflow
  <2>. DEFINE m == H2Stream("RST_STREAM", Head(net.server).id)
  <2>1. /\ at.server = "frames" /\ net.server # <<>> /\ net.server[1].type = "HEADERS"
        /\ scenario = "hpack-overflow" /\ Exchange("server", 1, <<m>>)
        /\ at'.server = "exit" /\ mem' = mem /\ stopped' = {}
    BY <1>1, <1>4, <1>7, Moves DEF H2ServerOverflow, quietVars
  <2>2. m \in H2Messages /\ m.type = "RST_STREAM"
    BY <1>1, <1>4, <2>1, FirstOf, H2MessagesAre DEF Channels
  <2>. HIDE DEF m
  <2>3. /\ Channels(H2Messages)'
        /\ Shrinks(net.server, net'.server) /\ Gains(net.client, net'.client, m)
    BY <1>1, <2>1, <2>2, ServerAnswers
  <2>4. Len(net.client) = 0 /\ at.client = "headers" /\ H2Begun = 0 /\ H2Streams = 1
    <3>1. H2Taken \in Nat /\ H2Sent = 0 /\ mem.seen = 0 /\ mem.stream \in Nat
      BY <1>2, <2>1, H2Counts
    <3>2. QED
      BY <1>2, <2>1, <3>1, H2Counts
  <2>5. net'.client # <<>> /\ Head(net'.client) = m
    <3>1. net'.client \in Seq(H2Messages) /\ Len(net'.client) = 1 /\ net'.client[1] = m
      BY <2>3, <2>4 DEF Gains, Channels
    <3>2. net'.client # <<>>
      BY <3>1
    <3>3. QED
      BY <3>1, <3>2, FirstOf
  <2>6. net'.server = <<>>
    <3>1. /\ Len(net.server) \in Nat /\ Len(net'.server) \in Nat
          /\ H2Requests(1, 0, net.server)
      <4>1. Len(net.server) \in Nat /\ Len(net'.server) \in Nat
        BY <2>3, H2Counts DEF Channels
      <4>2. H2Requests(H2Streams, H2Begun, net.server) /\ H2Streams = 1 /\ H2Begun = 0
        BY <1>2, <2>4
      <4>3. QED
        BY <4>1, <4>2
    <3>2. Len(net.server) = 1
      BY <2>1, <3>1 DEF H2Requests
    <3>3. Len(net'.server) = 0 /\ net'.server \in Seq(H2Messages)
      BY <2>3, <3>1, <3>2 DEF Shrinks, Channels
    <3>4. QED
      BY <3>3, EmptySeq
  <2>7. H2Refusing'
    BY <1>1, <1>3, <2>1, <2>2, <2>4, <2>5, <2>6 DEF H2Refusing
  <2>8. QED
    BY <2>1, <2>7 DEF H2Agreement, H2Stages
<1>8. CASE H2ServerOtherFrame
  <2>1. /\ at.server = "frames" /\ net.server # <<>>
        /\ net.server[1].type \in {"SETTINGS", "RST_STREAM"} /\ Exchange("server", 1, <<>>)
        /\ H2ServerNextFrame
        /\ mem' = [mem EXCEPT !.cancelled = mem.cancelled \/ net.server[1].type = "RST_STREAM"]
    BY <1>4, <1>8 DEF H2ServerOtherFrame
  <2>2. Shrinks(net.server, net'.server) /\ net'.client = net.client
    BY <1>1, <2>1, ServerTakes
  <2>3. net.server[1].type = "SETTINGS" /\ H2Requests(H2Streams, H2Begun, net'.server)
    <3>1. /\ H2Streams \in Nat /\ H2Begun \in Nat
          /\ Len(net.server) \in Nat /\ Len(net'.server) \in Nat
      BY H2Counts DEF H2Parts, Channels
    <3>2. net.server[1].type # "HEADERS"
      BY <2>1
    <3>3. QED
      BY <1>2, <2>2, <3>1, <3>2, RequestTaken
  <2>4. /\ mem'.seen = mem.seen /\ mem'.stream = mem.stream
        /\ mem'.cancelled = (mem.cancelled \/ net.server[1].type = "RST_STREAM")
    BY <1>1, <2>1 DEF H2Mem
  <2>5. ~mem'.cancelled
    BY <2>3, <2>4
  <2>6. at'.server = "frames" /\ stopped' = {}
    BY <1>1, <2>1, H2NextFrameIs
  <2>7. H2Taken' = H2Taken /\ H2Sent' = H2Sent /\ H2Begun' = H2Begun
    BY <1>3, <2>1, <2>4, <2>6 DEF H2Taken, H2Sent, H2Begun
  <2>8. H2Streaming'
    BY <1>1, <1>2, <1>3, <2>2, <2>3, <2>4, <2>6, <2>7 DEF H2Streaming
  <2>9. QED
    BY <2>5, <2>6, <2>8 DEF H2Agreement, H2Stages
<1>9. CASE H2ServerPreface \/ H2ServerSettings \/ H2ServerReceiveFails \/ H2ServerSendBreaks
  <2>1. \/ at.server \in {"preface", "settings"}
        \/ at.client = "exit"
    BY <1>9, OtherIs DEF H2ServerPreface, H2ServerSettings, H2ServerReceiveFails,
       H2ServerSendBreaks, ReceiveFails, Ended
  <2>2. QED
    BY <1>2, <2>1
<1>10. QED
  BY <1>5, <1>6, <1>7, <1>8, <1>9 DEF H2Server

\* The server before the first request, and when the client has ended.
LEMMA H2ServerAgrees ==
  ASSUME H2Agreement, H2Parts, H2Parts', ReportedOnce, SettingsStay, "stop" \notin faults,
         H2Server
  PROVE  H2Agreement'
<1>1. /\ Pair(at) /\ Pair(results) /\ Pair(net) /\ Channels(H2Messages)
      /\ scenario' = scenario
  BY DEF ReportedOnce, SettingsStay, H2Parts, Channels
<1>2. /\ Acts("server") /\ at'.client = at.client /\ results'.client = results.client
      /\ (PrintsOk("client")' <=> PrintsOk("client"))
  BY H2ServerActs, ReportIs DEF Programs, PrintsOk
<1>3. CASE PrintsOk("server")
  BY <1>2, <1>3, OkStays DEF H2Agreement, Programs
<1>4. CASE at.client = "exit" /\ ~PrintsOk("client")
  BY <1>2, <1>4 DEF H2Agreement
<1>5. CASE H2Stages /\ H2Streaming
  BY <1>5, H2ServerStreams DEF H2Stages
<1>6. CASE H2Stages /\ (H2Opening \/ H2Refusing \/ H2Served)
  <2>1. /\ ~mem.cancelled /\ stopped = {} /\ at.server # "exit"
    BY <1>6 DEF H2Stages, H2Server, H2ServerPreface, H2ServerSettings, H2ServerHeaders,
       H2ServerBody, H2ServerOverflow, H2ServerOtherFrame, H2ServerReceiveFails, H2ServerSendBreaks
  <2>2. H2Opening \/ H2Served
    BY <1>6, <2>1 DEF H2Refusing
  <2>. DEFINE p == H2Frame("PREFACE")
              s == H2Frame("SETTINGS")
  <2>3. /\ H2Opening =>
             /\ mem.seen = 0 /\ mem.stream = 1
             /\ \/ Stage("preface", "start", <<>>, <<>>)
                \/ Stage("preface", "settings", <<p, s>>, <<>>)
                \/ Stage("settings", "settings", <<s>>, <<>>)
                \/ Stage("frames", "settings", <<>>, <<s, s>>)
    BY DEF H2Opening
  <2>. HIDE DEF p
  <2>4. \A msgs : Exchange("server", 1, msgs) /\ net.server # <<>> =>
          /\ net'.server = SubSeq(net.server, 2, Len(net.server))
          /\ net'.client = net.client \o msgs
    <3>1. net.server # <<>> => RemoveAt(net.server, 1) = SubSeq(net.server, 2, Len(net.server))
      BY <1>1, FirstRemoved DEF Channels
    <3>2. \A msgs : Exchange("server", 1, msgs) =>
            net' = [server |-> RemoveAt(net.server, 1), client |-> net.client \o msgs]
      BY <1>1, ExchangeIs
    <3>3. QED
      BY <3>1, <3>2
  <2>5. CASE H2ServerPreface
    <3>1. /\ at.server = "preface" /\ net.server # <<>> /\ Exchange("server", 1, <<>>)
          /\ at'.server = "settings" /\ mem' = mem /\ stopped' = stopped
      BY <1>1, <2>5, Moves DEF H2ServerPreface, quietVars
    <3>2. Stage("preface", "settings", <<p, s>>, <<>>)
      BY <2>2, <2>3, <3>1 DEF H2Served, Stage
    <3>3. net'.server = <<s>> /\ net'.client = <<>>
      BY <2>4, <3>1, <3>2, ShortChannels DEF Stage
    <3>4. H2Opening'
      BY <1>2, <2>2, <2>3, <3>1, <3>2, <3>3 DEF H2Opening, H2Served, Stage
    <3>5. QED
      BY <2>1, <3>1, <3>4 DEF H2Agreement, H2Stages
  <2>6. CASE H2ServerSettings
    <3>1. /\ at.server = "settings" /\ net.server # <<>> /\ Exchange("server", 1, <<s, s>>)
          /\ H2ServerNextFrame /\ mem' = mem
      BY <2>6 DEF H2ServerSettings
    <3>. HIDE DEF s
    <3>2. stopped' = {} /\ at'.server = "frames"
      BY <1>1, <2>1, <3>1, H2NextFrameIs
    <3>3. H2Opening /\ Stage("settings", "settings", <<s>>, <<>>)
      BY <2>2, <2>3, <3>1 DEF H2Served, Stage
    <3>4. net'.server = <<>> /\ net'.client = <<s, s>>
      <4>1. /\ net.server = <<s>> /\ net.client = <<>>
            /\ SubSeq(<<s>>, 2, Len(<<s>>)) = <<>> /\ <<>> \o <<s, s>> = <<s, s>>
        BY <3>3, ShortChannels DEF Stage
      <4>2. /\ net'.server = SubSeq(net.server, 2, Len(net.server))
            /\ net'.client = net.client \o <<s, s>>
        BY <2>4, <3>1
      <4>3. QED
        BY <4>1, <4>2
    <3>5. H2Opening'
      <4>1. /\ at'.server = "frames" /\ at'.client = "settings"
            /\ mem'.seen = 0 /\ mem'.stream = 1
        BY <1>2, <2>3, <3>1, <3>2, <3>3 DEF Stage
      <4>2. QED
        BY <3>4, <4>1 DEF H2Opening, Stage, s
    <3>6. QED
      BY <2>1, <3>1, <3>2, <3>5 DEF H2Agreement, H2Stages
  <2>7. CASE H2ServerHeaders \/ H2ServerBody \/ H2ServerOverflow \/ H2ServerOtherFrame
    <3>1. at.server = "body" \/ (at.server = "frames" /\ net.server # <<>>)
      BY <2>7 DEF H2ServerHeaders, H2ServerBody, H2ServerOverflow, H2ServerOtherFrame
    <3>2. QED
      BY <2>2, <2>3, <3>1 DEF H2Served, Stage
  <2>8. CASE H2ServerReceiveFails \/ H2ServerSendBreaks
    <3>1. at.client = "exit"
      BY <2>8, OtherIs DEF H2ServerReceiveFails, H2ServerSendBreaks, ReceiveFails, Ended
    <3>2. at.server = "frames" /\ net.server = <<>>
      BY <2>2, <2>3, <3>1 DEF H2Served, Stage
    <3>3. Finish("server", OK)
      BY <2>1, <2>8, <3>2 DEF H2ServerReceiveFails, H2ServerSendBreaks, H2ServerResult
    <3>4. QED
      BY <3>3, OkStays DEF H2Agreement
  <2>9. QED
    BY <2>5, <2>6, <2>7, <2>8 DEF H2Server
<1>7. QED
  BY <1>3, <1>4, <1>5, <1>6 DEF H2Agreement, H2Stages

\* The client before the first answer, and when it has lost the connection.
LEMMA H2ClientAgrees ==
  ASSUME H2Agreement, H2Parts, H2Parts', ReportedOnce, SettingsStay, "stop" \notin faults,
         H2Client
  PROVE  H2Agreement'
<1>1. /\ Pair(at) /\ Pair(results) /\ Pair(net) /\ Channels(H2Messages) /\ mem \in H2Mem
      /\ scenario' = scenario /\ H2Streams' = H2Streams
      /\ at.client # "exit"
  BY DEF ReportedOnce, SettingsStay, H2Parts, H2Streams, Channels, H2Client, H2ClientStart,
         H2ClientSettings, H2ClientSettingsFail, H2ClientHeaders, H2ClientData, H2ClientLost,
         H2ClientSkips, H2ClientLostEnds
<1>2. Acts("client") /\ at'.server = at.server
  BY H2ClientActs, ReportIs DEF Programs
<1>3. CASE PrintsOk("server")
  BY <1>2, <1>3, OkStays DEF H2Agreement, Programs
<1>4. CASE Finish("client", ABORT)
  <2>1. at'.client = "exit" /\ ~PrintsOk("client")'
    BY <1>1, <1>4, Moves, FinishReports DEF OK, ABORT
  <2>2. QED
    BY <2>1 DEF H2Agreement
<1>5. CASE H2Stages /\ ~Finish("client", ABORT)
  <2>1. /\ ~mem.cancelled /\ stopped' = {}
        /\ H2Opening \/ H2Streaming \/ H2Refusing
    BY <1>1, <1>5 DEF H2Stages, H2Served, H2Client, H2ClientStart,
         H2ClientSettings, H2ClientSettingsFail, H2ClientHeaders, H2ClientData, H2ClientLost,
         H2ClientSkips, H2ClientLostEnds, quietVars
  <2>2. net.client # <<>> => Head(net.client) = net.client[1]
    BY <1>1, FirstOf DEF Channels
  <2>. DEFINE p == H2Frame("PREFACE")
              s == H2Frame("SETTINGS")
  <2>3. /\ H2Opening =>
             /\ mem.seen = 0 /\ mem.stream = 1
             /\ \/ Stage("preface", "start", <<>>, <<>>)
                \/ Stage("preface", "settings", <<p, s>>, <<>>)
                \/ Stage("settings", "settings", <<s>>, <<>>)
                \/ Stage("frames", "settings", <<>>, <<s, s>>)
    BY DEF H2Opening
  <2>4. CASE H2ClientStart
    <3>. HIDE DEF p, s
    <3>1. /\ at.client = "start" /\ Send("client", <<p, s>>) /\ at'.client = "settings"
          /\ mem' = mem
      BY <1>1, <1>5, <2>4, Moves DEF H2ClientStart, p, s
    <3>2. H2Opening /\ Stage("preface", "start", <<>>, <<>>)
      BY <2>1, <2>3, <3>1 DEF H2Streaming, H2Refusing, Stage
    <3>3. net'.server = <<p, s>> /\ net'.client = <<>>
      <4>1. net' = [server |-> net.server \o <<p, s>>, client |-> net.client]
        BY <1>1, <3>1, SendIs
      <4>2. net.server = <<>> /\ net.client = <<>> /\ <<>> \o <<p, s>> = <<p, s>>
        BY <3>2, ShortChannels DEF Stage
      <4>3. QED
        BY <4>1, <4>2
    <3>4. H2Opening'
      <4>1. /\ at'.server = "preface" /\ at'.client = "settings"
            /\ mem'.seen = 0 /\ mem'.stream = 1
        BY <1>2, <2>3, <3>1, <3>2 DEF Stage
      <4>2. QED
        BY <3>3, <4>1 DEF H2Opening, Stage, p, s
    <3>5. QED
      BY <2>1, <3>1, <3>4 DEF H2Agreement, H2Stages
  <2>5. CASE H2ClientSettings
    <3>. DEFINE asks == [k \in 1..H2Streams |-> H2Stream("HEADERS", k)]
                ack == Append(net.server, s)
    <3>1. /\ at.client = "settings" /\ Len(net.client) >= 2
          /\ net' = [net EXCEPT !.client = SubSeq(net.client, 3, Len(net.client)),
                                !.server = ack \o asks]
          /\ at'.client = "headers" /\ mem' = mem
      BY <1>1, <2>5, Moves DEF H2ClientSettings
    <3>. HIDE DEF s
    <3>2. H2Opening /\ Stage("frames", "settings", <<>>, <<s, s>>)
      <4>1. Len(<<>>) = 0
        OBVIOUS
      <4>2. QED
        BY <2>1, <2>3, <3>1, <4>1 DEF H2Streaming, H2Refusing, Stage
    <3>3. net'.client = <<>> /\ net'.server = <<s>> \o asks
      <4>1. /\ net.client = <<s, s>> /\ SubSeq(<<s, s>>, 3, Len(<<s, s>>)) = <<>>
            /\ net.server = <<>> /\ Append(<<>>, s) = <<s>>
        BY <3>2 DEF Stage
      <4>. HIDE DEF asks
      <4>2. net = [server |-> net.server, client |-> net.client]
        BY <1>1 DEF Pair
      <4>3. net' = [server |-> ack \o asks, client |-> SubSeq(net.client, 3, Len(net.client))]
        BY <3>1, <4>2
      <4>4. QED
        BY <4>1, <4>3
    <3>4. /\ asks \in Seq(H2Messages) /\ Len(asks) = H2Streams
          /\ \A k \in 1..H2Streams : asks[k].type = "HEADERS"
      <4>1. H2Streams \in Nat /\ \A k \in 1..H2Streams : k \in Nat
        BY <1>1, H2Counts DEF H2Parts
      <4>2. \A k \in 1..H2Streams :
              H2Stream("HEADERS", k) \in H2Messages /\ H2Stream("HEADERS", k).type = "HEADERS"
        BY <4>1, H2MessagesAre
      <4>3. QED
        BY <4>1, <4>2
    <3>. HIDE DEF asks
    <3>5. <<s>> \in Seq(H2Messages) /\ Len(<<s>>) = 1 /\ <<s>>[1] = s /\ s.type = "SETTINGS"
      BY H2MessagesAre DEF s
    <3>6. /\ Len(net'.server) = H2Streams + 1 /\ net'.server[1].type = "SETTINGS"
          /\ \A j \in 2..Len(net'.server) : net'.server[j].type = "HEADERS"
      <4>1. PICK one : one = <<s>>
        OBVIOUS
      <4>2. /\ one \in Seq(H2Messages) /\ Len(one) = 1 /\ one[1].type = "SETTINGS"
            /\ net'.server = one \o asks
        BY <3>3, <3>5, <4>1
      <4>3. Grows(one, one \o asks, asks)
        BY <3>4, <4>2, Concatenated
      <4>4. H2Streams \in Nat
        BY H2Counts
      <4>5. Len(net'.server) = H2Streams + 1 /\ net'.server[1] = one[1]
        BY <3>4, <4>2, <4>3, <4>4 DEF Grows
      <4>6. ASSUME NEW j \in 2..Len(net'.server)
            PROVE  net'.server[j].type = "HEADERS"
        <5>1. j - 1 \in 1..H2Streams /\ Len(one) + (j - 1) = j
          BY <4>2, <4>4, <4>5
        <5>2. (one \o asks)[Len(one) + (j - 1)] = asks[j - 1]
          BY <3>4, <4>3, <5>1 DEF Grows
        <5>3. QED
          BY <3>4, <4>2, <5>1, <5>2
      <4>7. QED
        BY <4>2, <4>5, <4>6
    <3>7. /\ at'.server = "frames" /\ mem'.seen = 0 /\ mem'.stream = 1 /\ Len(net'.client) = 0
          /\ net'.client = <<>>
      BY <1>2, <2>3, <3>1, <3>2, <3>3 DEF Stage
    <3>8. H2Taken' = 0 /\ H2Sent' = 0 /\ H2Begun' = 0
      BY <3>1, <3>7 DEF H2Taken, H2Sent, H2Begun
    <3>9. H2InTurn(0, net'.client)
      BY <3>7 DEF H2InTurn
    <3>10. H2Requests(H2Streams, 0, net'.server)
      BY <3>6 DEF H2Requests
    <3>11. H2Streaming'
      <4>1. mem'.stream \in 1..H2Streams /\ 0 < Multiplexed
        BY <3>7, H2Counts, Http2Assumption
      <4>2. QED
        BY <1>1, <3>1, <3>7, <3>8, <3>9, <3>10, <4>1 DEF H2Streaming
    <3>12. QED
      BY <2>1, <3>1, <3>11 DEF H2Agreement, H2Stages
  <2>6. CASE H2Streaming /\ (H2ClientHeaders \/ H2ClientData)
    <3>1. /\ at.client \in {"headers", "data"} /\ at.server \in {"frames", "body"}
          /\ mem.stream \in 1..H2Streams
          /\ scenario = "multiplex" => mem.seen < Multiplexed
          /\ scenario = "hpack-overflow" => H2Sent = 0
          /\ H2Taken + Len(net.client) = H2Sent
          /\ H2InTurn(H2Taken, net.client) /\ H2Requests(H2Streams, H2Begun, net.server)
      BY <2>6 DEF H2Streaming
    <3>2. net.client # <<>> /\ Len(net.client) >= 1
      BY <1>1, <2>6, FirstOf DEF H2ClientHeaders, H2ClientData, Channels
    <3>3. H2Taken \in Nat /\ Len(net.client) \in Nat
      BY <3>1, H2Counts
    <3>4. Exchange("client", 1, <<>>) =>
            /\ net'.server = net.server /\ Len(net'.client) = Len(net.client) - 1
            /\ H2InTurn(H2Taken + 1, net'.client)
      <4>. SUFFICES ASSUME Exchange("client", 1, <<>>)
                    PROVE  /\ net'.server = net.server /\ Len(net'.client) = Len(net.client) - 1
                           /\ H2InTurn(H2Taken + 1, net'.client)
        OBVIOUS
      <4>1. /\ Channels(H2Messages)' /\ Shrinks(net.client, net'.client)
            /\ net'.server = net.server
        BY <1>1, <3>2, ClientTakes
      <4>2. Len(net'.client) \in Nat
        BY <4>1 DEF Channels
      <4>3. Len(net'.client) = Len(net.client) - 1
        BY <3>3, <4>1, <4>2 DEF Shrinks
      <4>4. QED
        BY <3>1, <3>3, <4>1, <4>2, <4>3, InTurnTaken
    <3>5. (H2Sent' = H2Sent /\ H2Begun' = H2Begun) \/ mem'.seen # mem.seen
      BY <1>2 DEF H2Sent, H2Begun
    <3>6. CASE H2ClientHeaders
      <4>1. at.client = "headers" /\ mem' = mem
        BY <3>6 DEF H2ClientHeaders
      <4>2. Exchange("client", 1, <<>>) /\ at'.client = "data"
        BY <1>1, <1>5, <3>6, Moves DEF H2ClientHeaders
      <4>3. H2Taken' = H2Taken + 1
        BY <3>1, <4>1, <4>2, H2Counts DEF H2Taken
      <4>4. /\ H2Taken' + Len(net'.client) = H2Sent' /\ H2InTurn(H2Taken', net'.client)
            /\ net'.server = net.server
        BY <3>1, <3>3, <3>4, <3>5, <4>1, <4>2, <4>3
      <4>5. H2Streaming'
        BY <1>1, <1>2, <3>1, <3>5, <4>1, <4>2, <4>4 DEF H2Streaming
      <4>6. QED
        BY <2>1, <4>1, <4>5 DEF H2Agreement, H2Stages
    <3>7. CASE H2ClientData
      <4>1. at.client = "data" /\ net.client[1].type = "DATA"
        <5>1. at.client = "data" /\ mem.stream \in Nat /\ H2Taken = 2 * mem.stream - 1
          BY <3>7, H2Counts DEF H2ClientData
        <5>2. 1 \in 1..Len(net.client) /\ H2Taken + 1 = 2 * mem.stream
          BY <3>2, <3>3, <5>1
        <5>3. QED
          BY <3>1, <5>1, <5>2 DEF H2InTurn
      <4>. DEFINE m == net.client[1]
                  next == mem.stream + 1
      <4>2. /\ Exchange("client", 1, <<>>)
            /\ mem' = [mem EXCEPT !.lines = Append(mem.lines, m.id), !.stream = next]
            /\ H2ClientNextStream("headers")
        BY <2>2, <3>2, <3>7, <4>1 DEF H2ClientData
      <4>3. /\ mem'.stream = next /\ mem'.seen = mem.seen /\ mem'.cancelled = mem.cancelled
        BY <1>1, <4>2 DEF H2Mem
      <4>4. CASE mem.stream < H2Streams
        <5>1. at'.client = "headers"
          BY <1>1, <4>2, <4>4, Moves DEF H2ClientNextStream
        <5>2. H2Taken' = H2Taken + 1
          BY <4>1, <4>3, <5>1, H2Counts DEF H2Taken
        <5>3. /\ H2Taken' + Len(net'.client) = H2Sent' /\ H2InTurn(H2Taken', net'.client)
              /\ net'.server = net.server
          BY <3>1, <3>3, <3>4, <3>5, <4>2, <4>3, <5>2
        <5>4. mem'.stream \in 1..H2Streams
          BY <4>3, <4>4, H2Counts
        <5>5. H2Streaming'
          BY <1>1, <1>2, <3>1, <3>5, <4>3, <5>1, <5>3, <5>4 DEF H2Streaming
        <5>6. QED
          BY <2>1, <4>3, <5>5 DEF H2Agreement, H2Stages
      <4>5. CASE ~(mem.stream < H2Streams)
        <5>1. at'.client = "exit" /\ net'.server = net.server
          BY <1>1, <3>4, <4>2, <4>5, Moves DEF H2ClientNextStream
        <5>2. H2Sent >= 2 * H2Streams
          BY SMTT(60), <3>1, <3>2, <4>1, <4>5, H2Counts
        <5>3. scenario # "multiplex"
          BY <3>1, <5>2, H2Counts, Http2Assumption
        <5>4. mem.seen >= 1 /\ H2Begun >= 1 /\ H2Streams = 1
          BY <5>2, <5>3, H2Counts
        <5>5. Len(net.server) = 1 - H2Begun
          BY <3>1, <5>4, H2Counts DEF H2Requests
        <5>6. Len(net.server) = 0 /\ at.server = "frames"
          BY <3>1, <5>4, <5>5, H2Counts
        <5>7. net.server = <<>>
          BY <1>1, <5>6, EmptySeq DEF Channels
        <5>8. H2Served'
          BY <1>1, <1>2, <5>1, <5>3, <5>6, <5>7 DEF H2Served
        <5>9. QED
          BY <2>1, <4>3, <5>8 DEF H2Agreement, H2Stages
      <4>6. QED
        BY <4>4, <4>5
    <3>8. QED
      BY <2>6, <3>6, <3>7
  <2>7. CASE H2Opening /\ (H2ClientHeaders \/ H2ClientData)
    BY <2>3, <2>7 DEF H2ClientHeaders, H2ClientData, Stage
  <2>8. CASE H2Refusing /\ (H2ClientHeaders \/ H2ClientData)
    BY <1>5, <2>8 DEF H2Refusing, H2ClientHeaders, H2ClientData, H2Refused
  <2>9. CASE H2ClientSettingsFail
    BY <1>5, <2>9 DEF H2ClientSettingsFail
  <2>10. CASE H2ClientLost \/ H2ClientSkips \/ H2ClientLostEnds
    <3>1. /\ at.client \in {"lost", "headers", "data"}
          /\ at.client # "lost" => ReceiveFails("client")
      BY <2>10 DEF H2ClientLost, H2ClientSkips, H2ClientLostEnds
    <3>2. ReceiveFails("client") => at.server = "exit" /\ (net.client = <<>> \/ net.server # <<>>)
      BY <1>1, OtherIs DEF ReceiveFails, Ended
    <3>3. QED
      BY <2>1, <2>3, <3>1, <3>2 DEF H2Streaming, H2Refusing, Stage
  <2>11. QED
    BY <2>1, <2>4, <2>5, <2>6, <2>7, <2>8, <2>9, <2>10 DEF H2Client
<1>6. QED
  BY <1>1, <1>3, <1>4, <1>5 DEF H2Agreement

LEMMA H2AgreeInitially == Init => H2AgreeInv
<1>. SUFFICES ASSUME Init, protocol = "http2"
              PROVE  H2Agreement
  BY DEF H2AgreeInv, H2Undisturbed
<1>1. Http2Init
  BY DEF Init, QuicInit, RadiusInit, SipInit, DnsInit, TcpInit, WebInit, MqttInit, WsInit,
         PacketInit, DigestInit, RequestInit, FramesInit
<1>2. /\ net.server = <<>> /\ net.client = <<>> /\ stopped = {}
      /\ at.server = "preface" /\ at.client = "start"
      /\ mem = [seen |-> 0, cancelled |-> FALSE, stream |-> 1, lines |-> <<>>]
  BY <1>1, PlacesInit DEF Http2Init, ProgramsInit, ProgramsAt
<1>3. mem.seen = 0 /\ mem.stream = 1 /\ ~mem.cancelled
  BY <1>2
<1>4. QED
  BY <1>2, <1>3 DEF H2Agreement, H2Stages, H2Opening, Stage

LEMMA H2AgreeNextKeeps == H2AgreeInv /\ H2Inv /\ ReportedOnce /\ [Next]_demoVars => H2AgreeInv'
<1>. SUFFICES ASSUME H2AgreeInv, H2Inv, ReportedOnce, [Next]_demoVars, H2Undisturbed'
              PROVE  H2Agreement'
  BY DEF H2AgreeInv
<1>1. SettingsStay /\ protocol = "http2" /\ "stop" \notin faults /\ protocol' = "http2"
  BY SettingsKept DEF SettingsStay, H2Undisturbed
<1>2. H2Agreement /\ H2Parts /\ H2Parts' /\ faults \in StreamFaults
  <2>1. H2Inv'
    BY H2NextKeeps
  <2>2. H2Parts'
    BY <1>1, <2>1 DEF H2Inv, H2Parts
  <2>3. QED
    BY <1>1, <2>2 DEF H2Inv, H2Parts, H2AgreeInv, H2Undisturbed
<1>3. CASE UNCHANGED demoVars
  BY <1>2, <1>3 DEF demoVars, H2Agreement, H2Stages, H2Opening, H2Streaming, H2Refusing, H2Served,
     Stage, PrintsOk, H2Taken, H2Sent, H2Begun, H2Streams
<1>4. QED
  BY <1>1, <1>2, <1>3, H2Step, H2ServerAgrees, H2ClientAgrees

LEMMA H2Agrees == H2AgreeInv /\ H2Undisturbed /\ PrintsOk("client") /\ at.server = "exit"
                    /\ ReportedOnce => PrintsOk("server")
BY ReportsOk DEF H2AgreeInv, H2Agreement, H2Stages, H2Opening, H2Streaming, H2Refusing, H2Served,
   Stage

-----------------------------------------------------------------------------
(***************************************************************************)
(* The results of all the demos.                                           *)
(***************************************************************************)
\* Each protocol is one of these.
KnownInv ==
  protocol \in {"quic-like", "radius", "sip", "dns", "tcp-basic", "tls-like", "mqtt", "http-basic",
                "oauth2", "websocket-basic", "http2"} \cup Shared

LEMMA KnownInitially == Init => KnownInv
BY DEF Init, QuicInit, RadiusInit, SipInit, DnsInit, TcpInit, MqttInit, WebInit, WsInit, Http2Init,
       PacketInit, DigestInit, RequestInit, FramesInit, KnownInv, Shared

LEMMA KnownKept == KnownInv /\ [Next]_demoVars => KnownInv'
BY SettingsKept DEF KnownInv, SettingsStay

ResultsInv ==
  /\ ReportedOnce /\ KnownInv /\ RadiusInv /\ ClosedInv /\ SilentInv
  /\ OauthInv /\ MqttInv /\ H2AgreeInv
  /\ HttpInv /\ WsInv /\ H2Inv

LEMMA ResultsInitially == Init => ResultsInv
BY ReportedInitially, KnownInitially, RadiusInitially, ClosedInitially, SilentInitially,
   OauthInitially, MqttInitially, H2AgreeInitially, HttpInitially, WsInitially, H2Initially
   DEF ResultsInv

LEMMA ResultsKept == ResultsInv /\ [Next]_demoVars => ResultsInv'
<1>. SUFFICES ASSUME ResultsInv, [Next]_demoVars
              PROVE  ResultsInv'
  OBVIOUS
<1>1. /\ ReportedOnce /\ KnownInv /\ RadiusInv /\ ClosedInv /\ SilentInv
      /\ OauthInv /\ MqttInv /\ H2AgreeInv
      /\ HttpInv /\ WsInv /\ H2Inv
  BY DEF ResultsInv
<1>2. ReportedOnce' /\ KnownInv' /\ SilentInv'
  BY <1>1, ReportedKept, KnownKept, SilentKept
<1>3. RadiusInv' /\ OauthInv' /\ MqttInv' /\ H2AgreeInv'
  BY <1>1, RadiusNextKeeps, OauthNextKeeps, MqttNextKeeps, H2AgreeNextKeeps
<1>4. ClosedInv' /\ HttpInv' /\ WsInv' /\ H2Inv'
  BY <1>1, ClosedNextKeeps, HttpNextKeeps, WsNextKeeps, H2NextKeeps
<1>5. QED
  BY <1>2, <1>3, <1>4 DEF ResultsInv

LEMMA ResultsFollow == ResultsInv => ResultsAgree
<1>. SUFFICES ASSUME ResultsInv
              PROVE  OneResult /\ ClientOkMeansServerOk
  BY DEF ResultsAgree
<1>1. OneResult
  BY ReportsOk DEF ResultsInv
<1>2. ASSUME PrintsOk("client"), at.server = "exit",
             ~(protocol = "sip" /\ scenario = "invite-bye"),
             ~(protocol = "mqtt" /\ faults \cap {"stop", "merge"} # {}),
             ~(protocol = "http2" /\ "stop" \in faults)
      PROVE  PrintsOk("server")
  <2>1. CASE Closing
    BY <1>2, <2>1 DEF ResultsInv, ClosedInv, ClosedParts
  <2>2. CASE Silent
    BY <1>2, <2>2 DEF ResultsInv, SilentInv
  <2>3. CASE protocol = "radius"
    BY <1>2, <2>3 DEF ResultsInv, RadiusInv, RadiusParts, AcceptSeen
  <2>4. CASE protocol = "oauth2"
    BY <1>2, <2>4 DEF ResultsInv, OauthInv, OauthParts
  <2>5. CASE protocol = "mqtt"
    BY <1>2, <2>5, MqttAgrees DEF ResultsInv, MqttUndisturbed
  <2>6. CASE protocol = "http2"
    BY <1>2, <2>6, H2Agrees DEF ResultsInv, H2Undisturbed
  <2>7. QED
    BY <1>2, <2>1, <2>2, <2>3, <2>4, <2>5, <2>6
       DEF ResultsInv, KnownInv, Closing, Silent, SipRegisters, TcpFamily
<1>3. QED
  BY <1>1, <1>2 DEF ClientOkMeansServerOk, Ended

\* No program of any of the demos reports both a success and a failure; and when a client
\* reports OK, its server ends with OK as well, whatever is lost, repeated, reordered, delayed
\* or reset, and whoever else sends to the server.  Left out are the flows whose last message
\* nobody waits for: SIP's BYE, MQTT with a signal or with two packets in one recv, and HTTP/2
\* with a signal.
THEOREM ResultsConsistent == Spec => []ResultsAgree
<1>1. ResultsInv /\ [Next]_demoVars => ResultsInv'
  BY ResultsKept
<1>2. QED
  BY ResultsInitially, <1>1, ResultsFollow, PTL DEF Spec

-----------------------------------------------------------------------------
(***************************************************************************)
(* The types of the variables: what is the same in all the protocols.      *)
(***************************************************************************)
SettingsTyped ==
  /\ faults \in DatagramFaults \cup StreamFaults \/ (protocol \in Shared /\ faults = {})
  /\ original \in Seq(Data) /\ content \in Seq(Data)

LEMMA SettingsTypedInitially == Init => SettingsTyped
<1>1. <<>> \in Seq(Data) /\ Files \subseteq Seq(Data)
  BY EmptySeq, DemoFilesAssumption
<1>2. Init => FilesInit \/ NoFiles
  BY DEF Init, QuicInit, RadiusInit, SipInit, DnsInit, TcpInit, MqttInit, WebInit, WsInit,
         Http2Init, PacketInit, DigestInit, RequestInit, FramesInit
<1>3. Init => original \in Seq(Data) /\ content \in Seq(Data)
  BY <1>1, <1>2 DEF FilesInit, NoFiles
<1>4. Init => faults \in DatagramFaults \cup StreamFaults \/ (protocol \in Shared /\ faults = {})
  BY DEF Init, QuicInit, RadiusInit, SipInit, DnsInit, TcpInit, MqttInit, WebInit, WsInit,
         Http2Init, PacketInit, DigestInit, RequestInit, FramesInit, Shared
<1>5. QED
  BY <1>3, <1>4 DEF SettingsTyped

LEMMA SettingsTypedKept == SettingsTyped /\ [Next]_demoVars => SettingsTyped'
BY SettingsKept DEF SettingsTyped, SettingsStay

\* Only the network and the strangers count what they do, and a signal marks a program.
SignalsStay ==
  /\ spent' = spent
  /\ \E p \in Programs :
       stopped' = stopped \/ ("stop" \in faults /\ stopped' = stopped \cup {p})

LEMMA QuietStays == UNCHANGED <<spent, stopped>> => SignalsStay
BY DEF SignalsStay, Programs

LEMMA DatagramSignals ==
  /\ QuicServer \/ QuicClient => SignalsStay
  /\ RadiusServer \/ RadiusClient => SignalsStay
  /\ SipServer \/ SipClient => SignalsStay
  /\ DnsServer \/ DnsClient => SignalsStay
<1>1. QuicServer \/ QuicClient => SignalsStay
  BY QuietStays DEF QuicServer, QuicClient, QuicServerInitial, QuicServerZeroRtt,
       QuicServerNoZeroRtt, QuicServerHandshakeAck, QuicServerAck, QuicServerFails,
       QuicClientStart, QuicClientHandshake, QuicClientStream, QuicClientClose,
       QuicClientIgnores, QuicClientFails, quietVars, settledVars
<1>2. RadiusServer \/ RadiusClient => SignalsStay
  BY QuietStays DEF RadiusServer, RadiusClient, RadiusServerRequest, RadiusServerIgnores,
       RadiusServerAccounting, RadiusServerFails, RadiusClientStart,
       RadiusClientResponse, RadiusClientNoResponse, RadiusClientEnd, quietVars
<1>3. SipServer \/ SipClient => SignalsStay
  BY QuietStays DEF SipServer, SipClient, SipServerRegister, SipServerInvite, SipServerAckOrBye,
       SipServerFails, SipClientStart, SipClientRegistered, SipClientNotRegistered,
       SipClientInvited, SipClientInviteFails, SipClientBye, quietVars
<1>4. DnsServer \/ DnsClient => SignalsStay
  BY QuietStays DEF DnsServer, DnsClient, DnsServerQuery, DnsServerFails, DnsClientStart,
       DnsClientResponse, DnsClientFails, quietVars
<1>5. QED
  BY <1>1, <1>2, <1>3, <1>4

LEMMA SignalIs ==
  ASSUME NEW p \in Programs
  PROVE  SignalWhileBusy(p) /\ spent' = spent => SignalsStay
BY DEF SignalWhileBusy, SignalsStay

LEMMA StreamSignals ==
  /\ TcpServer \/ TcpClient => SignalsStay
  /\ MqttServer \/ MqttClient => SignalsStay
  /\ WebServer \/ WebClient => SignalsStay
  /\ WsServer \/ WsClient => SignalsStay
  /\ H2Server \/ H2Client => SignalsStay
<1>0. "server" \in Programs /\ "client" \in Programs
  BY DEF Programs
<1>1. TcpServer \/ TcpClient => SignalsStay
  <2>1. TcpServer => UNCHANGED <<spent, stopped>> \/ (SignalWhileBusy("server") /\ spent' = spent)
    BY DEF TcpServer, TcpServerJoin, TcpServerPassword, TcpServerUnexpected,
       TcpServerReceiveFails, TlsServerHello, TlsServerFinished,
       TcpServerSendsUnit, TcpServerTerminates, TcpServerSendBreaks, quietVars
  <2>2. TcpClient => UNCHANGED <<spent, stopped>> \/ (SignalWhileBusy("client") /\ spent' = spent)
    BY DEF TcpClient, TcpClientStart, TcpClientRefused, TcpClientAuth, TcpClientReceiveFails,
       TlsClientHello, TlsClientFinished, TcpClientData, TcpClientTerminate, TcpClientNextFrame,
       quietVars, settledVars
  <2>3. QED
    BY <1>0, <2>1, <2>2, QuietStays, SignalIs
<1>2. MqttServer \/ MqttClient => SignalsStay
  BY <1>0, QuietStays, SignalIs
   DEF MqttServer, MqttClient, MqttServerConnect, MqttServerSubscribe,
       MqttServerPublish, MqttServerRepeats, MqttServerBreaks,
       MqttServerDisconnect, MqttServerFails, MqttClientStart, MqttClientConnack,
       MqttClientSuback, MqttClientPubrec, MqttClientPubrecAgain,
       MqttClientNoReplay, MqttClientFails, quietVars, settingVars, settledVars, fileVars
<1>3. WebServer \/ WebClient => SignalsStay
  BY <1>0, QuietStays, SignalIs
   DEF WebServer, WebClient, WebServerServes, WebServerInterrupted, WebClientStart,
       WebClientResponse, WebClientFails, quietVars, settingVars, settledVars, fileVars
<1>4. WsServer \/ WsClient => SignalsStay
  BY <1>0, QuietStays, SignalIs
   DEF WsServer, WsClient, WsServerUpgrade, WsServerSendsText, WsServerSendBreaks,
       WsServerPong, WsServerFails, WsClientStart, WsClientUpgraded, WsClientText,
       WsClientPing, WsClientClose, WsClientFails, WsClientNextFrame, quietVars, settingVars,
       settledVars, fileVars
<1>5. H2Server \/ H2Client => SignalsStay
  BY <1>0, QuietStays, SignalIs
   DEF H2Server, H2Client, H2ServerPreface, H2ServerSettings, H2ServerHeaders,
       H2ServerBody, H2ServerOverflow, H2ServerOtherFrame, H2ServerReceiveFails,
       H2ServerSendBreaks, H2ClientStart, H2ClientSettings, H2ClientSettingsFail,
       H2ClientHeaders, H2ClientData, H2ClientLost, H2ClientSkips,
       H2ClientLostEnds, H2ServerNextFrame, quietVars, settingVars, settledVars, fileVars
<1>6. QED
  BY <1>1, <1>2, <1>3, <1>4, <1>5

LEMMA SharedSignals ==
  /\ PacketSend \/ PacketReceive => SignalsStay
  /\ Digest => SignalsStay
  /\ RequestServer \/ RequestBrowser => SignalsStay
  /\ FrameServer \/ FrameBrowser => SignalsStay
BY QuietStays
   DEF PacketSend, PacketReceive, Digest, DigestCopy, DigestUpdate, DigestReadFails, DigestFinalOne,
       DigestFinalZero, DigestFinalLength, DigestFinal, RequestServer, RequestBrowser,
       RequestReceive, RequestEnds, BrowserSends, BrowserLeaves, FrameServer, FrameBrowser,
       FrameReceive, FrameByte, FrameSocketEnds, BrowserSendsFrame, FrameArrives,
       BrowserClosesSocket, quietVars

SignalsTyped == spent \in 0..MaxFaults /\ stopped \subseteq Programs

LEMMA SignalsTypedInitially == Init => SignalsTyped
<1>1. MaxFaults \in Nat
  BY DemoFaultsAssumption
<1>2. Init => spent = 0 /\ stopped = {}
  BY DEF Init, QuicInit, RadiusInit, SipInit, DnsInit, TcpInit, MqttInit, WebInit, WsInit,
         Http2Init, PacketInit, DigestInit, RequestInit, FramesInit, ProgramsInit, ProgramsAt
<1>3. QED
  BY <1>1, <1>2 DEF SignalsTyped

LEMMA SignalsTypedKept == SignalsTyped /\ [Next]_demoVars => SignalsTyped'
<1>. SUFFICES ASSUME SignalsTyped, [Next]_demoVars
              PROVE  SignalsTyped'
  OBVIOUS
<1>1. Server \/ Client => SignalsStay
  BY DatagramSignals, StreamSignals, SharedSignals DEF Server, Client
<1>2. CASE Server \/ Client
  BY <1>1, <1>2 DEF SignalsStay, SignalsTyped
<1>3. CASE Lose \/ Duplicate \/ Strangers
  <2>1. Interfere /\ stopped' = stopped
    BY <1>3 DEF Lose, Duplicate, Strangers, OtherSends, PacketOther, quietVars, settingVars
  <2>2. MaxFaults \in Nat
    BY DemoFaultsAssumption
  <2>3. QED
    BY <2>1, <2>2 DEF Interfere, SignalsTyped
<1>4. CASE UNCHANGED demoVars
  BY <1>4 DEF demoVars, SignalsTyped
<1>5. QED
  BY <1>2, <1>3, <1>4 DEF Next

-----------------------------------------------------------------------------
(***************************************************************************)
(* What the clients have written.                                          *)
(***************************************************************************)
\* The demos without a file write none.
NothingWritten == protocol \notin FileProtocols \cup {"websocket-basic"} => written = <<>>

LEMMA NothingWrittenInitially == Init => NothingWritten
BY DEF Init, QuicInit, RadiusInit, SipInit, DnsInit, TcpInit, MqttInit, WebInit, WsInit, Http2Init,
       PacketInit, DigestInit, RequestInit, FramesInit, FilesInit, NoFiles, NothingWritten

LEMMA NothingWrittenKept == NothingWritten /\ [Next]_demoVars => NothingWritten'
<1>. SUFFICES ASSUME [Next]_demoVars, protocol \notin FileProtocols \cup {"websocket-basic"},
                     written = <<>>
              PROVE  written' = <<>>
  BY SettingsKept DEF NothingWritten, SettingsStay
<1>1. protocol \notin TcpFamily /\ protocol # "quic-like" /\ protocol # "websocket-basic"
  BY DEF FileProtocols
<1>2. Server \/ Client => FilesStay
  BY <1>1, RadiusKeeps, SipKeeps, DnsKeeps, MqttKeeps, WebKeeps, H2Keeps, PacketKeeps,
     DigestKeeps, RequestKeeps, FrameKeeps DEF Server, Client
<1>3. QED
  BY <1>2, NetworkKeeps DEF Next, demoVars, FilesStay

\* What is on its way to the WebSocket client, and what it has written, is of a file.
IsUnit(m) == m.opcode = "TEXT" => m.unit \in Data
WsUnits == (\A m \in Range(net.client) : IsUnit(m)) /\ written \in Seq(Data)
WsTyped == protocol = "websocket-basic" => WsUnits

LEMMA WsTypedInitially == Init => WsTyped
<1>. SUFFICES ASSUME Init, protocol = "websocket-basic"
              PROVE  WsUnits
  BY DEF WsTyped
<1>1. WsInit
  BY DEF Init, QuicInit, RadiusInit, SipInit, DnsInit, TcpInit, MqttInit, Http2Init, WebInit,
         PacketInit, DigestInit, RequestInit, FramesInit
<1>2. net.client = <<>> /\ written = <<>>
  BY <1>1, PlacesInit DEF WsInit, FilesInit
<1>3. QED
  BY <1>2, ShortSeqs, EmptySeq DEF WsUnits

LEMMA WsServerUnits ==
  ASSUME WsUnits, Sequences, content \in Seq(Data), WsServer
  PROVE  WsUnits'
<1>1. written' = written /\ written \in Seq(Data)
  BY DEF WsUnits, WsServer, WsServerUpgrade, WsServerSendsText, WsServerPong, WsServerSendBreaks,
         WsServerFails, quietVars
<1>2. \A opcode \in {"101", "400", "PING", "CLOSE"} : IsUnit(WsFrame(opcode))
  BY WsMessagesAre DEF IsUnit
<1>3. IsSeq(WsText) /\ \A m \in Range(WsText) : IsUnit(m)
  <2>1. /\ WsText \in Seq(WsMessages) /\ Len(WsText) \in Nat /\ Len(WsText) <= Len(content)
        /\ \A k \in 1..Len(WsText) : WsText[k] = TextFrame(content[k])
    BY TextIs
  <2>2. IsSeq(WsText)
    BY <2>1, SeqsOf
  <2>3. \A k \in 1..Len(content) : content[k] \in Data
    OBVIOUS
  <2>. HIDE DEF WsText
  <2>4. \A k \in 1..Len(WsText) : k \in 1..Len(content)
    BY <2>1
  <2>5. \A k \in 1..Len(WsText) : IsUnit(WsText[k])
    BY <2>1, <2>3, <2>4, WsMessagesAre DEF IsUnit
  <2>6. DOMAIN WsText = 1..Len(WsText)
    BY <2>1
  <2>7. QED
    BY <2>2, <2>5, <2>6 DEF Range
<1>4. /\ IsSeq(Append(WsText, WsFrame("PING")))
      /\ \A m \in Range(Append(WsText, WsFrame("PING"))) : IsUnit(m)
  BY <1>2, <1>3, Extended
<1>5. net.server # <<>> => 1 \in DOMAIN net.server
  BY FirstIn DEF Programs
<1>6. \/ net' = net
      \/ \E msgs : /\ IsSeq(msgs) /\ \A m \in Range(msgs) : IsUnit(m)
                   /\ Send("server", msgs) \/ \E i \in DOMAIN net.server : Exchange("server", i, msgs)
  <2>1. CASE WsServerUpgrade
    BY <1>2, <1>5, <2>1, ShortSeqs DEF WsServerUpgrade
  <2>2. CASE WsServerSendsText
    BY <1>3, <1>4, <2>2 DEF WsServerSendsText
  <2>3. CASE WsServerPong
    <3>1. /\ net.server # <<>>
          /\ Exchange("server", 1, <<WsFrame("CLOSE")>>) \/ Exchange("server", 1, <<>>)
      BY <2>3 DEF WsServerPong
    <3>2. /\ IsSeq(<<>>) /\ Range(<<>>) = {}
          /\ IsSeq(<<WsFrame("CLOSE")>>) /\ Range(<<WsFrame("CLOSE")>>) = {WsFrame("CLOSE")}
      BY ShortSeqs
    <3>3. QED
      BY <1>2, <1>5, <3>1, <3>2
  <2>4. CASE WsServerSendBreaks \/ WsServerFails
    BY <2>4 DEF WsServerSendBreaks, WsServerFails
  <2>5. QED
    BY <2>1, <2>2, <2>3, <2>4 DEF WsServer
<1>7. \A m \in Range(net'.client) : IsUnit(m)
  <2>1. CASE net' = net
    BY <2>1 DEF WsUnits
  <2>2. CASE net' # net
    <3>1. PICK msgs : /\ IsSeq(msgs) /\ \A m \in Range(msgs) : IsUnit(m)
                      /\ Send("server", msgs) \/ \E i \in DOMAIN net.server : Exchange("server", i, msgs)
      BY <1>6, <2>2
    <3>2. Range(net'.client) = Range(net.client) \cup Range(msgs)
      BY <3>1, ServerTrades, ServerAdds
    <3>3. QED
      BY <3>1, <3>2 DEF WsUnits
  <2>3. QED
    BY <2>1, <2>2
<1>8. QED
  BY <1>1, <1>7 DEF WsUnits

LEMMA WsClientUnits ==
  ASSUME WsUnits, Sequences, WsClient
  PROVE  WsUnits'
<1>1. net.client # <<>> => /\ 1 \in DOMAIN net.client /\ Head(net.client) \in Range(net.client)
  BY FirstIn DEF Programs
<1>2. Range(net'.client) \subseteq Range(net.client)
  <2>1. CASE net' = net
    BY <2>1
  <2>2. CASE ReceiveOne("client", <<>>)
    BY <2>2, ReceivedOne, ShortSeqs
  <2>3. CASE \E msgs : /\ IsSeq(msgs)
                       /\ Send("client", msgs) \/ \E i \in DOMAIN net.client : Exchange("client", i, msgs)
    BY <2>3, HearsIs
  <2>4. CASE WsClientStart
    BY <2>1, <2>3, <2>4, ShortSeqs DEF WsClientStart
  <2>5. CASE WsClientText \/ WsClientClose
    BY <1>1, <2>3, <2>5, ShortSeqs DEF WsClientText, WsClientClose
  <2>6. CASE WsClientPing
    <3>. DEFINE msgs == IF scenario = "ping-timeout" THEN <<>>
                        ELSE <<WsFrame("PONG"), WsFrame("TEXT")>>
    <3>1. IsSeq(msgs) /\ IsSeq(<<>>)
      BY ShortSeqs
    <3>2. /\ net.client # <<>>
          /\ Exchange("client", 1, msgs) \/ Exchange("client", 1, <<>>)
      BY <2>6 DEF WsClientPing
    <3>. HIDE DEF msgs
    <3>3. QED
      BY <1>1, <2>3, <3>1, <3>2
  <2>7. QED
    BY <2>1, <2>2, <2>4, <2>5, <2>6 DEF WsClient, WsClientUpgraded, WsClientFails
<1>3. written' \in Seq(Data)
  <2>1. CASE written' = written
    BY <2>1 DEF WsUnits
  <2>2. CASE WsClientText
    <3>1. Head(net.client).unit \in Data /\ written' = Append(written, Head(net.client).unit)
      BY <1>1, <2>2 DEF WsClientText, WsUnits, IsUnit
    <3>2. QED
      BY <3>1, AppendProperties DEF WsUnits
  <2>3. QED
    BY <2>1, <2>2 DEF WsClient, WsClientStart, WsClientUpgraded, WsClientPing, WsClientClose,
           WsClientFails, quietVars, fileVars
<1>4. QED
  BY <1>2, <1>3 DEF WsUnits

LEMMA WsTypedKept == WsTyped /\ WsInv /\ [Next]_demoVars => WsTyped'
<1>. SUFFICES ASSUME WsTyped, WsInv, [Next]_demoVars, protocol' = "websocket-basic"
              PROVE  WsUnits'
  BY DEF WsTyped
<1>1. protocol = "websocket-basic"
  BY SettingsKept DEF SettingsStay
<1>2. WsUnits /\ Sequences /\ content \in Seq(Data) /\ faults \in StreamFaults
  BY <1>1 DEF WsInv, WsTyped, WsSecret
<1>3. CASE UNCHANGED demoVars
  BY <1>2, <1>3 DEF demoVars, WsUnits
<1>4. WsServer \/ WsClient \/ UNCHANGED demoVars
  BY <1>1, <1>2, StreamsReliable
     DEF Next, Server, Client, Strangers, TcpFamily, WebFamily, Lose, Duplicate
<1>5. QED
  BY <1>2, <1>3, <1>4, WsServerUnits, WsClientUnits

-----------------------------------------------------------------------------
(***************************************************************************)
(* QuicLike: the chunks in order, and what the streams carry.              *)
(***************************************************************************)
LEMMA PlacedTyped ==
  ASSUME NEW C, NEW sorted \in Seq(C), NEW chunk \in C
  PROVE  Placed(sorted, chunk) \in Seq(C)
<1>. DEFINE behind == {i \in DOMAIN sorted : ChunkBefore(chunk, sorted[i])}
            place == IF behind = {} THEN Len(sorted) + 1 ELSE Min(behind)
            front == SubSeq(sorted, 1, place - 1)
            back == SubSeq(sorted, place, Len(sorted))
<1>1. Len(sorted) \in Nat /\ \A i \in 1..Len(sorted) : sorted[i] \in C
  OBVIOUS
<1>2. behind \in SUBSET (1..Len(sorted))
  OBVIOUS
<1>3. Placed(sorted, chunk) = InsertAt(sorted, place, chunk)
  BY DEF Placed
<1>. HIDE DEF behind
<1>4. behind # {} => Min(behind) \in behind
  <2>1. behind \in SUBSET Nat
    BY <1>1, <1>2
  <2>2. behind # {} => \E x \in behind : \A y \in behind : x <= y
    BY <2>1, Least
  <2>3. QED
    BY <2>2 DEF Min
<1>5. place \in 1..Len(sorted) + 1
  <2>. DEFINE least == Min(behind)
  <2>1. behind # {} => least \in 1..Len(sorted)
    BY <1>2, <1>4
  <2>. HIDE DEF least
  <2>2. (IF behind = {} THEN Len(sorted) + 1 ELSE least) \in 1..Len(sorted) + 1
    BY <1>1, <2>1
  <2>3. QED
    BY <2>2 DEF least
<1>. HIDE DEF place
<1>6. front \in Seq(C) /\ back \in Seq(C) /\ <<chunk>> \in Seq(C)
  <2>1. /\ place - 1 \in Int /\ place \in Int /\ Len(sorted) \in Int
        /\ \A i \in 1..place - 1 : sorted[i] \in C
        /\ \A i \in place..Len(sorted) : sorted[i] \in C
    BY <1>1, <1>5
  <2>2. QED
    BY <2>1, SubSeqProperties
<1>7. Placed(sorted, chunk) = front \o <<chunk>> \o back
  BY <1>3 DEF InsertAt
<1>. HIDE DEF front, back
<1>8. front \o <<chunk>> \in Seq(C)
  BY <1>6, ConcatProperties
<1>9. QED
  BY <1>6, <1>7, <1>8, ConcatProperties

\* f has the first chunks in order, for every number of them up to n.
Sorts(f, chunks, n) ==
  f = [i \in 0..n |-> IF i = 0 THEN <<>> ELSE Placed(f[i - 1], chunks[i])]

LEMMA SortingExists ==
  ASSUME NEW chunks, NEW n \in Nat
  PROVE  \E f : Sorts(f, chunks, n)
<1>. DEFINE S == {k \in Nat : ~\E f : Sorts(f, chunks, k)}
<1>. SUFFICES ASSUME S # {}
              PROVE  FALSE
  OBVIOUS
<1>1. PICK k \in S : \A j \in S : k <= j
  <2>1. S \in SUBSET Nat
    OBVIOUS
  <2>. HIDE DEF S
  <2>2. QED
    BY <2>1, Least
<1>2. k \in Nat /\ ~\E f : Sorts(f, chunks, k)
  OBVIOUS
<1>3. CASE k = 0
  <2>. DEFINE g == [i \in 0..0 |-> <<>>]
  <2>1. g = [i \in 0..0 |-> IF i = 0 THEN <<>> ELSE Placed(g[i - 1], chunks[i])]
    OBVIOUS
  <2>. HIDE DEF g
  <2>2. Sorts(g, chunks, 0)
    BY <2>1 DEF Sorts
  <2>3. QED
    BY <1>2, <1>3, <2>2
<1>4. CASE k # 0
  <2>1. k - 1 \in Nat /\ k - 1 \notin S
    BY <1>1, <1>2, <1>4
  <2>2. PICK f : Sorts(f, chunks, k - 1)
    BY <2>1
  <2>. DEFINE g == [i \in 0..k |-> IF i = k THEN Placed(f[k - 1], chunks[k]) ELSE f[i]]
  <2>3. ASSUME NEW i \in 0..k
        PROVE  g[i] = IF i = 0 THEN <<>> ELSE Placed(g[i - 1], chunks[i])
    <3>1. CASE i = k
      <4>1. k - 1 \in 0..k /\ k - 1 # k
        BY <1>2, <1>4
      <4>2. g[k - 1] = f[k - 1]
        BY <4>1
      <4>3. QED
        BY <1>4, <3>1, <4>2
    <3>2. CASE i # k
      <4>1. i \in 0..k - 1
        BY <1>2, <3>2
      <4>2. f[i] = IF i = 0 THEN <<>> ELSE Placed(f[i - 1], chunks[i])
        BY <2>2, <4>1 DEF Sorts
      <4>3. i # 0 => i - 1 \in 0..k /\ i - 1 # k
        BY <1>2, <4>1
      <4>4. i # 0 => g[i - 1] = f[i - 1]
        BY <4>3
      <4>5. QED
        BY <3>2, <4>2, <4>4
    <3>3. QED
      BY <3>1, <3>2
  <2>4. g = [i \in 0..k |-> g[i]]
    OBVIOUS
  <2>. HIDE DEF g
  <2>5. Sorts(g, chunks, k)
    BY <2>3, <2>4 DEF Sorts
  <2>6. QED
    BY <1>2, <2>5
<1>5. QED
  BY <1>3, <1>4

LEMMA SortedIs ==
  ASSUME NEW chunks, Len(chunks) \in Nat
  PROVE  \E f : Sorts(f, chunks, Len(chunks)) /\ Sorted(chunks) = f[Len(chunks)]
<1>. DEFINE n == Len(chunks)
            F == CHOOSE f : f = [i \in 0..n |-> IF i = 0 THEN <<>> ELSE Placed(f[i - 1], chunks[i])]
<1>1. Sorted(chunks) = F[n]
  BY DEF Sorted
<1>2. \E f : f = [i \in 0..n |-> IF i = 0 THEN <<>> ELSE Placed(f[i - 1], chunks[i])]
  <2>1. \E f : Sorts(f, chunks, n)
    BY SortingExists
  <2>2. QED
    BY <2>1 DEF Sorts
<1>3. F = [i \in 0..n |-> IF i = 0 THEN <<>> ELSE Placed(F[i - 1], chunks[i])]
  BY <1>2
<1>4. Sorts(F, chunks, n)
  BY <1>3 DEF Sorts
<1>5. QED
  BY <1>1, <1>4

LEMMA SortedTyped ==
  ASSUME NEW C, NEW chunks \in Seq(C)
  PROVE  Sorted(chunks) \in Seq(C)
<1>. DEFINE n == Len(chunks)
<1>1. n \in Nat /\ \A i \in 1..n : chunks[i] \in C
  OBVIOUS
<1>2. PICK f : Sorts(f, chunks, n) /\ Sorted(chunks) = f[n]
  BY <1>1, SortedIs
<1>. HIDE DEF n
<1>. DEFINE S == {i \in 0..n : f[i] \notin Seq(C)}
<1>3. S = {}
  <2>. SUFFICES ASSUME S # {}
                PROVE  FALSE
    OBVIOUS
  <2>1. PICK k \in S : \A j \in S : k <= j
    <3>1. S \in SUBSET Nat
      BY <1>1
    <3>. HIDE DEF S
    <3>2. QED
      BY <3>1, Least
  <2>2. k \in 0..n /\ f[k] \notin Seq(C)
    OBVIOUS
  <2>3. f[k] = IF k = 0 THEN <<>> ELSE Placed(f[k - 1], chunks[k])
    BY <1>2, <2>2 DEF Sorts
  <2>4. k # 0 => k - 1 \in 0..n /\ k - 1 \notin S /\ k \in 1..n
    BY <1>1, <2>1, <2>2
  <2>5. k # 0 => f[k - 1] \in Seq(C) /\ chunks[k] \in C
    BY <1>1, <2>4
  <2>6. k # 0 => Placed(f[k - 1], chunks[k]) \in Seq(C)
    BY <2>5, PlacedTyped
  <2>7. <<>> \in Seq(C)
    OBVIOUS
  <2>8. QED
    BY <2>2, <2>3, <2>6, <2>7
<1>4. n \in 0..n
  BY <1>1
<1>5. QED
  BY <1>2, <1>3, <1>4

LEMMA AssembledTyped ==
  ASSUME NEW chunks, IsSeq(chunks), \A c \in Range(chunks) : c.payload \in Seq(Data)
  PROVE  Assembled(chunks) \in Seq(Data)
<1>. DEFINE C == Range(chunks)
            sorted == Sorted(chunks)
            payloads == [i \in DOMAIN sorted |-> sorted[i].payload]
<1>1. sorted \in Seq(C) /\ \A c \in C : c.payload \in Seq(Data)
  BY SortedTyped DEF IsSeq
<1>2. Assembled(chunks) = FlattenSeq(payloads)
  BY DEF Assembled
<1>. HIDE DEF C, sorted
<1>3. Len(sorted) \in Nat /\ DOMAIN sorted = 1..Len(sorted) /\ \A i \in 1..Len(sorted) : sorted[i] \in C
  BY <1>1
<1>4. payloads \in Seq(Seq(Data))
  BY <1>1, <1>3
<1>. HIDE DEF payloads
<1>5. QED
  BY <1>2, <1>4, Flattened, EmptySeq

\* A part of a file.
LEMMA PartIs ==
  ASSUME original \in Seq(Data), NEW file \in Seq(Data), NEW k \in Nat \ {0},
         Reordered => file = original
  PROVE  Part(file, k) \in Seq(Data)
<1>. DEFINE whole == Len(original)
            half == Len(original) \div 2
            last == Min({k * MaxPayload, whole, Len(file)})
<1>1. whole \in Nat /\ Len(file) \in Nat /\ \A i \in 1..Len(file) : file[i] \in Data
  OBVIOUS
<1>2. half \in Nat /\ half <= whole
  BY <1>1
<1>. HIDE DEF half
<1>3. CASE Reordered
  <2>1. Part(file, k) = IF k = 1 THEN SubSeq(file, whole - half + 1, whole)
                                 ELSE SubSeq(file, 1, whole - half)
    BY <1>3 DEF Part, half
  <2>2. /\ whole - half + 1 \in Int /\ whole \in Int /\ whole - half \in Int
        /\ \A i \in whole - half + 1..whole : file[i] \in Data
        /\ \A i \in 1..whole - half : file[i] \in Data
    BY <1>1, <1>2, <1>3
  <2>3. QED
    BY <2>1, <2>2, SubSeqProperties
<1>4. CASE ~Reordered
  <2>1. Part(file, k) = SubSeq(file, (k - 1) * MaxPayload + 1, last)
    BY <1>4 DEF Part
  <2>2. last \in Int /\ last <= Len(file)
    <3>. DEFINE all == {k * MaxPayload, whole, Len(file)}
    <3>1. k * MaxPayload \in Nat
      BY QuicAssumption
    <3>2. all \in SUBSET Nat /\ all # {}
      BY <1>1, <3>1
    <3>3. \E x \in all : \A y \in all : x <= y
      <4>. HIDE DEF all
      <4>1. QED
        BY <3>2, Least
    <3>4. last \in all /\ \A y \in all : last <= y
      BY <3>3 DEF Min
    <3>5. QED
      BY <3>2, <3>4
  <2>3. (k - 1) * MaxPayload \in Nat
    BY QuicAssumption
  <2>. DEFINE first == (k - 1) * MaxPayload + 1
  <2>4. first \in Int /\ first >= 1
    BY <2>3
  <2>. HIDE DEF first, last
  <2>5. \A i \in first..last : file[i] \in Data
    BY <1>1, <2>2, <2>4
  <2>6. SubSeq(file, first, last) \in Seq(Data)
    BY <2>2, <2>4, <2>5, SubSeqProperties
  <2>7. QED
    BY <2>1, <2>6 DEF first
<1>5. QED
  BY <1>3, <1>4

LEMMA PayloadsAre ==
  ASSUME original \in Seq(Data), content \in Seq(Data), NEW k \in Nat \ {0}
  PROVE  Payloads(k) \subseteq Seq(Data)
<1>1. ~Reordered => Part(content, k) \in Seq(Data)
  BY PartIs
<1>2. Part(original, k) \in Seq(Data)
  BY PartIs
<1>3. [DOMAIN Part(original, k) -> Data] \subseteq Seq(Data)
  <2>. DEFINE part == Part(original, k)
  <2>1. DOMAIN part = 1..Len(part) /\ Len(part) \in Nat
    BY <1>2
  <2>. HIDE DEF part
  <2>2. [DOMAIN part -> Data] \subseteq Seq(Data)
    BY <2>1
  <2>3. QED
    BY <2>2 DEF part
<1>4. QED
  BY <1>1, <1>2, <1>3 DEF Payloads

\* The streams that are counted, carried, stored and written.
Carries(m) == m.type = "STREAM" => m.payload \in Seq(Data)
QuicUnits ==
  /\ mem.acked <= StreamCount
  /\ \A m \in Range(net.client) : Carries(m)
  /\ \A c \in Range(mem.chunks) : c.payload \in Seq(Data)
  /\ written \in Seq(Data)
QuicTyped == protocol = "quic-like" => QuicUnits

LEMMA StreamsCounted == ASSUME original \in Seq(Data) PROVE StreamCount \in Nat
<1>1. Len(original) \in Nat /\ MaxPayload \in Nat \ {0}
  BY QuicAssumption
<1>2. Len(original) + MaxPayload - 1 \in Nat
  BY <1>1
<1>. DEFINE n == Len(original) + MaxPayload - 1
<1>3. \A a \in Nat, b \in Nat \ {0} : a \div b \in Nat
  BY Z3
<1>4. n \div MaxPayload \in Nat
  <2>. HIDE DEF n
  <2>1. QED
    BY <1>1, <1>2, <1>3 DEF n
<1>5. QED
  BY <1>4 DEF StreamCount

LEMMA QuicTypedInitially == Init => QuicTyped
<1>. SUFFICES ASSUME Init, protocol = "quic-like"
              PROVE  QuicUnits
  BY DEF QuicTyped
<1>1. QuicInit
  BY DEF Init, RadiusInit, SipInit, DnsInit, TcpInit, MqttInit, WebInit, WsInit, Http2Init,
         PacketInit, DigestInit, RequestInit, FramesInit
<1>2. /\ net.client = <<>> /\ written = <<>>
      /\ mem = [peer |-> "nobody", acked |-> 0, chunks |-> <<>>]
  BY <1>1, PlacesInit DEF QuicInit, FilesInit
<1>3. mem.acked = 0 /\ mem.chunks = <<>>
  BY <1>2
<1>4. StreamCount \in Nat
  BY SettingsTypedInitially, StreamsCounted DEF SettingsTyped
<1>5. QED
  BY <1>2, <1>3, <1>4, ShortSeqs, EmptySeq DEF QuicUnits

\* What the server sends when it goes on.
LEMMA GoesOnCarries ==
  ASSUME original \in Seq(Data), content \in Seq(Data), NEW i, NEW k \in Nat, NEW peer,
         QuicGoesOn(i, k, peer)
  PROVE  \E msgs : /\ IsSeq(msgs) /\ \A m \in Range(msgs) : Carries(m)
                   /\ Exchange("server", i, msgs)
<1>. DEFINE ToPeer(m) == IF peer = "client" THEN <<m>> ELSE <<>>
            close == ClosePacket(original)
            stream(payload) == StreamPacket(IF Reordered /\ k = 0 THEN 3 ELSE 1,
                                            StreamSeq(k + 1), payload)
<1>1. ASSUME NEW m, Carries(m)
      PROVE  IsSeq(ToPeer(m)) /\ \A x \in Range(ToPeer(m)) : Carries(x)
  BY <1>1, ShortSeqs
<1>2. CASE Exchange("server", i, ToPeer(close))
  <2>1. Carries(close)
    BY DEF Carries, ClosePacket
  <2>2. QED
    BY <1>1, <1>2, <2>1
<1>3. CASE \E payload \in Payloads(k + 1) : Exchange("server", i, ToPeer(stream(payload)))
  <2>1. PICK payload \in Payloads(k + 1) : Exchange("server", i, ToPeer(stream(payload)))
    BY <1>3
  <2>2. payload \in Seq(Data)
    <3>1. k + 1 \in Nat \ {0}
      OBVIOUS
    <3>2. QED
      BY <3>1, PayloadsAre
  <2>3. Carries(stream(payload))
    BY <2>2 DEF Carries, StreamPacket
  <2>4. QED
    BY <1>1, <2>1, <2>3
<1>4. CASE Exchange("server", i, <<>>)
  BY <1>4, ShortSeqs
<1>5. QED
  BY <1>2, <1>3, <1>4 DEF QuicGoesOn

LEMMA QuicServerUnits ==
  ASSUME QuicShape, QuicUnits, SettingsStay, original \in Seq(Data), content \in Seq(Data),
         QuicServer
  PROVE  QuicUnits'
<1>1. /\ Sequences /\ mem.acked \in Nat
      /\ \A m \in Range(net.client) : Carries(m)
  BY DEF QuicShape, QuicUnits
<1>2. PICK peer : mem = [peer |-> peer, acked |-> mem.acked, chunks |-> mem.chunks]
  BY DEF QuicShape
<1>3. PICK other : mem' = [peer |-> other, acked |-> mem'.acked, chunks |-> mem.chunks]
  BY QuicServerDoes DEF QuicServerStep
<1>4. mem'.chunks = mem.chunks /\ written' = written
  BY <1>3, QuicServerDoes DEF QuicServerStep
<1>5. mem'.acked <= StreamCount
  <2>1. CASE QuicServerAck
    <3>1. \/ \E from : mem' = [mem EXCEPT !.peer = from, !.acked = mem.acked + 1]
          \/ \E from : mem' = [mem EXCEPT !.peer = from]
      BY <2>1 DEF QuicServerAck
    <3>2. mem.acked < StreamCount
      BY <2>1 DEF QuicServerAck, QuicShape
    <3>3. CASE \E from : mem' = [mem EXCEPT !.peer = from, !.acked = mem.acked + 1]
      <4>1. mem'.acked = mem.acked + 1
        BY <1>2, <3>3
      <4>2. QED
        BY <1>1, <3>2, <4>1, StreamsAre
    <3>4. CASE \E from : mem' = [mem EXCEPT !.peer = from]
      <4>1. mem'.acked = mem.acked
        BY <1>2, <3>4
      <4>2. QED
        BY <4>1 DEF QuicUnits
    <3>5. QED
      BY <3>1, <3>3, <3>4
  <2>2. CASE ~QuicServerAck
    <3>1. \/ \E from : mem' = [mem EXCEPT !.peer = from]
          \/ mem' = mem
      BY <2>2 DEF QuicServer, QuicServerInitial, QuicServerZeroRtt, QuicServerNoZeroRtt,
         QuicServerHandshakeAck, QuicServerFails
    <3>2. mem'.acked = mem.acked
      BY <1>2, <3>1
    <3>3. QED
      BY <3>2 DEF QuicUnits
  <2>3. QED
    BY <2>1, <2>2
<1>6. \A m \in Range(net'.client) : Carries(m)
  <2>. DEFINE handshake == <<Packet("HANDSHAKE", "server")>>
  <2>1. /\ IsSeq(handshake) /\ \A m \in Range(handshake) : Carries(m)
        /\ IsSeq(<<>>) /\ \A m \in Range(<<>>) : Carries(m)
    <3>1. Carries(Packet("HANDSHAKE", "server"))
      BY DEF Carries, Packet
    <3>2. QED
      BY <3>1, ShortSeqs
  <2>. HIDE DEF handshake
  <2>2. \/ net' = net
        \/ \E msgs : /\ IsSeq(msgs) /\ \A m \in Range(msgs) : Carries(m)
                     /\ \/ Send("server", msgs)
                        \/ \E i \in DOMAIN net.server : Exchange("server", i, msgs)
    <3>1. CASE QuicServerInitial
      BY <2>1, <3>1, ArrivingIs DEF QuicServerInitial, handshake
    <3>2. CASE QuicServerZeroRtt
      BY <2>1, <3>2, ArrivingIs DEF QuicServerZeroRtt, handshake
    <3>3. CASE QuicServerNoZeroRtt
      BY <2>1, <3>3, ArrivingIs DEF QuicServerNoZeroRtt, handshake
    <3>4. CASE QuicServerHandshakeAck
      <4>1. PICK i \in DOMAIN net.server :
              Exchange("server", i, <<>>) \/ QuicGoesOn(i, 0, net.server[i].from)
        BY <3>4, ArrivingIs DEF QuicServerHandshakeAck
      <4>2. QED
        BY <2>1, <4>1, GoesOnCarries
    <3>5. CASE QuicServerAck
      <4>1. PICK i \in DOMAIN net.server :
              Exchange("server", i, <<>>) \/ QuicGoesOn(i, mem.acked + 1, net.server[i].from)
        BY <3>5, ArrivingIs DEF QuicServerAck
      <4>2. mem.acked + 1 \in Nat
        BY <1>1
      <4>3. QED
        BY <2>1, <4>1, <4>2, GoesOnCarries
    <3>6. CASE QuicServerFails
      BY <3>6 DEF QuicServerFails
    <3>7. QED
      BY <3>1, <3>2, <3>3, <3>4, <3>5, <3>6 DEF QuicServer
  <2>3. CASE net' = net
    BY <1>1, <2>3
  <2>4. CASE net' # net
    <3>1. PICK msgs : /\ IsSeq(msgs) /\ \A m \in Range(msgs) : Carries(m)
                      /\ \/ Send("server", msgs)
                         \/ \E i \in DOMAIN net.server : Exchange("server", i, msgs)
      BY <2>2, <2>4
    <3>2. Range(net'.client) = Range(net.client) \cup Range(msgs)
      BY <1>1, <3>1, ServerTrades, ServerAdds
    <3>3. QED
      BY <1>1, <3>1, <3>2
  <2>5. QED
    BY <2>3, <2>4
<1>7. StreamCount' = StreamCount
  BY StreamsStay
<1>8. QED
  BY <1>4, <1>5, <1>6, <1>7 DEF QuicUnits

LEMMA QuicClientUnits ==
  ASSUME QuicShape, QuicUnits, SettingsStay, QuicClient
  PROVE  QuicUnits'
<1>1. /\ IsSeq(mem.chunks) /\ IsSeq(net.client)
      /\ \A m \in Range(net.client) : Carries(m)
      /\ \A c \in Range(mem.chunks) : c.payload \in Seq(Data)
  BY DEF QuicShape, QuicUnits, Sequences
<1>2. PICK peer : mem = [peer |-> peer, acked |-> mem.acked, chunks |-> mem.chunks]
  BY DEF QuicShape
<1>3. Range(net'.client) \subseteq Range(net.client)
  BY QuicClientDoes DEF QuicClientStep
<1>4. mem'.acked = mem.acked /\ \A c \in Range(mem'.chunks) : c.payload \in Seq(Data)
  <2>1. CASE mem' = mem
    BY <1>1, <2>1
  <2>2. CASE QuicClientStream
    <3>1. PICK i \in DOMAIN net.client :
            /\ net.client[i].type = "STREAM"
            /\ mem' = [mem EXCEPT !.chunks = QuicStore(mem.chunks, net.client[i])]
      BY <2>2, ArrivingIs DEF QuicClientStream
    <3>. DEFINE m == net.client[i]
                c == [id |-> m.id, seq |-> m.seq, payload |-> m.payload]
                new == QuicStore(mem.chunks, m)
    <3>2. c.payload \in Seq(Data)
      BY <1>1, <3>1 DEF Carries, Range
    <3>3. new = mem.chunks \/ new = Append(mem.chunks, c)
      BY DEF QuicStore
    <3>4. mem' = [mem EXCEPT !.chunks = new]
      BY <3>1
    <3>. HIDE DEF c, new
    <3>5. Range(new) \subseteq Range(mem.chunks) \cup {c}
      BY <1>1, <3>3, Extended
    <3>6. mem' = [peer |-> peer, acked |-> mem.acked, chunks |-> new]
      BY <1>2, <3>4
    <3>7. mem'.acked = mem.acked /\ mem'.chunks = new
      BY <3>6
    <3>8. QED
      BY <1>1, <3>2, <3>5, <3>7
  <2>3. QED
    BY <2>1, <2>2 DEF QuicClient, QuicClientStart, QuicClientHandshake, QuicClientClose,
           QuicClientIgnores, QuicClientFails
<1>5. written' \in Seq(Data)
  <2>1. CASE QuicClientClose
    <3>1. written' = Assembled(mem.chunks)
      BY <2>1 DEF QuicClientClose
    <3>2. QED
      BY <1>1, <3>1, AssembledTyped
  <2>2. CASE ~QuicClientClose
    <3>1. written' = written
      BY <2>2 DEF QuicClient, QuicClientStart, QuicClientHandshake, QuicClientStream,
             QuicClientIgnores, QuicClientFails, quietVars
    <3>2. QED
      BY <3>1 DEF QuicUnits
  <2>3. QED
    BY <2>1, <2>2
<1>6. StreamCount' = StreamCount
  BY StreamsStay
<1>7. QED
  BY <1>1, <1>3, <1>4, <1>5, <1>6 DEF QuicUnits

LEMMA QuicTypedKept == QuicTyped /\ QuicInv /\ SettingsTyped /\ [Next]_demoVars => QuicTyped'
<1>. SUFFICES ASSUME QuicTyped, QuicInv, SettingsTyped, [Next]_demoVars, protocol' = "quic-like"
              PROVE  QuicUnits'
  BY DEF QuicTyped
<1>1. SettingsStay /\ protocol = "quic-like"
  BY SettingsKept DEF SettingsStay
<1>2. /\ QuicShape /\ QuicUnits /\ Sequences /\ original \in Seq(Data) /\ content \in Seq(Data)
      /\ StreamCount' = StreamCount
  BY <1>1, StreamsStay DEF QuicInv, QuicParts, QuicShape, QuicTyped, SettingsTyped
<1>3. CASE UNCHANGED demoVars \/ Lose \/ Duplicate \/ OtherSends(QuicOtherMessages)
  <2>1. UNCHANGED <<mem, written>>
    BY <1>3 DEF demoVars, Lose, Duplicate, OtherSends, fileVars
  <2>2. Range(net'.client) \subseteq Range(net.client)
    <3>1. CASE UNCHANGED demoVars
      BY <3>1 DEF demoVars
    <3>2. CASE Lose \/ Duplicate
      BY <1>2, <3>2, Disturbed
    <3>3. CASE OtherSends(QuicOtherMessages)
      BY <1>2, <3>3, Disturbed
    <3>4. QED
      BY <1>3, <3>1, <3>2, <3>3
  <2>3. QED
    BY <1>2, <2>1, <2>2 DEF QuicUnits
<1>4. QuicServer \/ QuicClient \/ UNCHANGED demoVars \/ Lose \/ Duplicate
        \/ OtherSends(QuicOtherMessages)
  BY <1>1 DEF Next, Server, Client, Strangers, TcpFamily, WebFamily
<1>5. QED
  BY <1>1, <1>2, <1>3, <1>4, QuicServerUnits, QuicClientUnits

-----------------------------------------------------------------------------
(***************************************************************************)
(* WebDemo: how far the script and the server are.                         *)
(***************************************************************************)
\* How many requests the client has to make.
ScriptLength ==
  CASE protocol = "http-basic" /\ scenario = "bad-method" -> 1
    [] protocol = "http-basic" /\ scenario = "bad-auth" -> 2
    [] protocol = "http-basic" /\ scenario \in {"payload-too-large", "normal"} -> 3
    [] protocol = "oauth2" /\ scenario = "token-replay" -> 3
    [] OTHER -> 4

LEMMA ScriptLengthIs ==
  ASSUME \/ protocol = "http-basic" /\ scenario \in HttpScenarios
         \/ protocol = "oauth2" /\ scenario \in OauthScenarios
  PROVE  Len(Script) = ScriptLength /\ ScriptLength \in Nat \ {0}
<1>1. CASE protocol = "http-basic" /\ scenario \in HttpScenarios
  <2>1. Script = HttpScript
    BY <1>1 DEF Script
  <2>2. CASE scenario = "bad-method"
    BY <1>1, <2>1, <2>2 DEF HttpScript, ScriptLength
  <2>3. CASE scenario = "bad-auth"
    BY <1>1, <2>1, <2>3 DEF HttpScript, ScriptLength
  <2>4. CASE scenario = "payload-too-large"
    BY <1>1, <2>1, <2>4 DEF HttpScript, ScriptLength
  <2>5. CASE scenario = "normal"
    BY <1>1, <2>1, <2>5 DEF HttpScript, ScriptLength
  <2>6. QED
    BY <1>1, <2>2, <2>3, <2>4, <2>5 DEF HttpScenarios
<1>2. CASE protocol = "oauth2" /\ scenario \in OauthScenarios
  <2>1. Script = OauthScript
    BY <1>2 DEF Script
  <2>2. CASE scenario = "token-replay"
    BY <1>2, <2>1, <2>2 DEF OauthScript, ScriptLength
  <2>3. CASE scenario # "token-replay"
    BY <1>2, <2>1, <2>3 DEF OauthScript, ScriptLength
  <2>4. QED
    BY <2>2, <2>3
<1>3. QED
  BY <1>1, <1>2

WebCounts ==
  /\ mem = [passwords |-> mem.passwords, asked |-> mem.asked, authed |-> mem.authed,
            last |-> mem.last, step |-> mem.step]
  /\ mem.step \in 0..LastStep /\ mem.asked \in 0..ScriptLength

WebTyped == protocol \in WebFamily => WebCounts

LEMMA WebScenarios ==
  ASSUME protocol \in WebFamily, HttpInv, OauthInv
  PROVE  /\ \/ protocol = "http-basic" /\ scenario \in HttpScenarios
            \/ protocol = "oauth2" /\ scenario \in OauthScenarios
         /\ Sequences
         /\ protocol = "oauth2" =>
              \A m \in Range(net.server) : m.path \in {"authorize", "token", "resource", "refresh"}
BY DEF WebFamily, HttpInv, HttpParts, OauthInv, OauthParts, OauthShape

LEMMA WebTypedInitially == Init => WebTyped
<1>. SUFFICES ASSUME Init, protocol \in WebFamily
              PROVE  WebCounts
  BY DEF WebTyped
<1>1. WebInit
  BY DEF Init, QuicInit, RadiusInit, SipInit, DnsInit, TcpInit, MqttInit, Http2Init, WsInit,
         PacketInit, DigestInit, RequestInit, FramesInit, WebFamily
<1>2. \E passwords \in Attempts :
        mem = [passwords |-> passwords, asked |-> 0, authed |-> FALSE, last |-> "none", step |-> 0]
  BY <1>1 DEF WebInit
<1>3. ScriptLength \in Nat
  BY <1>1, ScriptLengthIs DEF WebInit
<1>4. QED
  BY <1>2, <1>3 DEF WebCounts, LastStep

LEMMA WebServerCounts ==
  ASSUME protocol \in WebFamily, HttpInv, OauthInv, WebCounts, SettingsStay, WebServer
  PROVE  WebCounts'
<1>1. LastStep' = LastStep /\ ScriptLength' = ScriptLength
  BY DEF SettingsStay, LastStep, ScriptLength
<1>2. CASE mem' = mem
  BY <1>1, <1>2 DEF WebCounts
<1>3. CASE mem' # mem
  <2>. DEFINE m == Head(net.server)
  <2>1. net.server # <<>> /\ mem' = WebServed(m)
    BY <1>3 DEF WebServer, WebServerServes, WebServerInterrupted
  <2>2. m \in Range(net.server)
    BY <2>1, WebScenarios, SeqIs DEF Sequences
  <2>. HIDE DEF m
  <2>3. \/ \E k \in 0..LastStep : mem' = [mem EXCEPT !.step = k]
        \/ mem' = [mem EXCEPT !.authed = TRUE]
        \/ mem' = [mem EXCEPT !.step = 2, !.last = m.code] /\ 2 \in 0..LastStep
    <3>1. CASE protocol = "http-basic"
      <4>1. LastStep = 3 /\ mem' = HttpServed(m)
        BY <2>1, <3>1 DEF WebServed, LastStep
      <4>2. mem' = [mem EXCEPT !.step = 3] \/ mem' = [mem EXCEPT !.authed = TRUE]
        BY <1>3, <4>1 DEF HttpServed
      <4>3. 3 \in 0..LastStep
        BY <4>1
      <4>4. QED
        BY <4>2, <4>3
    <3>2. CASE protocol = "oauth2"
      <4>1. /\ LastStep = 4 /\ mem' = OauthServed(m)
            /\ m.path \in {"authorize", "token", "resource", "refresh"}
        BY <2>1, <2>2, <3>2, WebScenarios DEF WebServed, LastStep
      <4>2. \/ \E k \in {1, 3, 4} : mem' = [mem EXCEPT !.step = k]
            \/ mem' = [mem EXCEPT !.step = 2, !.last = m.code]
        BY <4>1 DEF OauthServed
      <4>3. 2 \in 0..LastStep /\ \A k \in {1, 3, 4} : k \in 0..LastStep
        BY <4>1
      <4>4. QED
        BY <4>2, <4>3
    <3>3. QED
      BY <3>1, <3>2 DEF WebFamily
  <2>4. QED
    BY <1>1, <2>3 DEF WebCounts
<1>4. QED
  BY <1>2, <1>3

LEMMA WebClientCounts ==
  ASSUME protocol \in WebFamily, HttpInv, OauthInv, WebCounts, SettingsStay, WebClient
  PROVE  WebCounts'
<1>1. LastStep' = LastStep /\ ScriptLength' = ScriptLength
  BY DEF SettingsStay, LastStep, ScriptLength
<1>2. Len(Script) = ScriptLength /\ ScriptLength \in Nat \ {0}
  BY WebScenarios, ScriptLengthIs
<1>3. mem' = mem \/ \E k \in 0..ScriptLength : mem' = [mem EXCEPT !.asked = k]
  <2>1. CASE WebClientStart
    BY <1>2, <2>1 DEF WebClientStart
  <2>2. CASE WebClientResponse
    <3>1. mem' = mem \/ (mem.asked < ScriptLength /\ mem' = [mem EXCEPT !.asked = mem.asked + 1])
      BY <1>2, <2>2 DEF WebClientResponse
    <3>2. QED
      BY <1>2, <3>1 DEF WebCounts
  <2>3. CASE WebClientFails
    BY <2>3 DEF WebClientFails
  <2>4. QED
    BY <2>1, <2>2, <2>3 DEF WebClient
<1>4. QED
  BY <1>1, <1>3 DEF WebCounts

LEMMA WebTypedKept == WebTyped /\ HttpInv /\ OauthInv /\ [Next]_demoVars => WebTyped'
<1>. SUFFICES ASSUME WebTyped, HttpInv, OauthInv, [Next]_demoVars, protocol' \in WebFamily
              PROVE  WebCounts'
  BY DEF WebTyped
<1>1. SettingsStay /\ protocol \in WebFamily /\ WebCounts
  BY SettingsKept DEF SettingsStay, WebTyped
<1>2. CASE WebServer \/ WebClient
  BY <1>1, <1>2, WebServerCounts, WebClientCounts
<1>3. CASE UNCHANGED mem
  <2>1. LastStep' = LastStep /\ ScriptLength' = ScriptLength
    BY <1>1 DEF SettingsStay, LastStep, ScriptLength
  <2>2. QED
    BY <1>1, <1>3, <2>1 DEF WebCounts
<1>4. WebServer \/ WebClient \/ UNCHANGED mem
  BY <1>1, NetworkActs DEF Next, Server, Client, WebFamily, TcpFamily, demoVars
<1>5. QED
  BY <1>2, <1>3, <1>4

-----------------------------------------------------------------------------
(***************************************************************************)
(* ControlRequests: how much of the request is where.                      *)
(***************************************************************************)
RequestCounts ==
  /\ mem.used + Len(net.server) = mem.sent
  /\ mem.sent <= mem.request.head + mem.request.body

RequestTyped == protocol = "control" => RequestCounts

LEMMA RequestTypedInitially == Init => RequestTyped
<1>. SUFFICES ASSUME Init, protocol = "control"
              PROVE  RequestCounts
  BY DEF RequestTyped
<1>1. RequestInit
  BY DEF Init, QuicInit, RadiusInit, SipInit, DnsInit, TcpInit, MqttInit, WebInit, WsInit,
         Http2Init, PacketInit, DigestInit, FramesInit
<1>2. PICK r \in Requests : mem = [request |-> r, sent |-> 0, used |-> 0, outcome |-> "open"]
  BY <1>1 DEF RequestInit
<1>3. net.server = <<>> /\ Len(<<>>) = 0
  BY <1>1, PlacesInit DEF RequestInit
<1>4. r.head \in Nat /\ r.body \in Nat
  BY RequestsAssumption DEF IsRequest
<1>5. mem.sent = 0 /\ mem.used = 0 /\ mem.request = r
  BY <1>2
<1>6. QED
  BY <1>3, <1>4, <1>5 DEF RequestCounts

LEMMA RequestTypedKept ==
  ASSUME RequestTyped, RequestInv, [Next]_demoVars
  PROVE  RequestTyped'
<1>. SUFFICES ASSUME protocol' = "control"
              PROVE  RequestCounts'
  BY DEF RequestTyped
<1>1. protocol = "control"
  BY SettingsKept DEF SettingsStay
<1>2. /\ RequestShape /\ RequestCounts /\ Pair(net) /\ net.server \in Seq({"byte"})
      /\ mem.sent \in Nat /\ mem.used \in Nat /\ mem.request \in Requests
      /\ mem = [request |-> mem.request, sent |-> mem.sent, used |-> mem.used,
                outcome |-> mem.outcome]
      /\ Len(net.server) \in Nat
  BY <1>1 DEF RequestInv, RequestShape, RequestTyped
<1>3. mem.request.head \in Nat /\ mem.request.body \in Nat
  BY <1>2, RequestsAssumption DEF IsRequest
<1>4. CASE BrowserSends
  <2>1. PICK n \in 1..(mem.request.head + mem.request.body - mem.sent) :
          /\ Send("client", [i \in 1..n |-> "byte"])
          /\ mem' = [mem EXCEPT !.sent = mem.sent + n]
    BY <1>4 DEF BrowserSends
  <2>. DEFINE bytes == [i \in 1..n |-> "byte"]
  <2>2. n \in Nat /\ mem.sent + n <= mem.request.head + mem.request.body
    BY <1>2, <1>3
  <2>3. bytes \in Seq({"byte"}) /\ Len(bytes) = n
    BY <2>2
  <2>. HIDE DEF bytes
  <2>4. net' = [server |-> net.server \o bytes, client |-> net.client]
    BY <1>2, <2>1, SendIs DEF bytes
  <2>5. Len(net'.server) = Len(net.server) + n
    BY <1>2, <2>3, <2>4, ConcatProperties
  <2>6. mem'.sent = mem.sent + n /\ mem'.used = mem.used /\ mem'.request = mem.request
    BY <1>2, <2>1
  <2>7. QED
    BY <1>2, <2>2, <2>5, <2>6 DEF RequestCounts
<1>5. CASE BrowserLeaves \/ RequestEnds \/ UNCHANGED demoVars
  <2>1. net' = net /\ (mem' = mem \/ mem' = [mem EXCEPT !.outcome = "dropped"])
    BY <1>5 DEF BrowserLeaves, RequestEnds, demoVars
  <2>2. mem'.sent = mem.sent /\ mem'.used = mem.used /\ mem'.request = mem.request
    BY <1>2, <2>1
  <2>3. QED
    BY <1>2, <2>1, <2>2 DEF RequestCounts
<1>6. CASE RequestReceive
  <2>1. PICK n, result :
          /\ n \in 1..Min({Len(net.server), RequestBuffer - mem.used})
          /\ net' = [net EXCEPT !.server = SubSeq(net.server, n + 1, Len(net.server))]
          /\ mem' = [mem EXCEPT !.used = mem.used + n, !.outcome = result]
    BY <1>6 DEF RequestReceive
  <2>. DEFINE there == Len(net.server)
              room == RequestBuffer - mem.used
              least == Min({there, room})
  <2>2. there \in Nat /\ there \in Int /\ room \in Int
    BY <1>2, RequestBufferAssumption
  <2>3. n \in 1..least
    BY <2>1
  <2>. HIDE DEF there, room
  <2>4. least \in {there, room} /\ least <= there
    BY <2>2, MinOfTwo
  <2>. HIDE DEF least
  <2>5. n \in 0..there
    BY <2>2, <2>3, <2>4
  <2>6. n \in 0..Len(net.server) /\ n \in Nat
    BY <2>5 DEF there
  <2>7. Len(SubSeq(net.server, n + 1, Len(net.server))) = Len(net.server) - n
    BY <1>2, <2>6, Dropped DEF Drops
  <2>8. net'.server = SubSeq(net.server, n + 1, Len(net.server))
    BY <1>2, <2>1 DEF Pair
  <2>9. mem'.sent = mem.sent /\ mem'.used = mem.used + n /\ mem'.request = mem.request
    BY <1>2, <2>1
  <2>10. QED
    BY <1>2, <2>6, <2>7, <2>8, <2>9 DEF RequestCounts
<1>7. QED
  BY <1>1, <1>2, <1>4, <1>5, <1>6, RequestStep
     DEF RequestShape, RequestServer, RequestBrowser

-----------------------------------------------------------------------------
(***************************************************************************)
(* Http2Demo: no more streams than the scenario has.                       *)
(***************************************************************************)
\* The requests on their way to the server, which has begun to answer so many of n, come in
\* the order of their streams and are for streams it has not begun.
H2Asking(frames, begun, n) ==
  /\ \A i \in 1..Len(frames) : frames[i].type = "HEADERS" =>
       begun < frames[i].id /\ frames[i].id <= n
  /\ \A i, k \in 1..Len(frames) :
       i < k /\ frames[i].type = "HEADERS" /\ frames[k].type = "HEADERS" =>
         frames[i].id < frames[k].id

H2Limits ==
  /\ H2Begun <= H2Streams /\ H2Asking(net.server, H2Begun, H2Streams)
  /\ at.client \in {"start", "settings"} =>
       H2Begun = 0 /\ \A i \in 1..Len(net.server) : net.server[i].type # "HEADERS"
  /\ mem.stream \in 1..H2Streams + 1 /\ (at.client # "exit" => mem.stream <= H2Streams)

H2Typed == protocol = "http2" => H2Limits

LEMMA AskingShrinks ==
  ASSUME NEW begun \in Nat, NEW n \in Nat, NEW old \in Seq(H2Messages),
         NEW new \in Seq(H2Messages), Shrinks(old, new), H2Asking(old, begun, n)
  PROVE  /\ H2Asking(new, begun, n)
         /\ old[1].type = "HEADERS" => begun + 1 <= n /\ H2Asking(new, begun + 1, n)
<1>1. /\ Len(old) \in Nat /\ Len(new) \in Nat /\ 1 \in 1..Len(old)
      /\ \A i \in 1..Len(new) : new[i] = old[i + 1] /\ i + 1 \in 1..Len(old) /\ 1 < i + 1
  BY ShrinksIs DEF Shrinks
<1>2. H2Asking(new, begun, n)
  <2>1. \A i, k \in 1..Len(new) : i < k => i + 1 < k + 1
    BY <1>1
  <2>2. QED
    BY <1>1, <2>1 DEF H2Asking
<1>3. ASSUME old[1].type = "HEADERS"
      PROVE  begun + 1 <= n /\ H2Asking(new, begun + 1, n)
  <2>1. old[1].id \in Nat /\ begun < old[1].id /\ old[1].id <= n
    BY <1>1, <1>3, H2MessagesAre DEF H2Asking
  <2>2. ASSUME NEW i \in 1..Len(new), new[i].type = "HEADERS"
        PROVE  begun + 1 < new[i].id
    <3>1. /\ new[i] = old[i + 1] /\ i + 1 \in 1..Len(old) /\ 1 < i + 1
          /\ new[i] \in H2Messages
      BY <1>1
    <3>2. old[1].id < new[i].id /\ new[i].id \in Nat
      BY <1>1, <1>3, <2>2, <3>1, H2MessagesAre DEF H2Asking
    <3>3. QED
      BY <2>1, <3>2
  <2>3. QED
    BY <1>2, <2>1, <2>2 DEF H2Asking
<1>4. QED
  BY <1>2, <1>3

\* What is not a request does not matter.
LEMMA AskingGrows ==
  ASSUME NEW begun \in Nat, NEW n \in Nat, NEW old \in Seq(H2Messages),
         NEW new \in Seq(H2Messages), NEW more \in Seq(H2Messages), Grows(old, new, more),
         \A i \in 1..Len(more) : more[i].type # "HEADERS", H2Asking(old, begun, n)
  PROVE  /\ H2Asking(new, begun, n)
         /\ (\A i \in 1..Len(old) : old[i].type # "HEADERS") =>
              \A i \in 1..Len(new) : new[i].type # "HEADERS"
<1>1. ASSUME NEW i \in 1..Len(new)
      PROVE  \/ i \in 1..Len(old) /\ new[i] = old[i]
             \/ new[i].type # "HEADERS"
  <2>1. CASE i \in 1..Len(old)
    BY <2>1 DEF Grows
  <2>2. CASE i \notin 1..Len(old)
    <3>. DEFINE k == i - Len(old)
    <3>1. k \in 1..Len(more) /\ Len(old) + k = i
      BY <2>2 DEF Grows
    <3>2. new[Len(old) + k] = more[k]
      BY <3>1 DEF Grows
    <3>3. QED
      BY <3>1, <3>2
  <2>3. QED
    BY <2>1, <2>2
<1>2. QED
  BY <1>1 DEF H2Asking

\* Nor does a stream that the server breaks off.
LEMMA AskingLess ==
  ASSUME NEW begun \in Nat, NEW less \in Nat, less <= begun, NEW n \in Nat,
         NEW frames \in Seq(H2Messages), H2Asking(frames, begun, n)
  PROVE  H2Asking(frames, less, n)
<1>1. ASSUME NEW i \in 1..Len(frames), frames[i].type = "HEADERS"
      PROVE  less < frames[i].id
  <2>1. frames[i].id \in Nat
    BY <1>1, H2MessagesAre
  <2>2. begun < frames[i].id
    BY <1>1 DEF H2Asking
  <2>3. QED
    BY <2>1, <2>2
<1>2. QED
  BY <1>1 DEF H2Asking

LEMMA AskingGains ==
  ASSUME NEW begun \in Nat, NEW n \in Nat, NEW old \in Seq(H2Messages),
         NEW new \in Seq(H2Messages), NEW m, Gains(old, new, m), m.type # "HEADERS",
         H2Asking(old, begun, n)
  PROVE  H2Asking(new, begun, n)
<1>1. ASSUME NEW i \in 1..Len(new)
      PROVE  \/ i \in 1..Len(old) /\ new[i] = old[i]
             \/ new[i].type # "HEADERS"
  BY DEF Gains
<1>2. QED
  BY <1>1 DEF H2Asking

\* The client's requests.
LEMMA AskingBegins ==
  ASSUME NEW n \in Nat, NEW old \in Seq(H2Messages), NEW new \in Seq(H2Messages),
         Grows(old, new, [k \in 1..n |-> H2Stream("HEADERS", k)]),
         \A i \in 1..Len(old) : old[i].type # "HEADERS"
  PROVE  H2Asking(new, 0, n)
<1>. DEFINE asks == [k \in 1..n |-> H2Stream("HEADERS", k)]
<1>1. Len(asks) = n /\ \A k \in 1..n : asks[k].id = k
  BY H2MessagesAre
<1>. HIDE DEF asks
<1>2. Grows(old, new, asks) /\ Len(old) \in Nat
  BY DEF asks
<1>3. ASSUME NEW i \in 1..Len(new), new[i].type = "HEADERS"
      PROVE  i - Len(old) \in 1..n /\ new[i].id = i - Len(old)
  <2>1. i \notin 1..Len(old)
    BY <1>2, <1>3 DEF Grows
  <2>. DEFINE k == i - Len(old)
  <2>2. k \in 1..n /\ Len(old) + k = i
    BY <1>1, <1>2, <2>1 DEF Grows
  <2>3. new[Len(old) + k] = asks[k]
    BY <1>1, <1>2, <2>2 DEF Grows
  <2>4. QED
    BY <1>1, <2>2, <2>3
<1>4. QED
  BY <1>2, <1>3 DEF H2Asking

LEMMA H2TypedInitially == Init => H2Typed
<1>. SUFFICES ASSUME Init, protocol = "http2"
              PROVE  H2Limits
  BY DEF H2Typed
<1>1. Http2Init
  BY DEF Init, QuicInit, RadiusInit, SipInit, DnsInit, TcpInit, MqttInit, WebInit, WsInit,
         PacketInit, DigestInit, RequestInit, FramesInit
<1>2. /\ net.server = <<>> /\ at.server = "preface" /\ Len(<<>>) = 0
      /\ mem = [seen |-> 0, cancelled |-> FALSE, stream |-> 1, lines |-> <<>>]
  BY <1>1, PlacesInit DEF Http2Init
<1>3. mem.seen = 0 /\ mem.stream = 1 /\ H2Begun = 0
  BY <1>2 DEF H2Begun
<1>4. H2Streams \in Nat \ {0}
  BY Http2Assumption DEF H2Streams
<1>5. QED
  BY <1>2, <1>3, <1>4 DEF H2Limits, H2Asking

\* The server takes frames, and begins no more streams than it has taken requests for.
LEMMA H2ServerBegins ==
  ASSUME H2Parts, Pair(at), Pair(results), H2Server
  PROVE  /\ at'.client = at.client /\ mem'.stream = mem.stream /\ H2Begun' \in Nat
         /\ \/ net'.server = net.server /\ H2Begun' <= H2Begun
            \/ /\ net.server # <<>> /\ Shrinks(net.server, net'.server)
               /\ net.server[1].type = "HEADERS" => H2Begun' <= H2Begun + 1
               /\ net.server[1].type # "HEADERS" => H2Begun' <= H2Begun
<1>1. /\ Channels(H2Messages) /\ mem \in H2Mem /\ mem.seen \in Nat /\ Pair(net)
      /\ net.server \in Seq(H2Messages)
  BY DEF H2Parts, Channels, H2Mem
<1>2. \A next \in Nat, c \in BOOLEAN :
        /\ mem' = [mem EXCEPT !.seen = next] => mem'.seen = next /\ mem'.stream = mem.stream
        /\ mem' = [mem EXCEPT !.cancelled = c] => mem'.seen = mem.seen /\ mem'.stream = mem.stream
  BY <1>1 DEF H2Mem
<1>3. CASE H2ServerPreface \/ H2ServerSettings \/ H2ServerOtherFrame \/ H2ServerOverflow
  <2>1. /\ net.server # <<>> /\ at.server # "body"
        /\ \E msgs \in Seq(H2Messages) : Exchange("server", 1, msgs)
    <3>1. <<>> \in Seq(H2Messages) /\ <<H2Frame("SETTINGS"), H2Frame("SETTINGS")>> \in Seq(H2Messages)
      BY H2MessagesAre, EmptySeq
    <3>2. CASE H2ServerOverflow
      <4>. DEFINE m == H2Stream("RST_STREAM", Head(net.server).id)
      <4>1. net.server # <<>> /\ Head(net.server).type = "HEADERS" /\ at.server # "body"
            /\ Exchange("server", 1, <<m>>)
        BY <3>2 DEF H2ServerOverflow
      <4>2. m \in H2Messages
        BY <1>1, <4>1, FirstOf, H2MessagesAre
      <4>. HIDE DEF m
      <4>3. <<m>> \in Seq(H2Messages)
        BY <4>2
      <4>4. QED
        BY <4>1, <4>3
    <3>3. QED
      BY <1>3, <3>1, <3>2 DEF H2ServerPreface, H2ServerSettings, H2ServerOtherFrame
  <2>2. Shrinks(net.server, net'.server)
    BY <1>1, <2>1, ServerExchanges
  <2>3. mem'.seen = mem.seen /\ mem'.stream = mem.stream
    <3>1. (mem.cancelled \/ Head(net.server).type = "RST_STREAM") \in BOOLEAN
      BY <1>1 DEF H2Mem
    <3>2. mem' = mem \/ \E c \in BOOLEAN : mem' = [mem EXCEPT !.cancelled = c]
      BY <1>3, <3>1
         DEF H2ServerPreface, H2ServerSettings, H2ServerOtherFrame, H2ServerOverflow
    <3>3. QED
      BY <1>2, <3>2
  <2>4. at'.client = at.client /\ at'.server # "body"
    <3>1. \/ \E place \in {"settings", "frames"} : Goto("server", place)
          \/ \E printed : Finish("server", printed)
      BY <1>3 DEF H2ServerPreface, H2ServerSettings, H2ServerOtherFrame, H2ServerOverflow,
                  H2ServerNextFrame
    <3>2. QED
      BY <3>1, Moves
  <2>5. QED
    BY <1>1, <2>1, <2>2, <2>3, <2>4 DEF H2Begun
<1>4. CASE H2ServerHeaders
  <2>. DEFINE m == H2Stream("HEADERS", Head(net.server).id)
  <2>1. /\ net.server # <<>> /\ Head(net.server).type = "HEADERS" /\ at.server = "frames"
        /\ Exchange("server", 1, <<m>>) /\ Goto("server", "body") /\ mem' = mem
    BY <1>4 DEF H2ServerHeaders
  <2>2. m \in H2Messages /\ net.server[1].type = "HEADERS"
    BY <1>1, <2>1, FirstOf, H2MessagesAre
  <2>. HIDE DEF m
  <2>3. Shrinks(net.server, net'.server)
    BY <1>1, <2>1, <2>2, ServerAnswers
  <2>4. at'.server = "body" /\ at'.client = at.client
    BY <2>1, Moves
  <2>5. QED
    BY <1>1, <2>1, <2>2, <2>3, <2>4 DEF H2Begun
<1>5. CASE H2ServerBody
  <2>. DEFINE next == mem.seen + 1
              m == H2Stream("DATA", next)
  <2>1. mem' = [mem EXCEPT !.seen = next] /\ next \in Nat /\ at.server = "body"
    BY <1>1, <1>5 DEF H2ServerBody
  <2>2. mem'.seen = next /\ mem'.stream = mem.stream
    BY <1>2, <2>1
  <2>3. Send("server", <<m>>)
    BY <1>5, <2>2 DEF H2ServerBody
  <2>4. net'.server = net.server
    BY <1>1, <2>3, SendIs
  <2>5. at'.client = at.client /\ at'.server # "body"
    <3>1. Goto("server", "frames") \/ \E printed : Finish("server", printed)
      BY <1>5 DEF H2ServerBody, H2ServerNextFrame
    <3>2. QED
      BY <3>1, Moves
  <2>6. QED
    BY <1>1, <2>1, <2>2, <2>4, <2>5 DEF H2Begun
<1>6. CASE H2ServerReceiveFails \/ H2ServerSendBreaks
  <2>1. /\ UNCHANGED <<net, mem>>
        /\ (\E printed : Finish("server", printed)) \/ Killed("server")
    BY <1>6 DEF H2ServerReceiveFails, H2ServerSendBreaks
  <2>2. at'.client = at.client /\ at'.server = "exit"
    BY <2>1, Moves, FinishIs
  <2>3. QED
    BY <1>1, <2>1, <2>2 DEF H2Begun
<1>7. QED
  BY <1>3, <1>4, <1>5, <1>6 DEF H2Server

LEMMA H2ServerLimits ==
  ASSUME H2Parts, H2Parts', Pair(at), Pair(results), SettingsStay, H2Limits, H2Server
  PROVE  H2Limits'
<1>1. /\ H2Streams' = H2Streams /\ H2Streams \in Nat /\ H2Begun \in Nat
      /\ net.server \in Seq(H2Messages) /\ net'.server \in Seq(H2Messages)
  BY H2Counts DEF SettingsStay, H2Streams, H2Parts, Channels
<1>2. at'.client = at.client /\ mem'.stream = mem.stream /\ H2Begun' \in Nat
  BY H2ServerBegins
<1>3. /\ H2Begun' <= H2Streams /\ H2Asking(net'.server, H2Begun', H2Streams)
      /\ at.client \in {"start", "settings"} =>
           H2Begun' = 0 /\ \A i \in 1..Len(net'.server) : net'.server[i].type # "HEADERS"
  <2>1. CASE net'.server = net.server /\ H2Begun' <= H2Begun
    <3>1. H2Asking(net.server, H2Begun', H2Streams)
      BY <1>1, <1>2, <2>1, AskingLess DEF H2Limits
    <3>2. H2Begun' <= H2Streams
      BY <1>1, <1>2, <2>1 DEF H2Limits
    <3>3. at.client \in {"start", "settings"} => H2Begun' = 0
      BY <1>1, <1>2, <2>1 DEF H2Limits
    <3>4. QED
      BY <2>1, <3>1, <3>2, <3>3 DEF H2Limits
  <2>2. CASE /\ net.server # <<>> /\ Shrinks(net.server, net'.server)
             /\ net.server[1].type = "HEADERS" /\ H2Begun' <= H2Begun + 1
    <3>1. H2Begun + 1 <= H2Streams /\ H2Asking(net'.server, H2Begun + 1, H2Streams)
      BY <1>1, <2>2, AskingShrinks DEF H2Limits
    <3>2. at.client \notin {"start", "settings"}
      BY <1>1, <2>2, FirstOf DEF H2Limits
    <3>3. QED
      BY <1>1, <1>2, <2>2, <3>1, <3>2, AskingLess
  <2>3. CASE /\ net.server # <<>> /\ Shrinks(net.server, net'.server)
             /\ H2Begun' <= H2Begun
    <3>1. H2Asking(net'.server, H2Begun, H2Streams)
      BY <1>1, <2>3, AskingShrinks DEF H2Limits
    <3>2. Len(net.server) \in Nat /\ Len(net'.server) \in Nat
      BY <1>1
    <3>3. \A i \in 1..Len(net'.server) : net'.server[i] = net.server[i + 1]
                                         /\ i + 1 \in 1..Len(net.server)
      BY <2>3, <3>2, ShrinksIs
    <3>4. H2Asking(net'.server, H2Begun', H2Streams) /\ H2Begun' <= H2Streams
      BY <1>1, <1>2, <2>3, <3>1, AskingLess DEF H2Limits
    <3>5. at.client \in {"start", "settings"} => H2Begun' = 0
      BY <1>1, <1>2, <2>3 DEF H2Limits
    <3>6. ASSUME at.client \in {"start", "settings"}
          PROVE  \A i \in 1..Len(net'.server) : net'.server[i].type # "HEADERS"
      BY <3>3, <3>6 DEF H2Limits
    <3>7. QED
      BY <3>4, <3>5, <3>6
  <2>4. QED
    BY <2>1, <2>2, <2>3, H2ServerBegins
<1>4. QED
  BY <1>1, <1>2, <1>3 DEF H2Limits

LEMMA H2ClientLimits ==
  ASSUME H2Parts, H2Parts', Pair(at), Pair(results), SettingsStay, H2Limits, H2Client
  PROVE  H2Limits'
<1>1. /\ H2Streams' = H2Streams /\ H2Streams \in Nat \ {0} /\ H2Begun \in Nat
      /\ Channels(H2Messages) /\ Pair(net) /\ mem \in H2Mem
      /\ net.server \in Seq(H2Messages) /\ net'.server \in Seq(H2Messages)
      /\ net.client \in Seq(H2Messages) /\ mem.stream \in Nat
  BY H2Counts DEF SettingsStay, H2Streams, H2Parts, Channels, H2Mem
<1>2. /\ H2Begun <= H2Streams /\ H2Asking(net.server, H2Begun, H2Streams)
      /\ mem.stream \in 1..H2Streams + 1 /\ (at.client # "exit" => mem.stream <= H2Streams)
  BY DEF H2Limits
<1>3. /\ mem'.seen = mem.seen
      /\ mem'.stream = mem.stream \/ mem'.stream = mem.stream + 1
  <2>1. \/ mem' = mem \/ mem' = [mem EXCEPT !.stream = mem.stream + 1]
        \/ \E lines : mem' = [mem EXCEPT !.lines = lines, !.stream = mem.stream + 1]
    BY DEF H2Client, H2ClientStart, H2ClientSettings, H2ClientSettingsFail, H2ClientHeaders,
           H2ClientData, H2ClientLost, H2ClientSkips, H2ClientLostEnds
  <2>2. QED
    BY <1>1, <2>1 DEF H2Mem
<1>4. at'.server = at.server
  <2>1. \/ UNCHANGED at \/ (\E place : Goto("client", place))
        \/ \E printed : Finish("client", printed)
    BY DEF H2Client, H2ClientStart, H2ClientSettings, H2ClientSettingsFail, H2ClientHeaders,
           H2ClientData, H2ClientLost, H2ClientSkips, H2ClientLostEnds, H2ClientNextStream
  <2>2. QED
    BY <2>1, Moves
<1>5. H2Begun' = H2Begun
  BY <1>3, <1>4 DEF H2Begun
<1>6. /\ mem'.stream \in 1..H2Streams + 1
      /\ at'.client # "exit" => mem'.stream <= H2Streams
  <2>1. CASE mem'.stream = mem.stream
    <3>1. at'.client # "exit" => at.client # "exit"
      BY DEF H2Client, H2ClientStart, H2ClientSettings, H2ClientSettingsFail, H2ClientHeaders,
             H2ClientData, H2ClientLost, H2ClientSkips, H2ClientLostEnds
    <3>2. QED
      BY <1>2, <2>1, <3>1
  <2>2. CASE mem'.stream # mem.stream
    <3>1. mem' # mem
      BY <2>2
    <3>2. /\ at.client \in {"headers", "data"}
          /\ H2ClientNextStream("headers") \/ H2ClientNextStream("lost")
      BY <3>1 DEF H2Client, H2ClientStart, H2ClientSettings, H2ClientSettingsFail,
             H2ClientHeaders, H2ClientData, H2ClientLost, H2ClientSkips, H2ClientLostEnds
    <3>3. \/ mem.stream < H2Streams
          \/ Finish("client", OK)
      BY <3>2 DEF H2ClientNextStream
    <3>4. mem.stream < H2Streams \/ at'.client = "exit"
      BY <3>3, Moves
    <3>5. QED
      BY <1>1, <1>2, <1>3, <2>2, <3>2, <3>4
  <2>3. QED
    BY <2>1, <2>2
<1>7. /\ H2Asking(net'.server, H2Begun, H2Streams)
      /\ at'.client \in {"start", "settings"} =>
           H2Begun = 0 /\ \A i \in 1..Len(net'.server) : net'.server[i].type # "HEADERS"
  <2>1. CASE H2ClientStart /\ net' # net
    <3>. DEFINE first == H2Frame("PREFACE")
                second == H2Frame("SETTINGS")
                msgs == <<first, second>>
    <3>1. Send("client", msgs) /\ at.client = "start"
      BY <2>1 DEF H2ClientStart
    <3>2. /\ first \in H2Messages /\ second \in H2Messages
          /\ first.type # "HEADERS" /\ second.type # "HEADERS"
      BY H2MessagesAre
    <3>. HIDE DEF first, second
    <3>3. msgs \in Seq(H2Messages) /\ \A i \in 1..Len(msgs) : msgs[i].type # "HEADERS"
      BY <3>2
    <3>. HIDE DEF msgs
    <3>4. Grows(net.server, net'.server, msgs)
      BY <1>1, <3>1, <3>3, ClientSends
    <3>5. QED
      <4>1. H2Begun = 0 /\ \A i \in 1..Len(net.server) : net.server[i].type # "HEADERS"
        BY <3>1 DEF H2Limits
      <4>2. /\ H2Asking(net'.server, H2Begun, H2Streams)
            /\ \A i \in 1..Len(net'.server) : net'.server[i].type # "HEADERS"
        <5>1. PICK new \in Seq(H2Messages) : new = net'.server
          BY <1>1
        <5>2. Grows(net.server, new, msgs)
          BY <3>4, <5>1
        <5>3. H2Streams \in Nat /\ H2Begun \in Nat
          BY <1>1
        <5>4. PICK old \in Seq(H2Messages), more \in Seq(H2Messages) :
                old = net.server /\ more = msgs
          BY <1>1, <3>3
        <5>5. PICK n \in Nat, begun \in Nat : n = H2Streams /\ begun = H2Begun
          BY <5>3
        <5>6. /\ Grows(old, new, more) /\ H2Asking(old, begun, n)
              /\ \A i \in 1..Len(more) : more[i].type # "HEADERS"
              /\ \A i \in 1..Len(old) : old[i].type # "HEADERS"
          BY <1>2, <3>3, <4>1, <5>2, <5>4, <5>5
        <5>7. H2Asking(new, begun, n) /\ \A i \in 1..Len(new) : new[i].type # "HEADERS"
          BY ONLY AskingGrows, <5>6
        <5>8. QED
          BY <5>1, <5>5, <5>7
      <4>3. QED
        BY <4>1, <4>2
  <2>2. CASE H2ClientSettings
    <3>. DEFINE asks == [k \in 1..H2Streams |-> H2Stream("HEADERS", k)]
                frame == H2Frame("SETTINGS")
                ack == Append(net.server, frame)
    <3>1. /\ at.client = "settings" /\ Goto("client", "headers")
          /\ net'.server = ack \o asks
      BY <1>1, <2>2 DEF H2ClientSettings, Pair
    <3>2. H2Begun = 0 /\ \A i \in 1..Len(net.server) : net.server[i].type # "HEADERS"
      BY <3>1 DEF H2Limits
    <3>3. frame \in H2Messages /\ frame.type # "HEADERS"
      BY H2MessagesAre
    <3>4. asks \in Seq(H2Messages)
      BY <1>1, H2MessagesAre
    <3>. HIDE DEF asks, frame
    <3>5. ack \in Seq(H2Messages) /\ Gains(net.server, ack, frame)
      BY <1>1, <3>3, Appended
    <3>. HIDE DEF ack
    <3>6. \A i \in 1..Len(ack) : ack[i].type # "HEADERS"
      BY <1>1, <3>2, <3>3, <3>5 DEF Gains
    <3>7. Grows(ack, net'.server, asks)
      BY <3>1, <3>4, <3>5, Concatenated
    <3>8. H2Asking(net'.server, 0, H2Streams)
      BY <1>1, <3>5, <3>6, <3>7, AskingBegins DEF asks
    <3>9. at'.client = "headers"
      BY <3>1, Moves
    <3>10. QED
      BY <3>2, <3>8, <3>9
  <2>3. CASE H2ClientHeaders \/ H2ClientLost \/ H2ClientData
    <3>1. /\ net.client # <<>> /\ at.client \in {"headers", "data", "lost"}
          /\ \/ Exchange("client", 1, <<H2Stream("RST_STREAM", mem.stream)>>)
             \/ Exchange("client", 1, <<>>)
          /\ \/ UNCHANGED at \/ (\E place \in {"headers", "data", "lost"} : Goto("client", place))
             \/ \E printed : Finish("client", printed)
      BY <2>3 DEF H2ClientHeaders, H2ClientLost, H2ClientData, H2ClientNextStream
    <3>. DEFINE m == H2Stream("RST_STREAM", mem.stream)
    <3>2. m \in H2Messages /\ m.type # "HEADERS"
      BY <1>1, H2MessagesAre
    <3>. HIDE DEF m
    <3>3. Gains(net.server, net'.server, m) \/ net'.server = net.server
      BY <1>1, <3>1, <3>2, ClientAnswers, ClientTakes DEF m
    <3>4. H2Asking(net'.server, H2Begun, H2Streams)
      BY <1>1, <1>2, <3>2, <3>3, AskingGains
    <3>5. at'.client \notin {"start", "settings"}
      BY <3>1, Moves
    <3>6. QED
      BY <3>4, <3>5
  <2>4. CASE net' = net
    <3>1. CASE H2ClientStart
      <4>1. at.client = "start"
        BY <3>1 DEF H2ClientStart
      <4>2. QED
        BY <1>2, <2>4, <4>1 DEF H2Limits
    <3>2. CASE H2ClientSettingsFail \/ H2ClientSkips \/ H2ClientLostEnds
      <4>1. \/ (\E place \in {"headers", "data"} : Goto("client", place))
            \/ (\E printed : Finish("client", printed))
        BY <3>2 DEF H2ClientSettingsFail, H2ClientSkips, H2ClientLostEnds, H2ClientNextStream
      <4>2. at'.client \notin {"start", "settings"}
        BY <4>1, Moves
      <4>3. QED
        BY <1>2, <2>4, <4>2
    <3>3. QED
      BY <2>2, <2>3, <3>1, <3>2 DEF H2Client
  <2>5. QED
    BY <2>1, <2>2, <2>3, <2>4
       DEF H2Client, H2ClientSettingsFail, H2ClientSkips, H2ClientLostEnds
<1>8. QED
  BY <1>1, <1>2, <1>5, <1>6, <1>7 DEF H2Limits

LEMMA H2TypedKept == H2Typed /\ H2Inv /\ ReportedOnce /\ [Next]_demoVars => H2Typed'
<1>. SUFFICES ASSUME H2Typed, H2Inv, ReportedOnce, [Next]_demoVars, protocol' = "http2"
              PROVE  H2Limits'
  BY DEF H2Typed
<1>1. SettingsStay /\ protocol = "http2" /\ protocol' = "http2"
  BY SettingsKept DEF SettingsStay
<1>2. H2Parts /\ faults \in StreamFaults /\ H2Limits /\ Pair(at) /\ Pair(results)
  BY <1>1 DEF H2Inv, H2Parts, H2Typed, ReportedOnce
<1>3. H2Parts'
  BY <1>1, H2NextKeeps DEF H2Inv, H2Parts
<1>4. CASE UNCHANGED demoVars
  <2>1. UNCHANGED <<at, net, mem>> /\ H2Streams' = H2Streams
    BY <1>1, <1>4 DEF demoVars, SettingsStay, H2Streams
  <2>2. QED
    BY <1>2, <2>1 DEF H2Limits, H2Asking, H2Begun
<1>5. QED
  BY <1>1, <1>2, <1>3, <1>4, H2Step, H2ServerLimits, H2ClientLimits

-----------------------------------------------------------------------------
(***************************************************************************)
(* The types of all the variables.                                         *)
(***************************************************************************)
TypesInv ==
  /\ SettingsTyped /\ SignalsTyped /\ NothingWritten /\ WsTyped /\ QuicTyped /\ WebTyped
  /\ RequestTyped /\ H2Typed
  /\ ResultsInv /\ TcpInv /\ QuicInv /\ PacketInv /\ DigestInv /\ RequestInv

LEMMA TypesInitially == Init => TypesInv
BY SettingsTypedInitially, SignalsTypedInitially, NothingWrittenInitially, WsTypedInitially,
   QuicTypedInitially, WebTypedInitially, RequestTypedInitially, H2TypedInitially,
   ResultsInitially, TcpInitially, QuicInitially, PacketInitially, DigestInitially,
   RequestInitially
   DEF TypesInv

LEMMA TypesStep == TypesInv /\ [Next]_demoVars => TypesInv'
<1>. SUFFICES ASSUME TypesInv, [Next]_demoVars
              PROVE  TypesInv'
  OBVIOUS
<1>1. /\ SettingsTyped /\ SignalsTyped /\ NothingWritten /\ WsTyped /\ QuicTyped /\ WebTyped
      /\ RequestTyped /\ H2Typed
      /\ ResultsInv /\ TcpInv /\ QuicInv /\ PacketInv /\ DigestInv /\ RequestInv
  BY DEF TypesInv
<1>2. ReportedOnce /\ HttpInv /\ OauthInv /\ WsInv /\ H2Inv
  BY <1>1 DEF ResultsInv
<1>3. SettingsTyped' /\ SignalsTyped' /\ NothingWritten'
  BY <1>1, SettingsTypedKept, SignalsTypedKept, NothingWrittenKept
<1>4. WsTyped' /\ QuicTyped' /\ WebTyped'
  BY <1>1, <1>2, WsTypedKept, QuicTypedKept, WebTypedKept
<1>5. RequestTyped' /\ H2Typed'
  BY <1>1, <1>2, RequestTypedKept, H2TypedKept
<1>6. ResultsInv' /\ TcpInv' /\ QuicInv'
  BY <1>1, ResultsKept, TcpNextKeeps, QuicNextKeeps
<1>7. PacketInv' /\ DigestInv' /\ RequestInv'
  BY <1>1, PacketNext, DigestNext, RequestNext
<1>8. QED
  BY <1>3, <1>4, <1>5, <1>6, <1>7 DEF TypesInv

LEMMA TypesFollow == TypesInv => TypeOK
<1>. SUFFICES ASSUME TypesInv
              PROVE  TypeOK
  OBVIOUS
<1>1. /\ SettingsTyped /\ SignalsTyped /\ NothingWritten /\ WsTyped /\ QuicTyped /\ WebTyped
      /\ RequestTyped /\ H2Typed
      /\ ResultsInv /\ TcpInv /\ QuicInv /\ PacketInv /\ DigestInv /\ RequestInv
  BY DEF TypesInv
<1>2. ReportedOnce /\ HttpInv /\ OauthInv /\ WsInv /\ H2Inv
  BY <1>1 DEF ResultsInv
<1>3. /\ DOMAIN at = Programs
      /\ \A p \in Programs : Len(results[p]) <= 2 /\ (~Ended(p) => results[p] = <<>>)
  <2>1. \A printed \in Printable : Len(printed) <= 2
    <3>1. ABORT \in Seq({"ABORT"}) /\ Len(ABORT) = 1 /\ Len(OK) = 1 /\ Len(<<>>) = 0
      BY DEF ABORT, OK
    <3>2. \A s, t \in Seq({"ABORT"}) : Len(s \o t) = Len(s) + Len(t)
      BY ConcatProperties
    <3>3. Len(ABORT \o ABORT) = 2
      <4>1. Len(ABORT \o ABORT) = Len(ABORT) + Len(ABORT)
        BY Zenon, <3>1, <3>2
      <4>2. QED
        BY <3>1, <4>1
    <3>4. QED
      BY <3>1, <3>3 DEF Printable
  <2>2. DOMAIN at = Programs
    BY <1>2 DEF ReportedOnce, Pair, Programs
  <2>3. QED
    BY <1>2, <2>1, <2>2 DEF ReportedOnce, Ended, Programs
<1>4. written \in Seq(Data)
  <2>1. CASE protocol \in TcpFamily
    BY <1>1, <2>1 DEF TcpInv, TcpShape
  <2>2. CASE protocol = "quic-like"
    BY <1>1, <2>2 DEF QuicTyped, QuicUnits
  <2>3. CASE protocol = "websocket-basic"
    BY <1>1, <2>3 DEF WsTyped, WsUnits
  <2>4. CASE protocol \notin FileProtocols \cup {"websocket-basic"}
    BY <1>1, <2>4, EmptySeq DEF NothingWritten
  <2>5. QED
    BY <2>1, <2>2, <2>3, <2>4 DEF FileProtocols
<1>5. protocol = "quic-like" => mem.acked \in 0..StreamCount /\ Len(mem.chunks) <= Capacity
  <2>1. StreamCount \in Nat
    BY <1>1, StreamsCounted DEF SettingsTyped
  <2>2. QED
    BY <1>1, <2>1 DEF QuicInv, QuicParts, QuicShape, QuicTyped, QuicUnits
<1>6. protocol \in TcpFamily => mem.attempt \in 0..3 /\ mem.given \in 0..3
  BY <1>1 DEF TcpInv, TcpShape, TcpMem
<1>7. protocol \in WebFamily => mem.step \in 0..LastStep /\ mem.asked \in 0..Len(Script)
  BY <1>1, <1>2, WebScenarios, ScriptLengthIs DEF WebTyped, WebCounts
<1>8. protocol = "http2" => mem.seen \in 0..H2Streams /\ mem.stream \in 1..H2Streams + 1
  <2>1. ASSUME protocol = "http2"
        PROVE  mem.seen \in Nat /\ H2Begun <= H2Streams /\ mem.stream \in 1..H2Streams + 1
    BY <1>1, <1>2, <2>1 DEF H2Inv, H2Mem, H2Typed, H2Limits
  <2>2. H2Streams \in Nat
    BY Http2Assumption DEF H2Streams
  <2>3. QED
    BY <2>1, <2>2 DEF H2Begun
<1>9. (protocol = "packet" => PacketTypeOK) /\ (protocol = "sha1" => DigestTypeOK)
  BY <1>1, PacketTypes DEF DigestInv, DigestShape
<1>10. protocol = "control" => RequestTypeOK
  BY <1>1 DEF RequestInv, RequestShape, RequestTyped, RequestCounts, RequestTypeOK, Outcomes
<1>11. SettingsTyped /\ spent \in 0..MaxFaults /\ stopped \subseteq Programs
  BY <1>1 DEF SignalsTyped
<1>12. QED
  BY <1>3, <1>4, <1>5, <1>6, <1>7, <1>8, <1>9, <1>10, <1>11 DEF TypeOK, SettingsTyped

\* In every run of every demo the variables of the two programs keep to their declarations:
\* the password rounds are at most three, the HTTP/2 server answers no more streams than the
\* scenario has, the QUIC server counts no acknowledgement it does not wait for and its client
\* stores no more chunks than the array takes, a stranger's requests leave the step of the web
\* servers in range, and what a client writes is of the file's units; and a program reports
\* nothing before it ends.
THEOREM TypesKept == Spec => []TypeOK
<1>1. TypesInv /\ [Next]_demoVars => TypesInv'
  BY TypesStep
<1>2. QED
  BY TypesInitially, <1>1, TypesFollow, PTL DEF Spec
=============================================================================
