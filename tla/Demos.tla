-------------------------------- MODULE Demos --------------------------------
(***************************************************************************)
(* The ten protocol demos that test/run_tests.py starts as a pair of       *)
(* programs, all in one specification: a behaviour is one run of one       *)
(* protocol in one scenario and one environment.  With them are a packet   *)
(* of protocol.c on its way, a digest of sha1_util.c, and a request to the *)
(* control server and its WebSocket.                                       *)
(***************************************************************************)
EXTENDS QuicLike, RadiusDemo, SipDemo, DnsDemo, TcpDemo, MqttDemo, WebDemo, WebSocketDemo,
        Http2Demo, PacketFormat, Sha1, ControlRequests, ControlWebSocket

Init ==
  \/ QuicInit \/ RadiusInit \/ SipInit \/ DnsInit \/ TcpInit \/ MqttInit
  \/ WebInit \/ WsInit \/ Http2Init
  \/ PacketInit \/ DigestInit \/ RequestInit \/ FramesInit

TcpFamily == {"tcp-basic", "tls-like"}
WebFamily == {"http-basic", "oauth2"}
\* What has no demo programs.
Shared == {"packet", "sha1", "control", "frames"}

\* What a stranger can send to a server that takes what anybody sends.
Strangers ==
  \/ protocol = "quic-like" /\ OtherSends(QuicOtherMessages)
  \/ protocol = "radius" /\ OtherSends(RadiusOtherMessages)
  \/ protocol = "sip" /\ OtherSends(SipOtherMessages)
  \/ protocol = "dns" /\ OtherSends(DnsOtherMessages)
  \/ protocol = "http-basic" /\ OtherSends(HttpOtherRequests)
  \/ protocol = "oauth2" /\ OtherSends(OauthOtherRequests)
  \/ protocol = "packet" /\ PacketOther

Server ==
  \/ protocol = "quic-like" /\ QuicServer
  \/ protocol = "radius" /\ RadiusServer
  \/ protocol = "sip" /\ SipServer
  \/ protocol = "dns" /\ DnsServer
  \/ protocol \in TcpFamily /\ TcpServer
  \/ protocol = "mqtt" /\ MqttServer
  \/ protocol \in WebFamily /\ WebServer
  \/ protocol = "websocket-basic" /\ WsServer
  \/ protocol = "http2" /\ H2Server
  \/ protocol = "packet" /\ PacketReceive
  \/ protocol = "sha1" /\ Digest
  \/ protocol = "control" /\ RequestServer
  \/ protocol = "frames" /\ FrameServer

Client ==
  \/ protocol = "quic-like" /\ QuicClient
  \/ protocol = "radius" /\ RadiusClient
  \/ protocol = "sip" /\ SipClient
  \/ protocol = "dns" /\ DnsClient
  \/ protocol \in TcpFamily /\ TcpClient
  \/ protocol = "mqtt" /\ MqttClient
  \/ protocol \in WebFamily /\ WebClient
  \/ protocol = "websocket-basic" /\ WsClient
  \/ protocol = "http2" /\ H2Client
  \/ protocol = "packet" /\ PacketSend
  \/ protocol = "control" /\ RequestBrowser
  \/ protocol = "frames" /\ FrameBrowser

Next == Server \/ Client \/ Lose \/ Duplicate \/ Strangers

StreamProtocols == TcpFamily \cup WebFamily \cup {"mqtt", "websocket-basic", "http2"}

\* p has nothing to receive, or no connection to accept, and no timeout: only a
\* signal can end its wait.  (The places named are no such waits: the WebSocket
\* server waits five seconds for the PONG.)
OnlySignalEnds(p) ==
  /\ protocol \in StreamProtocols
  /\ at[p] \notin {"start", "send", "text", "pong", "pause", "body", "exit"}
  /\ net[p] = <<>>
  /\ at[p] = "accept" \/ ~Ended(Other(p))

\* Two processes that the kernel schedules; a receive that can return does.  That a
\* signal comes is not assumed.
Spec ==
  /\ Init /\ [][Next]_demoVars
  /\ WF_demoVars(Server /\ ~OnlySignalEnds("server"))
  /\ WF_demoVars(Client /\ ~OnlySignalEnds("client"))

-----------------------------------------------------------------------------
\* The protocols whose client publishes a copy of the server's file.
FileProtocols == TcpFamily \cup {"quic-like"}
BothEnded == \A p \in Programs : Ended(p)
PrintsOk(p) == "OK" \in Range(results[p])

\* The variables have the values their declarations in the code allow, and a
\* program that has not ended has printed nothing.
TypeOK ==
  /\ faults \in DatagramFaults \cup StreamFaults \/ (protocol \in Shared /\ faults = {})
  /\ spent \in 0..MaxFaults
  /\ DOMAIN at = Programs
  /\ \A p \in Programs : Len(results[p]) <= 2 /\ (~Ended(p) => results[p] = <<>>)
  /\ stopped \subseteq Programs
  /\ {original, content, written} \subseteq Seq(Data)
  /\ protocol = "quic-like" => mem.acked \in 0..StreamCount /\ Len(mem.chunks) <= Capacity
  /\ protocol \in TcpFamily => mem.attempt \in 0..3 /\ mem.given \in 0..3
  /\ protocol \in WebFamily => mem.step \in 0..LastStep /\ mem.asked \in 0..Len(Script)
  /\ protocol = "http2" => mem.seen \in 0..H2Streams /\ mem.stream \in 1..H2Streams + 1
  /\ protocol = "packet" => PacketTypeOK
  /\ protocol = "sha1" => DigestTypeOK
  /\ protocol = "control" => RequestTypeOK

\* The scenarios in which both programs are to print OK; in the others neither is.
ExpectedOk(p) ==
  CASE p = "quic-like" -> QuicScenarios
    [] p = "radius" -> {"normal", "chap-vs-pap"}
    [] p = "sip" -> SipScenarios \ {"replay-invite"}
    [] p = "dns" -> DnsScenarios
    [] p = "tcp-basic" -> {"normal", "stream-fragmentation"}
    [] p = "tls-like" -> {"normal"}
    [] p = "mqtt" -> {"normal", "cleartext-eavesdrop"}
    [] p \in {"http-basic", "websocket-basic"} -> {"normal"}
    [] p = "http2" -> {"normal", "multiplex"}
    [] p = "oauth2" -> OauthScenarios \ {"token-replay"}

\* The client has the password, in the first of its three if it gives no other.
LetIn ==
  /\ protocol \in TcpFamily => \E k \in 1..3 : mem.passwords[k]
  /\ protocol \in {"http-basic", "websocket-basic"} => mem.passwords[1]

\* A transfer the program has no room for: the file_buf of stream-reorder, the
\* client's chunks.
TooLong ==
  /\ protocol = "quic-like"
  /\ StreamCount > Capacity \/ (Reordered /\ Len(original) > MaxPayload)

\* With an empty file there is no first frame to close after, to tamper with or
\* to replay.
NothingToSpoil ==
  /\ protocol \in TcpFamily /\ content = <<>>
  /\ scenario \in {"connection-close-mid-transfer", "tampered-app-data", "replay"}

\* The client of nxdomain-redir is told that there is no such name, the others get one
\* address, of which only the count is written: the forged one of spoofed-response too.
DnsLine ==
  IF scenario = "nxdomain-redir" THEN [rcode |-> 3, ancount |-> 0]
  ELSE [rcode |-> 0, ancount |-> 1]

\* What the client of a transfer has at the end of it.
Delivered ==
  CASE protocol \in FileProtocols -> committed = <<original>>
    [] protocol = "websocket-basic" -> written = SubSeq(content, 1, Len(WsText))
    [] protocol = "http2" -> mem.lines = [k \in 1..H2Streams |-> k]
    [] protocol = "dns" -> mem.lines = <<DnsLine>>
    [] OTHER -> TRUE

\* The programs fail, and say so; but the server of tampered-app-data sends on to
\* a client that has ended, and SIGPIPE may end it before it has said anything.
BothFail ==
  /\ \A p \in Programs : ~PrintsOk(p)
  /\ results.client # <<>>
  /\ results.server # <<>> \/ scenario = "tampered-app-data"
  /\ committed = <<>>

\* The scenarios that test/run_tests.py does not run.  Their texts in scenarios.json
\* promise more than the programs do, as doh-tls, which is coded as plain UDP.
Untested ==
  {"none", "replay-invite", "doh-tls", "stream-cancellation", "cleartext-eavesdrop",
   "implicit-deprecated"}

\* Undisturbed, and with a file that does not change, a scenario ends as its test in
\* test/run_tests.py expects, for files and passwords of every kind: with both results
\* OK and everything delivered that the programs' code sends, or with both ABORT and
\* nothing published.
TestedOutcome ==
  faults = {} /\ BothEnded /\ original = content /\ ~TooLong /\ ~NothingToSpoil
    /\ scenario \notin Untested /\ protocol \notin Shared
  => IF LetIn /\ scenario \in ExpectedOk(protocol)
     THEN (\A p \in Programs : results[p] = OK) /\ Delivered
     ELSE BothFail

\* No program reports both a success and a failure, though the RADIUS and SIP
\* servers report in their loops and again at their end.
OneResult == \A p \in Programs : ~(PrintsOk(p) /\ "ABORT" \in Range(results[p]))

\* Whatever is lost, repeated or interrupted, a client publishes at most once, only
\* when it then reports OK, and nothing but the whole file whose digest the server
\* announced: the file of the server's start, or with tls-like that of the transfer.
\* The WebSocket client reports OK with all the text, unless some came with the 101.
OutputIsWholeFile ==
  /\ Len(committed) <= 1
  /\ \A k \in DOMAIN committed :
       /\ PrintsOk("client")
       /\ committed[k] = IF protocol = "tls-like" THEN content ELSE original
  /\ protocol \in FileProtocols /\ PrintsOk("client") =>
       committed = <<written>> \/ ("rename" \in faults /\ committed = <<>>)
  /\ protocol = "websocket-basic" /\ "merge" \notin faults /\ PrintsOk("client") =>
       written = SubSeq(content, 1, Len(WsText))

\* No server gives the file away, or is content with a client, before the right
\* password, unless a stop ends the password rounds of tcp-basic, which then sends
\* the file all the same.
TransferOnlyWithSecret ==
  /\ protocol \in TcpFamily /\ mem.sent > 0 =>
       mem.authed \/ (protocol = "tcp-basic" /\ "server" \in stopped)
  /\ protocol = "websocket-basic" /\ at.server \in {"text", "pong"} => mem.passwords[1]
  /\ protocol \in {"http-basic", "websocket-basic"} /\ (PrintsOk("server") \/ written # <<>>)
       => mem.passwords[1]

\* The clients write what they receive in order: the TCP client the units of the
\* file, none that was tampered with and none a second time; the HTTP/2 client the
\* streams, none twice.
WritesInSequence ==
  /\ protocol \in TcpFamily => IsPrefix(written, content)
  /\ protocol = "tls-like" =>
       /\ Len(written) = mem.seen
       /\ scenario = "tampered-app-data" => written = <<>>
       /\ scenario = "replay" => Len(written) <= 1
  /\ protocol = "http2" =>
       \A j, k \in DOMAIN mem.lines : j < k => mem.lines[j] < mem.lines[k]

\* When the QUIC server reports OK, and no stranger has answered for the client,
\* the client has stored every stream, or as many as it has room for.
StreamsKept ==
  protocol = "quic-like" /\ "other" \notin faults /\ PrintsOk("server") =>
    \/ Len(mem.chunks) = Capacity
    \/ \A k \in 1..StreamCount :
         \E c \in Range(mem.chunks) : c.seq = StreamSeq(k) /\ c.payload \in Payloads(k)

\* A client that reports OK has been served by a server that reports OK too.  The
\* exceptions are the flows whose last messages nobody waits for: the BYE of SIP,
\* and MQTT's PUBLISH when the server is stopped or one recv returns both PUBRECs;
\* and HTTP/2 with a signal, which makes the client skip the stream.
ClientOkMeansServerOk ==
  PrintsOk("client") /\ Ended("server")
    /\ ~(protocol = "sip" /\ scenario = "invite-bye")
    /\ ~(protocol = "mqtt" /\ faults \cap {"stop", "merge"} # {})
    /\ ~(protocol = "http2" /\ "stop" \in faults)
  => PrintsOk("server")

\* The results of a run agree with each other.
ResultsAgree == OneResult /\ ClientOkMeansServerOk

\* Both programs come to an end, however the network and the signals interfere.  But
\* an HTTP or OAuth server that has not been stopped waits for a next connection for
\* ever if its client is interrupted, or if a stranger's token request hides the replay
\* of the client's code from it.
BothEnd ==
  protocol \notin Shared =>
    <>(\/ BothEnded
       \/ /\ protocol \in WebFamily
          /\ "stop" \in faults \/ (protocol = "oauth2" /\ "other" \in faults)
          /\ Ended("client") /\ at.server = "accept" /\ net.server = <<>>)
=============================================================================
