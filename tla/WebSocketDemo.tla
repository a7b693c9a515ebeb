---------------------------- MODULE WebSocketDemo ----------------------------
(***************************************************************************)
(* websocket_demo_server.c and websocket_demo_client.c: an Upgrade that    *)
(* carries the password, the beginning of the file in TEXT frames, a PING  *)
(* that must be answered, and a CLOSE.  A frame carries one unit.          *)
(***************************************************************************)
EXTENDS DemoPrograms

CONSTANT MaxText  \* the units the server reads of its file (WS_MAX_PAYLOAD)

ASSUME WsAssumption == MaxText \in Nat

WsScenarios == {"normal", "bad-upgrade", "ping-timeout", "unexpected-close"}

WsFrame(opcode) == [opcode |-> opcode]
TextFrame(unit) == [opcode |-> "TEXT", unit |-> unit]
\* good: a websocket upgrade with the right password.
Upgrade(good) == [opcode |-> "UPGRADE", good |-> good]

WsInit ==
  /\ protocol = "websocket-basic"
  /\ scenario \in WsScenarios
  /\ faults \in StreamFaults
  /\ ProgramsInit("upgrade")
  /\ FilesInit
  /\ \E passwords \in Attempts : mem = [passwords |-> passwords]

-----------------------------------------------------------------------------
(***************************************************************************)
(* The server.                                                             *)
(***************************************************************************)
WsServerUpgrade ==
  /\ at.server = "upgrade" /\ net.server # <<>>
  /\ \/ Head(net.server).good
        /\ Exchange("server", 1, <<WsFrame("101")>>) /\ Goto("server", "text")
     \/ ~Head(net.server).good
        /\ Exchange("server", 1, <<WsFrame("400")>>) /\ Finish("server", ABORT)
  /\ UNCHANGED <<quietVars, mem>>

WsText ==
  [k \in 1..Min({Len(content), MaxText}) |-> TextFrame(content[k])]

\* After a pause of 50 ms.
WsServerSendsText ==
  /\ at.server = "text"
  /\ \/ scenario = "unexpected-close"
        /\ Send("server", WsText) /\ Finish("server", ABORT)
     \/ scenario # "unexpected-close"
        /\ Send("server", Append(WsText, WsFrame("PING"))) /\ Goto("server", "pong")
  /\ UNCHANGED <<quietVars, mem>>

WsServerSendBreaks ==
  /\ at.server = "text" /\ SendBreaks("server", TRUE)
  /\ UNCHANGED <<quietVars, net, mem>>

\* The PONG may find that the client has gone in the meantime.
WsServerPong ==
  /\ at.server = "pong" /\ net.server # <<>>
  /\ \/ Exchange("server", 1, <<WsFrame("CLOSE")>>) /\ Finish("server", OK)
     \/ Exchange("server", 1, <<>>) /\ SendBreaks("server", FALSE)
  /\ UNCHANGED <<quietVars, mem>>

\* For the PONG, SO_RCVTIMEO is set.
WsServerFails ==
  /\ \/ at.server = "upgrade" /\ ReceiveFails("server")
     \/ at.server = "pong" /\ (ReceiveFails("server") \/ TimesOut("server"))
  /\ Finish("server", ABORT)
  /\ UNCHANGED <<quietVars, net, mem>>

WsServer ==
  \/ WsServerUpgrade \/ WsServerSendsText \/ WsServerSendBreaks
  \/ WsServerPong \/ WsServerFails

-----------------------------------------------------------------------------
(***************************************************************************)
(* The client.                                                             *)
(***************************************************************************)
WsClientStart ==
  /\ at.client = "start"
  /\ \/ Ended("server") /\ UNCHANGED net /\ Finish("client", ABORT)
     \/ ~Ended("server")
        /\ Send("client", <<Upgrade(scenario # "bad-upgrade" /\ mem.passwords[1])>>)
        /\ Goto("client", "upgraded")
  /\ UNCHANGED <<quietVars, mem>>

\* The loop goes on to the next frame, unless there is a stop by now.
WsClientNextFrame ==
  /\ SignalWhileBusy("client")
  /\ IF "client" \in stopped' THEN Finish("client", ABORT) ELSE Goto("client", "frames")

\* The response is read as far as there is something to read: frames that have come
\* with it are dropped.
WsClientUpgraded ==
  /\ at.client = "upgraded"
  /\ ReceiveOne("client", <<>>)
  /\ \/ Head(net.client).opcode = "101" /\ WsClientNextFrame
     \/ Head(net.client).opcode # "101" /\ UNCHANGED stopped /\ Finish("client", ABORT)
  /\ UNCHANGED <<settingVars, spent, mem, fileVars>>

\* The line feed that the client writes behind each text is left out.
WsClientText ==
  /\ at.client = "frames" /\ net.client # <<>> /\ Head(net.client).opcode = "TEXT"
  /\ written' = Append(written, Head(net.client).unit)
  /\ Exchange("client", 1, <<>>)
  /\ WsClientNextFrame
  /\ UNCHANGED <<settingVars, spent, mem, original, content, committed>>

\* The answer is a PONG and a TEXT that the server does not read any more.
WsClientPing ==
  /\ at.client = "frames" /\ net.client # <<>> /\ Head(net.client).opcode = "PING"
  /\ \/ /\ Exchange("client", 1, IF scenario = "ping-timeout" THEN <<>>
                                 ELSE <<WsFrame("PONG"), WsFrame("TEXT")>>)
        /\ WsClientNextFrame
     \/ scenario # "ping-timeout" /\ Exchange("client", 1, <<>>)
        /\ SendBreaks("client", TRUE) /\ UNCHANGED stopped
  /\ UNCHANGED <<settingVars, spent, mem, fileVars>>

WsClientClose ==
  /\ at.client = "frames" /\ net.client # <<>> /\ Head(net.client).opcode = "CLOSE"
  /\ Exchange("client", 1, <<>>)
  /\ Finish("client", OK)
  /\ UNCHANGED <<quietVars, mem>>

WsClientFails ==
  /\ at.client \in {"upgraded", "frames"} /\ ReceiveFails("client")
  /\ Finish("client", ABORT)
  /\ UNCHANGED <<quietVars, net, mem>>

WsClient ==
  \/ WsClientStart \/ WsClientUpgraded \/ WsClientText \/ WsClientPing
  \/ WsClientClose \/ WsClientFails

WsNext == WsServer \/ WsClient
=============================================================================
