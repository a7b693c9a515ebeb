------------------------------- MODULE TcpDemo -------------------------------
(***************************************************************************)
(* tcp_demo_server.c and tcp_demo_client.c: passwords, then the file in    *)
(* frames, for tls-like after a handshake that both ends authenticate with *)
(* the password.  A frame carries one unit of the file, what one fread     *)
(* returns; the receiver puts a frame together however it was sent.  Once  *)
(* the passwords are done, no loop of the server looks at stop_requested.  *)
(***************************************************************************)
EXTENDS DemoPrograms

TcpBasicScenarios == {"normal", "stream-fragmentation", "connection-close-mid-transfer"}
TlsScenarios == {"normal", "tampered-finished", "tampered-app-data", "replay"}

Frame(type) == [type |-> type]
PassResp(right) == [type |-> "PASS_RESP", right |-> right]
DataFrame(unit) == [type |-> "DATA", unit |-> unit]
TerminateFrame(digest) == [type |-> "TERMINATE", digest |-> digest]
\* mac: it is the one the receiver computes.
FinishedFrame(mac) == [type |-> "FINISHED", mac |-> mac]
AppData(seq, unit, mac) == [type |-> "APP_DATA", seq |-> seq, unit |-> unit, mac |-> mac]

TcpInit ==
  /\ \/ protocol = "tcp-basic" /\ scenario \in TcpBasicScenarios
     \/ protocol = "tls-like" /\ scenario \in TlsScenarios
  /\ faults \in StreamFaults
  /\ ProgramsInit("join")
  /\ FilesInit
  \* passwords: argv; given: the client's attempt; attempt, authed: the server's;
  \* sent: the units of the file the server has sent; seen: the client's seen_seq
  /\ \E passwords \in Attempts :
       mem = [passwords |-> passwords, given |-> 0, attempt |-> 0, authed |-> FALSE,
              sent |-> 0, seen |-> 0]

-----------------------------------------------------------------------------
(***************************************************************************)
(* The server.                                                             *)
(***************************************************************************)

\* What comes after the password rounds, which a stop also ends.
TcpServerTransfers ==
  Goto("server", IF protocol = "tls-like" THEN "hello" ELSE "send")

\* The loop condition after a round without a result.
TcpServerNextRound ==
  IF "server" \in stopped' THEN TcpServerTransfers ELSE Goto("server", "auth")

\* The accept is part of it: a client's first frame is its JOIN_REQ.
TcpServerJoin ==
  /\ at.server = "join" /\ net.server # <<>>
  /\ Head(net.server).type = "JOIN_REQ"
  /\ SignalWhileBusy("server")
  /\ Exchange("server", 1, <<Frame("PASS_REQ")>>)
  /\ TcpServerNextRound
  /\ UNCHANGED <<settingVars, spent, fileVars, mem>>

LastAttempt(attempt) == attempt >= 3

TcpServerPassword ==
  /\ at.server = "auth" /\ net.server # <<>>
  /\ Head(net.server).type = "PASS_RESP"
  /\ SignalWhileBusy("server")
  /\ LET right == Head(net.server).right
         attempt == mem.attempt + 1
     IN  /\ mem' = [mem EXCEPT !.attempt = attempt, !.authed = right]
         /\ \/ right
               /\ Exchange("server", 1, <<Frame("PASS_ACCEPT")>>)
               /\ TcpServerTransfers
            \/ ~right /\ LastAttempt(attempt)
               /\ Exchange("server", 1, <<Frame("REJECT")>>)
               /\ Finish("server", ABORT)
            \/ ~right /\ ~LastAttempt(attempt)
               /\ Exchange("server", 1, <<Frame("PASS_REQ")>>)
               /\ TcpServerNextRound
  /\ UNCHANGED <<settingVars, spent, fileVars>>

\* A frame of another type than the one the server waits for.
TcpServerUnexpected ==
  /\ net.server # <<>>
  /\ \/ at.server = "auth" /\ Head(net.server).type # "PASS_RESP"
     \/ at.server = "hello" /\ Head(net.server).type # "CLIENT_HELLO"
  /\ Exchange("server", 1, <<>>)
  /\ Finish("server", ABORT)
  /\ UNCHANGED <<quietVars, mem>>

TcpServerReceiveFails ==
  /\ at.server \in {"join", "auth", "hello", "finished"}
  /\ ReceiveFails("server")
  /\ Finish("server", ABORT)
  /\ UNCHANGED <<quietVars, net, mem>>

TlsServerHello ==
  /\ at.server = "hello" /\ net.server # <<>>
  /\ Head(net.server).type = "CLIENT_HELLO"
  /\ Exchange("server", 1, <<Frame("SERVER_HELLO")>>)
  /\ Goto("server", "finished")
  /\ UNCHANGED <<quietVars, mem>>

\* A client that comes this far was let in with the password it derives its key
\* from: its MAC is the one expected.
TlsServerFinished ==
  /\ at.server = "finished" /\ net.server # <<>>
  /\ Head(net.server) = FinishedFrame(TRUE)
  /\ Exchange("server", 1, <<FinishedFrame(scenario # "tampered-finished")>>)
  /\ \/ scenario = "tampered-finished" /\ Finish("server", ABORT)
     \/ scenario # "tampered-finished" /\ Goto("server", "send")
  /\ UNCHANGED <<quietVars, mem>>

\* The frames of the k-th unit: the first one may be tampered with, or sent twice.
TcpFrames(k) ==
  LET app == AppData(k, content[k], ~(scenario = "tampered-app-data" /\ k = 1))
  IN  CASE protocol = "tcp-basic" -> <<DataFrame(content[k])>>
        [] scenario = "replay" /\ k = 1 -> <<app, app>>
        [] OTHER -> <<app>>

TcpServerSendsUnit ==
  /\ at.server = "send" /\ mem.sent < Len(content)
  /\ LET k == mem.sent + 1
     IN  /\ mem' = [mem EXCEPT !.sent = k]
         /\ Send("server", TcpFrames(k))
         /\ \/ k = 1 /\ scenario \in {"connection-close-mid-transfer", "replay"}
               /\ Finish("server", ABORT)
            \/ ~(k = 1 /\ scenario \in {"connection-close-mid-transfer", "replay"})
               /\ Goto("server", "send")
  /\ UNCHANGED quietVars

\* tcp-basic announces the digest taken at the start, tls-like takes it again.
TcpServerTerminates ==
  /\ at.server = "send" /\ mem.sent = Len(content)
  /\ \/ scenario = "tampered-app-data"
        /\ UNCHANGED net /\ Finish("server", ABORT)
     \/ scenario # "tampered-app-data"
        /\ Send("server",
             <<TerminateFrame(IF protocol = "tcp-basic" THEN original ELSE content)>>)
        /\ Finish("server", OK)
  /\ UNCHANGED <<quietVars, mem>>

TcpServerSendBreaks ==
  /\ at.server = "send" /\ SendBreaks("server", scenario \in {"stream-fragmentation", "replay"})
  /\ UNCHANGED <<quietVars, net, mem>>

TcpServer ==
  \/ TcpServerJoin \/ TcpServerPassword \/ TcpServerUnexpected \/ TcpServerReceiveFails
  \/ TlsServerHello \/ TlsServerFinished
  \/ TcpServerSendsUnit \/ TcpServerTerminates \/ TcpServerSendBreaks

-----------------------------------------------------------------------------
(***************************************************************************)
(* The client.                                                             *)
(***************************************************************************)

\* The client has received as many frames as taken says, none or one, and sends msgs.
TcpClientSends(taken, msgs) ==
  net' = [net EXCEPT !.client = SubSeq(@, taken + 1, Len(@)), !.server = @ \o msgs]

\* After the password rounds, which a stop ends as well.
TcpClientTransfers(taken, msgs) ==
  \/ protocol = "tls-like"
     /\ TcpClientSends(taken, msgs \o <<Frame("CLIENT_HELLO")>>) /\ Goto("client", "hello")
  \/ protocol = "tcp-basic" /\ "client" \notin stopped'
     /\ TcpClientSends(taken, msgs) /\ Goto("client", "data")
  \/ protocol = "tcp-basic" /\ "client" \in stopped'
     /\ TcpClientSends(taken, msgs) /\ Finish("client", ABORT)

TcpClientNextRound(taken, msgs) ==
  \/ "client" \notin stopped' /\ TcpClientSends(taken, msgs) /\ Goto("client", "auth")
  \/ "client" \in stopped' /\ TcpClientTransfers(taken, msgs)

TcpClientStart ==
  /\ at.client = "start" /\ ~Ended("server")
  /\ SignalWhileBusy("client")
  /\ TcpClientNextRound(0, <<Frame("JOIN_REQ")>>)
  /\ UNCHANGED <<settingVars, spent, fileVars, mem>>

TcpClientRefused ==
  /\ at.client = "start" /\ Ended("server")
  /\ Finish("client", ABORT)
  /\ UNCHANGED <<quietVars, net, mem>>

TcpClientAuth ==
  /\ at.client = "auth" /\ net.client # <<>>
  /\ SignalWhileBusy("client")
  /\ LET m == Head(net.client)
     IN  \/ m.type = "PASS_REQ"
            /\ mem' = [mem EXCEPT !.given = @ + 1]
            /\ TcpClientNextRound(1, <<PassResp(mem.passwords[mem.given + 1])>>)
         \/ m.type = "PASS_ACCEPT" /\ UNCHANGED mem /\ TcpClientTransfers(1, <<>>)
         \/ m.type = "REJECT" /\ UNCHANGED mem
            /\ TcpClientSends(1, <<>>) /\ Finish("client", ABORT)
         \/ m.type \notin {"PASS_REQ", "PASS_ACCEPT", "REJECT"} /\ UNCHANGED mem
            /\ TcpClientNextRound(1, <<>>)
  /\ UNCHANGED <<settingVars, spent, fileVars>>

TcpClientReceiveFails ==
  /\ at.client \in {"auth", "hello", "finished", "data"}
  /\ ReceiveFails("client")
  /\ Finish("client", ABORT)
  /\ UNCHANGED <<quietVars, net, mem>>

TlsClientHello ==
  /\ at.client = "hello" /\ net.client # <<>>
  /\ \/ Head(net.client).type = "SERVER_HELLO"
        /\ TcpClientSends(1, <<FinishedFrame(TRUE)>>) /\ Goto("client", "finished")
     \/ Head(net.client).type # "SERVER_HELLO"
        /\ TcpClientSends(1, <<>>) /\ Finish("client", ABORT)
  /\ UNCHANGED <<quietVars, mem>>

\* A loop of the transfer goes on, unless there is a stop by now.
TcpClientNextFrame ==
  /\ SignalWhileBusy("client")
  /\ \/ "client" \notin stopped' /\ Goto("client", "data")
     \/ "client" \in stopped' /\ Finish("client", ABORT)

TlsVerified(m) == m = FinishedFrame(TRUE)

TlsClientFinished ==
  /\ at.client = "finished" /\ net.client # <<>>
  /\ TcpClientSends(1, <<>>)
  /\ \/ TlsVerified(Head(net.client)) /\ TcpClientNextFrame
     \/ ~TlsVerified(Head(net.client)) /\ UNCHANGED stopped /\ Finish("client", ABORT)
  /\ UNCHANGED <<settingVars, spent, fileVars, mem>>

\* Mutant: the sequence number is not looked at.
AppDataFresh_NoSeq(m) == m.mac

\* verify_tls_app_data
AppDataFresh(m) == m.seq > mem.seen /\ m.mac

TcpClientData ==
  /\ at.client = "data" /\ net.client # <<>>
  /\ LET m == Head(net.client)
     IN  \/ m.type = "DATA"
            /\ written' = Append(written, m.unit)
            /\ UNCHANGED mem /\ TcpClientNextFrame
         \/ m.type = "APP_DATA" /\ AppDataFresh(m)
            /\ written' = Append(written, m.unit)
            /\ mem' = [mem EXCEPT !.seen = m.seq] /\ TcpClientNextFrame
         \/ m.type = "APP_DATA" /\ ~AppDataFresh(m)
            /\ UNCHANGED <<written, mem, stopped>> /\ Finish("client", ABORT)
  /\ TcpClientSends(1, <<>>)
  /\ UNCHANGED <<settingVars, spent, original, content, committed>>

\* Mutant: the digest is not compared.
DigestMatches_Any(m) == TRUE

DigestMatches(m) == written = m.digest

TcpClientTerminate ==
  /\ at.client = "data" /\ net.client # <<>> /\ Head(net.client).type = "TERMINATE"
  /\ TcpClientSends(1, <<>>)
  /\ \/ DigestMatches(Head(net.client)) /\ Publish(written) /\ Finish("client", OK)
     \/ ~DigestMatches(Head(net.client)) /\ UNCHANGED committed /\ Finish("client", ABORT)
  /\ UNCHANGED <<settledVars, written, mem>>

TcpClient ==
  \/ TcpClientStart \/ TcpClientRefused \/ TcpClientAuth \/ TcpClientReceiveFails
  \/ TlsClientHello \/ TlsClientFinished \/ TcpClientData \/ TcpClientTerminate

TcpNext == TcpServer \/ TcpClient
=============================================================================
