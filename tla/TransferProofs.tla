--------------------------- MODULE TransferProofs ---------------------------
(***************************************************************************)
(* Proofs about what the demos transfer: it is written in the order it was *)
(* sent in, nothing of it goes to a client without the password, what the  *)
(* QUIC-like client acknowledges it has stored, and what a client          *)
(* publishes is the whole file.  Each protocol has an inductive invariant: *)
(* TcpInv (of tcp-basic and tls-like), H2Inv, HttpInv, WsInv and QuicInv.  *)
(***************************************************************************)
EXTENDS DemosProofs

-----------------------------------------------------------------------------
(***************************************************************************)
(* TcpDemo: the messages and the shape of a state.                         *)
(***************************************************************************)
TcpMessages ==
  {Frame(t) : t \in {"JOIN_REQ", "PASS_REQ", "PASS_ACCEPT", "REJECT", "CLIENT_HELLO",
                     "SERVER_HELLO"}}
    \cup {PassResp(right) : right \in BOOLEAN} \cup {FinishedFrame(mac) : mac \in BOOLEAN}
    \cup {DataFrame(unit) : unit \in Data} \cup {TerminateFrame(digest) : digest \in Seq(Data)}
    \cup {AppData(seq, unit, mac) : seq \in Nat, unit \in Data, mac \in BOOLEAN}

TcpMem ==
  [passwords : Attempts, given : 0..3, attempt : 0..3, authed : BOOLEAN, sent : Nat, seen : Nat]

TcpShape ==
  /\ Channels(TcpMessages) /\ Pair(at) /\ Pair(results)
  /\ at.server \in {"join", "auth", "hello", "finished", "send", "exit"}
  /\ at.client \in {"start", "auth", "hello", "finished", "data", "exit"}
  /\ mem \in TcpMem
  /\ faults \in StreamFaults
  /\ scenario \in IF protocol = "tcp-basic" THEN TcpBasicScenarios ELSE TlsScenarios
  /\ original \in Seq(Data) /\ content \in Seq(Data) /\ written \in Seq(Data)

\* The fields of a message of each type.
LEMMA TcpFields ==
  ASSUME NEW m \in TcpMessages
  PROVE  /\ m.type = "PASS_RESP" => m.right \in BOOLEAN
         /\ m.type = "DATA" => m.unit \in Data
         /\ m.type = "APP_DATA" => m.seq \in Nat /\ m.unit \in Data /\ m.mac \in BOOLEAN
BY DEF TcpMessages, Frame, PassResp, FinishedFrame, DataFrame, TerminateFrame, AppData

LEMMA TcpMessagesAre ==
  /\ \A t \in {"JOIN_REQ", "PASS_REQ", "PASS_ACCEPT", "REJECT", "CLIENT_HELLO", "SERVER_HELLO"} :
       Frame(t) \in TcpMessages /\ Frame(t).type = t
  /\ \A right \in BOOLEAN : /\ PassResp(right) \in TcpMessages
                            /\ PassResp(right).type = "PASS_RESP"
  /\ \A mac \in BOOLEAN : /\ FinishedFrame(mac) \in TcpMessages
                          /\ FinishedFrame(mac).type = "FINISHED"
  /\ \A unit \in Data : /\ DataFrame(unit) \in TcpMessages
                        /\ DataFrame(unit).type = "DATA" /\ DataFrame(unit).unit = unit
  /\ \A digest \in Seq(Data) : /\ TerminateFrame(digest) \in TcpMessages
                               /\ TerminateFrame(digest).type = "TERMINATE"
                               /\ TerminateFrame(digest).digest = digest
  /\ \A seq \in Nat, unit \in Data, mac \in BOOLEAN :
       /\ AppData(seq, unit, mac) \in TcpMessages
       /\ AppData(seq, unit, mac).type = "APP_DATA" /\ AppData(seq, unit, mac).seq = seq
       /\ AppData(seq, unit, mac).unit = unit /\ AppData(seq, unit, mac).mac = mac
<1>1. \A t \in {"JOIN_REQ", "PASS_REQ", "PASS_ACCEPT", "REJECT", "CLIENT_HELLO", "SERVER_HELLO"} :
        Frame(t) \in TcpMessages /\ Frame(t).type = t
  BY DEF TcpMessages, Frame
<1>2. \A right \in BOOLEAN : /\ PassResp(right) \in TcpMessages
                             /\ PassResp(right).type = "PASS_RESP"
  BY DEF TcpMessages, PassResp
<1>3. \A mac \in BOOLEAN : /\ FinishedFrame(mac) \in TcpMessages
                           /\ FinishedFrame(mac).type = "FINISHED"
  BY DEF TcpMessages, FinishedFrame
<1>4. \A unit \in Data : /\ DataFrame(unit) \in TcpMessages
                         /\ DataFrame(unit).type = "DATA" /\ DataFrame(unit).unit = unit
  BY DEF TcpMessages, DataFrame
<1>5. \A digest \in Seq(Data) : /\ TerminateFrame(digest) \in TcpMessages
                                /\ TerminateFrame(digest).type = "TERMINATE"
                                /\ TerminateFrame(digest).digest = digest
  BY DEF TcpMessages, TerminateFrame
<1>6. \A seq \in Nat, unit \in Data, mac \in BOOLEAN :
        /\ AppData(seq, unit, mac) \in TcpMessages
        /\ AppData(seq, unit, mac).type = "APP_DATA" /\ AppData(seq, unit, mac).seq = seq
        /\ AppData(seq, unit, mac).unit = unit /\ AppData(seq, unit, mac).mac = mac
  BY DEF TcpMessages, AppData
<1>7. QED
  BY <1>1, <1>2, <1>3, <1>4, <1>5, <1>6

\* TCP neither loses nor repeats anything.
LEMMA StreamsReliable ==
  ASSUME faults \in StreamFaults
  PROVE  "lose" \notin faults /\ "duplicate" \notin faults /\ "reorder" \notin faults
BY DemoFaultsAssumption

LEMMA TcpStep ==
  ASSUME [Next]_demoVars, protocol \in TcpFamily, faults \in StreamFaults
  PROVE  TcpServer \/ TcpClient \/ UNCHANGED demoVars
BY StreamsReliable DEF Next, Server, Client, Strangers, Lose, Duplicate, TcpFamily, WebFamily

LEMMA TcpInitIs ==
  ASSUME Init, protocol \in TcpFamily
  PROVE  TcpInit
BY DEF Init, QuicInit, RadiusInit, SipInit, DnsInit, MqttInit, WebInit, WsInit,
       Http2Init, PacketInit, DigestInit, RequestInit, FramesInit, TcpFamily

-----------------------------------------------------------------------------
(***************************************************************************)
(* TcpDemo: the invariant.                                                 *)
(***************************************************************************)
\* The password rounds: the server asks once more for every answer, at most three times.
Early == {"join", "auth", "hello"}
IsTurn(m) == m.type \in {"JOIN_REQ", "PASS_RESP"}
StartTurn ==
  /\ at.client = "start" =>
       /\ net.server = <<>> /\ net.client = <<>> /\ mem.given = 0 /\ at.server \in {"join", "exit"}
  /\ at.server = "join" => mem.attempt = 0 /\ mem.given = 0 /\ net.client = <<>>
  /\ at.client \in {"hello", "finished"} => protocol = "tls-like"
CountTurn ==
  at.server = "auth" => mem.attempt <= 2 /\ mem.given + Len(net.client) <= mem.attempt + 1
EarlyTurn ==
  at.server \in Early => /\ Len(net.client) <= 1
                         /\ net.server # <<>> /\ IsTurn(net.server[1]) => net.client = <<>>
                         /\ at.client = "auth" => Len(net.server) <= 1
AnswerTurn ==
  /\ at.client = "auth" => \A i \in 1..Len(net.server) : IsTurn(net.server[i])
  /\ \A i \in 2..Len(net.server) : ~IsTurn(net.server[i])
RequestTurn ==
  \A i \in 1..Len(net.client) : net.client[i].type = "PASS_REQ" =>
    i = 1 /\ mem.given <= 2 /\ (net.server # <<>> => ~IsTurn(net.server[1]))
TurnInv == StartTurn /\ CountTurn /\ EarlyTurn /\ AnswerTurn /\ RequestTurn

\* Who has been let in.  A client that a signal has sent on to the handshake waits for the
\* server's SERVER_HELLO behind something else.
LetInInv ==
  /\ mem.authed => at.server \notin {"join", "auth"}
  /\ at.server \in {"hello", "finished"} => protocol = "tls-like"
  /\ \A i \in 1..Len(net.client) : net.client[i].type = "PASS_ACCEPT" => mem.authed
  /\ at.server \in Early \cup {"finished"} => mem.sent = 0
  /\ at.server = "send" \/ mem.sent > 0 =>
       mem.authed \/ (protocol = "tcp-basic" /\ "server" \in stopped)
HandshakeInv ==
  protocol = "tls-like" =>
    /\ \A i \in 1..Len(net.server) : net.server[i].type = "FINISHED" => mem.authed
    /\ at.client = "auth" =>
         /\ Len(net.client) <= 1 /\ at.server \notin {"finished", "send"}
         /\ \A i \in 1..Len(net.client) :
              net.client[i].type \in {"PASS_REQ", "PASS_ACCEPT", "REJECT"}
    /\ at.client = "hello" /\ ~mem.authed =>
         IF net.client # <<>> THEN net.client[1].type # "SERVER_HELLO"
         ELSE at.server = "exit" \/ (net.server # <<>> /\ IsTurn(net.server[1]))
SecretInv == LetInInv /\ HandshakeInv

\* The message behind which the file comes, and the k-th one of those that come then.
Opens(m) == m.type = IF protocol = "tcp-basic" THEN "PASS_ACCEPT" ELSE "FINISHED"
Untampered(k) == ~(scenario = "tampered-app-data" /\ k = 1)
InStream(m, k) ==
  /\ m.type = "DATA" => protocol = "tcp-basic" /\ k <= mem.sent /\ m.unit = content[k]
  /\ m.type = "APP_DATA" => /\ protocol = "tls-like" /\ m.seq <= mem.sent /\ m.seq <= k
                            /\ m.unit = content[m.seq]
                            /\ m.mac => Untampered(m.seq)

\* Behind the first g messages to the client come the units it has not written.
StreamBehind(g) ==
  /\ at.server \in {"send", "exit"}
  /\ \A i \in g + 1..Len(net.client) : InStream(net.client[i], Len(written) + i - g)
  /\ at.server = "send" => mem.sent = Len(written) + Len(net.client) - g

WrittenInv ==
  /\ Len(written) <= mem.sent /\ mem.sent <= Len(content)
  /\ \A i \in 1..Len(written) : written[i] = content[i]
  /\ at.client \notin {"data", "exit"} => written = <<>>
  /\ protocol = "tls-like" => mem.seen = Len(written)
  /\ protocol = "tls-like" /\ scenario = "replay" =>
       mem.sent <= 1 /\ (at.server = "send" => mem.sent = 0)
  /\ protocol = "tls-like" /\ scenario = "tampered-app-data" => written = <<>>
StreamInv ==
  /\ at.client = "data" => StreamBehind(0)
  /\ at.client \notin {"data", "exit"} =>
       \A g \in 1..Len(net.client) : Opens(net.client[g]) => StreamBehind(g)
SequenceInv == WrittenInv /\ StreamInv

\* What the server announces, and what becomes of the client's file.
Announced == IF protocol = "tls-like" THEN content ELSE original
OutputInv ==
  /\ \A i \in 1..Len(net.client) :
       net.client[i].type = "TERMINATE" => net.client[i].digest = Announced
  /\ at.client # "exit" => committed = <<>> /\ results.client = <<>>
  /\ \/ committed = <<>> /\ (PrintsOk("client") => "rename" \in faults)
     \/ results.client = OK /\ committed = <<written>> /\ written = Announced

TcpInv ==
  protocol \in TcpFamily => TcpShape /\ TurnInv /\ SecretInv /\ SequenceInv /\ OutputInv

-----------------------------------------------------------------------------
(***************************************************************************)
(* TcpDemo: what each step does.                                           *)
(***************************************************************************)
LEMMA FirstOf ==
  ASSUME NEW S, NEW s \in Seq(S), s # <<>>
  PROVE  Head(s) = s[1] /\ s[1] \in S /\ Len(s) >= 1 /\ Len(s) \in Nat
BY EmptySeq

LEMMA ShrinksIs ==
  ASSUME NEW old, NEW new, Len(old) \in Nat, Len(new) \in Nat, Shrinks(old, new)
  PROVE  /\ Len(new) = Len(old) - 1
         /\ \A i \in 1..Len(new) : /\ new[i] = old[i + 1] /\ i \in 1..Len(old)
                                   /\ i + 1 \in 1..Len(old) /\ i + 1 # 1
<1>1. Len(new) = Len(old) - 1
  BY DEF Shrinks
<1>2. ASSUME NEW i \in 1..Len(new)
      PROVE  /\ new[i] = old[i + 1] /\ i \in 1..Len(old)
             /\ i + 1 \in 1..Len(old) /\ i + 1 # 1
  <2>1. new[i] = old[i + 1]
    BY DEF Shrinks
  <2>2. i \in 1..Len(old) /\ i + 1 \in 1..Len(old) /\ i + 1 # 1
    BY <1>1
  <2>3. QED
    BY <2>1, <2>2
<1>3. QED
  BY <1>1, <1>2

LEMMA TwoSingles ==
  ASSUME NEW S, NEW first \in S, NEW second \in S
  PROVE  <<first>> \in Seq(S) /\ <<first>> \o <<second>> = <<first, second>>
<1>. DEFINE one == <<first>>
            other == <<second>>
            pair == <<first, second>>
            both == one \o other
<1>1. one \in Seq(S) /\ Len(one) = 1 /\ one[1] = first
  OBVIOUS
<1>2. other \in Seq(S) /\ Len(other) = 1 /\ other[1] = second
  OBVIOUS
<1>3. pair \in Seq(S) /\ Len(pair) = 2 /\ pair[1] = first /\ pair[2] = second
  OBVIOUS
<1>. HIDE DEF one, other, pair
<1>4. both \in Seq(S) /\ Len(both) = 2 /\ both[1] = first /\ both[2] = second
  BY <1>1, <1>2, ConcatProperties
<1>. HIDE DEF both
<1>5. both = pair
  BY <1>3, <1>4, SeqEqual
<1>6. QED
  BY <1>1, <1>5 DEF one, other, pair, both

LEMMA ShapeKept ==
  ASSUME TcpShape, SettingsStay, Channels(TcpMessages)', Pair(at'), Pair(results'),
         at'.server \in {"join", "auth", "hello", "finished", "send", "exit"},
         at'.client \in {"start", "auth", "hello", "finished", "data", "exit"},
         mem' \in TcpMem, written' \in Seq(Data)
  PROVE  TcpShape'
BY DEF TcpShape, SettingsStay

\* The loop of the password rounds, or what comes behind it.
LEMMA NextRoundIs ==
  ASSUME TcpShape, protocol \in TcpFamily, TcpServerNextRound
  PROVE  /\ Pair(at') /\ results' = results /\ at'.client = at.client
         /\ at'.server \in {"auth", "hello", "send"}
         /\ at'.server = "hello" => protocol = "tls-like"
         /\ at'.server = "send" => protocol = "tcp-basic" /\ "server" \in stopped'
<1>1. Pair(at)
  BY DEF TcpShape
<1>2. CASE "server" \in stopped'
  <2>1. TcpServerTransfers
    BY <1>2 DEF TcpServerNextRound
  <2>2. at' = [server |-> IF protocol = "tls-like" THEN "hello" ELSE "send",
               client |-> at.client] /\ results' = results
    BY <1>1, <2>1, GotoIs DEF TcpServerTransfers
  <2>3. QED
    BY <1>2, <2>2 DEF TcpFamily, Pair
<1>3. CASE "server" \notin stopped'
  <2>1. Goto("server", "auth")
    BY <1>3 DEF TcpServerNextRound
  <2>2. at' = [server |-> "auth", client |-> at.client] /\ results' = results
    BY <1>1, <2>1, GotoIs
  <2>3. QED
    BY <2>2 DEF Pair
<1>4. QED
  BY <1>2, <1>3

LEMMA JoinIs ==
  ASSUME TcpShape, protocol \in TcpFamily, SettingsStay, TcpServerJoin
  PROVE  /\ TcpShape'
         /\ at.server = "join" /\ net.server # <<>> /\ IsTurn(net.server[1])
         /\ \E m \in TcpMessages : m.type = "PASS_REQ" /\ Gains(net.client, net'.client, m)
         /\ Shrinks(net.server, net'.server)
         /\ at'.client = at.client /\ at'.server \in {"auth", "hello", "send"}
         /\ at'.server = "hello" => protocol = "tls-like"
         /\ at'.server = "send" => protocol = "tcp-basic" /\ "server" \in stopped'
         /\ stopped \subseteq stopped'
         /\ UNCHANGED <<mem, results, written, committed>>
<1>1. /\ at.server = "join" /\ net.server # <<>> /\ Head(net.server).type = "JOIN_REQ"
      /\ SignalWhileBusy("server") /\ Exchange("server", 1, <<Frame("PASS_REQ")>>)
      /\ TcpServerNextRound
      /\ UNCHANGED <<mem, written, committed>>
  BY DEF TcpServerJoin, fileVars
<1>2. Channels(TcpMessages) /\ Pair(at) /\ Pair(results) /\ net.server \in Seq(TcpMessages)
  BY DEF TcpShape, Channels
<1>3. Frame("PASS_REQ") \in TcpMessages /\ Frame("PASS_REQ").type = "PASS_REQ"
  BY TcpMessagesAre
<1>4. /\ Channels(TcpMessages)' /\ Shrinks(net.server, net'.server)
      /\ Gains(net.client, net'.client, Frame("PASS_REQ"))
  BY <1>1, <1>2, <1>3, ServerAnswers
<1>5. /\ Pair(at') /\ results' = results /\ at'.client = at.client
      /\ at'.server \in {"auth", "hello", "send"}
      /\ at'.server = "hello" => protocol = "tls-like"
      /\ at'.server = "send" => protocol = "tcp-basic" /\ "server" \in stopped'
  BY <1>1, NextRoundIs
<1>7. net.server[1].type = "JOIN_REQ"
  BY <1>1, <1>2, FirstOf
<1>8. TcpShape'
  BY <1>1, <1>2, <1>4, <1>5, ShapeKept DEF TcpShape
<1>9. stopped \subseteq stopped'
  BY <1>1 DEF SignalWhileBusy
<1>10. QED
  BY <1>1, <1>3, <1>4, <1>5, <1>7, <1>8, <1>9 DEF IsTurn

LEMMA PasswordIs ==
  ASSUME TcpShape, TurnInv, protocol \in TcpFamily, SettingsStay, TcpServerPassword
  PROVE  /\ TcpShape'
         /\ at.server = "auth" /\ net.server # <<>> /\ IsTurn(net.server[1])
         /\ Shrinks(net.server, net'.server) /\ at'.client = at.client
         /\ mem' = [mem EXCEPT !.attempt = mem.attempt + 1, !.authed = mem'.authed]
         /\ \E m \in TcpMessages :
              /\ Gains(net.client, net'.client, m)
              /\ \/ /\ m.type = "PASS_ACCEPT" /\ mem'.authed
                    /\ at'.server = IF protocol = "tls-like" THEN "hello" ELSE "send"
                 \/ m.type = "REJECT" /\ ~mem'.authed /\ at'.server = "exit"
                 \/ /\ m.type = "PASS_REQ" /\ ~mem'.authed /\ mem'.attempt <= 2
                    /\ at'.server \in {"auth", "hello", "send"}
                    /\ at'.server = "hello" => protocol = "tls-like"
                    /\ at'.server = "send" => protocol = "tcp-basic" /\ "server" \in stopped'
         /\ stopped \subseteq stopped'
         /\ results'.client = results.client /\ UNCHANGED <<written, committed>>
<1>. DEFINE right == Head(net.server).right
            n == mem.attempt + 1
<1>1. /\ at.server = "auth" /\ net.server # <<>> /\ Head(net.server).type = "PASS_RESP"
      /\ SignalWhileBusy("server")
      /\ mem' = [mem EXCEPT !.attempt = n, !.authed = right]
      /\ \/ right
            /\ Exchange("server", 1, <<Frame("PASS_ACCEPT")>>)
            /\ TcpServerTransfers
         \/ ~right /\ LastAttempt(n)
            /\ Exchange("server", 1, <<Frame("REJECT")>>)
            /\ Finish("server", ABORT)
         \/ ~right /\ ~LastAttempt(n)
            /\ Exchange("server", 1, <<Frame("PASS_REQ")>>)
            /\ TcpServerNextRound
      /\ UNCHANGED <<written, committed>>
  BY DEF TcpServerPassword, fileVars
<1>2. Channels(TcpMessages) /\ Pair(at) /\ Pair(results) /\ net.server \in Seq(TcpMessages)
  BY DEF TcpShape, Channels
<1>3. net.server[1].type = "PASS_RESP" /\ Head(net.server) \in TcpMessages /\ right \in BOOLEAN
  <2>1. Head(net.server) = net.server[1] /\ Head(net.server) \in TcpMessages
    BY <1>1, <1>2, FirstOf
  <2>2. QED
    BY <1>1, <2>1, TcpFields
<1>. HIDE DEF right
<1>4. /\ mem.attempt \in 0..2 /\ n \in 1..3
      /\ mem' \in TcpMem /\ mem'.attempt = n /\ mem'.authed = right
      /\ mem' = [mem EXCEPT !.attempt = mem.attempt + 1, !.authed = mem'.authed]
  <2>1. mem \in TcpMem /\ mem.attempt <= 2 /\ mem.attempt \in 0..3
    BY <1>1 DEF TurnInv, CountTurn, TcpShape, TcpMem
  <2>2. mem.attempt \in 0..2 /\ n \in 1..3 /\ n \in 0..3
    BY <2>1
  <2>. HIDE DEF n
  <2>3. mem' \in TcpMem /\ mem'.attempt = n /\ mem'.authed = right
    BY <1>1, <1>3, <2>1, <2>2 DEF TcpMem
  <2>4. QED
    BY <1>1, <2>2, <2>3 DEF n
<1>. HIDE DEF n
<1>5. CASE right /\ Exchange("server", 1, <<Frame("PASS_ACCEPT")>>) /\ TcpServerTransfers
  <2>. DEFINE m == Frame("PASS_ACCEPT")
  <2>1. m \in TcpMessages /\ m.type = "PASS_ACCEPT"
    BY TcpMessagesAre
  <2>2. Exchange("server", 1, <<m>>)
    BY <1>5
  <2>. HIDE DEF m
  <2>3. /\ Channels(TcpMessages)' /\ Shrinks(net.server, net'.server)
        /\ Gains(net.client, net'.client, m)
    BY <1>1, <1>2, <2>1, <2>2, ServerAnswers
  <2>4. at' = [server |-> IF protocol = "tls-like" THEN "hello" ELSE "send",
               client |-> at.client] /\ results' = results
    BY <1>2, <1>5, GotoIs DEF TcpServerTransfers
  <2>5. /\ Pair(at') /\ at'.client = at.client
        /\ at'.server = IF protocol = "tls-like" THEN "hello" ELSE "send"
    BY <2>4 DEF Pair
  <2>6. TcpShape'
    BY <1>1, <1>2, <1>4, <2>3, <2>4, <2>5, ShapeKept DEF TcpShape
  <2>7. mem'.authed
    BY <1>4, <1>5
  <2>8. QED
    BY <1>1, <1>3, <1>4, <2>1, <2>3, <2>4, <2>5, <2>6, <2>7 DEF SignalWhileBusy, IsTurn
<1>6. CASE ~right /\ Exchange("server", 1, <<Frame("REJECT")>>) /\ Finish("server", ABORT)
  <2>. DEFINE m == Frame("REJECT")
  <2>1. m \in TcpMessages /\ m.type = "REJECT"
    BY TcpMessagesAre
  <2>2. Exchange("server", 1, <<m>>)
    BY <1>6
  <2>. HIDE DEF m
  <2>3. /\ Channels(TcpMessages)' /\ Shrinks(net.server, net'.server)
        /\ Gains(net.client, net'.client, m)
    BY <1>1, <1>2, <2>1, <2>2, ServerAnswers
  <2>4. /\ at' = [server |-> "exit", client |-> at.client]
        /\ results' = [server |-> results.server \o ABORT, client |-> results.client]
    BY <1>2, <1>6, FinishIs
  <2>5. /\ Pair(at') /\ at'.client = at.client /\ at'.server = "exit"
        /\ Pair(results') /\ results'.client = results.client
    BY <2>4 DEF Pair
  <2>6. TcpShape'
    BY <1>1, <1>2, <1>4, <2>3, <2>5, ShapeKept DEF TcpShape
  <2>7. ~mem'.authed
    BY <1>4, <1>6
  <2>8. QED
    BY <1>1, <1>3, <1>4, <2>1, <2>3, <2>5, <2>6, <2>7 DEF SignalWhileBusy, IsTurn
<1>7. CASE ~right /\ ~LastAttempt(n) /\ Exchange("server", 1, <<Frame("PASS_REQ")>>)
             /\ TcpServerNextRound
  <2>. DEFINE m == Frame("PASS_REQ")
  <2>1. m \in TcpMessages /\ m.type = "PASS_REQ"
    BY TcpMessagesAre
  <2>2. Exchange("server", 1, <<m>>)
    BY <1>7
  <2>. HIDE DEF m
  <2>3. /\ Channels(TcpMessages)' /\ Shrinks(net.server, net'.server)
        /\ Gains(net.client, net'.client, m)
    BY <1>1, <1>2, <2>1, <2>2, ServerAnswers
  <2>4. /\ Pair(at') /\ results' = results /\ at'.client = at.client
        /\ at'.server \in {"auth", "hello", "send"}
        /\ at'.server = "hello" => protocol = "tls-like"
        /\ at'.server = "send" => protocol = "tcp-basic" /\ "server" \in stopped'
    BY <1>7, NextRoundIs
  <2>6. TcpShape'
    BY <1>1, <1>2, <1>4, <2>3, <2>4, ShapeKept DEF TcpShape
  <2>7. ~mem'.authed /\ mem'.attempt <= 2
    BY <1>4, <1>7 DEF LastAttempt
  <2>8. QED
    BY <1>1, <1>3, <1>4, <2>1, <2>3, <2>4, <2>6, <2>7 DEF SignalWhileBusy, IsTurn
<1>8. QED
  BY <1>1, <1>5, <1>6, <1>7

\* The steps with which the server ends and sends nothing.
ServerEnds ==
  /\ at'.server = "exit" /\ at'.client = at.client /\ net'.client = net.client
  /\ net'.server = net.server \/ (net.server # <<>> /\ Shrinks(net.server, net'.server))
  /\ results'.client = results.client
  /\ UNCHANGED <<mem, stopped, written, committed>>

LEMMA ServerEndsIs ==
  ASSUME TcpShape, protocol \in TcpFamily, SettingsStay,
         \/ TcpServerUnexpected \/ TcpServerReceiveFails \/ TcpServerSendBreaks
         \/ TcpServerTerminates /\ scenario = "tampered-app-data"
  PROVE  TcpShape' /\ ServerEnds
<1>1. Channels(TcpMessages) /\ Pair(at) /\ Pair(results)
  BY DEF TcpShape
<1>2. /\ \/ UNCHANGED net
         \/ net.server # <<>> /\ Exchange("server", 1, <<>>)
      /\ Finish("server", ABORT) \/ Killed("server")
      /\ UNCHANGED <<mem, stopped, written, committed>>
  BY DEF TcpServerUnexpected, TcpServerReceiveFails, TcpServerSendBreaks,
         TcpServerTerminates, SendBreaks, quietVars
<1>3. /\ Channels(TcpMessages)' /\ net'.client = net.client
      /\ net'.server = net.server \/ (net.server # <<>> /\ Shrinks(net.server, net'.server))
  <2>1. CASE UNCHANGED net
    BY <1>1, <2>1 DEF Channels, Pair
  <2>2. CASE net.server # <<>> /\ Exchange("server", 1, <<>>)
    BY <1>1, <2>2, ServerTakes
  <2>3. QED
    BY <1>2, <2>1, <2>2
<1>4. /\ at' = [server |-> "exit", client |-> at.client]
      /\ \/ results' = [server |-> results.server \o ABORT, client |-> results.client]
         \/ results' = results
  BY <1>1, <1>2, FinishIs
<1>5. Pair(at') /\ Pair(results') /\ results'.client = results.client
      /\ at'.server = "exit" /\ at'.client = at.client
  BY <1>1, <1>4 DEF Pair
<1>6. TcpShape'
  BY <1>2, <1>3, <1>5, ShapeKept DEF TcpShape
<1>7. QED
  BY <1>2, <1>3, <1>5, <1>6 DEF ServerEnds

LEMMA ServerHelloIs ==
  ASSUME TcpShape, protocol \in TcpFamily, SettingsStay, TlsServerHello
  PROVE  /\ TcpShape'
         /\ at.server = "hello" /\ net.server # <<>> /\ net.server[1].type = "CLIENT_HELLO"
         /\ Shrinks(net.server, net'.server)
         /\ \E m \in TcpMessages : m.type = "SERVER_HELLO" /\ Gains(net.client, net'.client, m)
         /\ at'.server = "finished" /\ at'.client = at.client
         /\ UNCHANGED <<mem, stopped, results, written, committed>>
<1>1. /\ at.server = "hello" /\ net.server # <<>> /\ Head(net.server).type = "CLIENT_HELLO"
      /\ Exchange("server", 1, <<Frame("SERVER_HELLO")>>) /\ Goto("server", "finished")
      /\ UNCHANGED <<mem, stopped, written, committed>>
  BY DEF TlsServerHello, quietVars
<1>2. Channels(TcpMessages) /\ Pair(at) /\ Pair(results) /\ net.server \in Seq(TcpMessages)
  BY DEF TcpShape, Channels
<1>. DEFINE m == Frame("SERVER_HELLO")
<1>3. m \in TcpMessages /\ m.type = "SERVER_HELLO"
  BY TcpMessagesAre
<1>4. Exchange("server", 1, <<m>>)
  BY <1>1
<1>. HIDE DEF m
<1>5. /\ Channels(TcpMessages)' /\ Shrinks(net.server, net'.server)
      /\ Gains(net.client, net'.client, m)
  BY <1>1, <1>2, <1>3, <1>4, ServerAnswers
<1>6. at' = [server |-> "finished", client |-> at.client] /\ results' = results
  BY <1>1, <1>2, GotoIs
<1>7. Pair(at') /\ at'.server = "finished" /\ at'.client = at.client
  BY <1>6 DEF Pair
<1>8. net.server[1].type = "CLIENT_HELLO"
  BY <1>1, <1>2, FirstOf
<1>9. TcpShape'
  BY <1>1, <1>2, <1>5, <1>6, <1>7, ShapeKept DEF TcpShape
<1>10. QED
  BY <1>1, <1>3, <1>5, <1>6, <1>7, <1>8, <1>9

LEMMA ServerFinishedIs ==
  ASSUME TcpShape, protocol \in TcpFamily, SettingsStay, TlsServerFinished
  PROVE  /\ TcpShape'
         /\ at.server = "finished" /\ net.server # <<>> /\ net.server[1].type = "FINISHED"
         /\ Shrinks(net.server, net'.server)
         /\ \E m \in TcpMessages : m.type = "FINISHED" /\ Gains(net.client, net'.client, m)
         /\ at'.server \in {"send", "exit"} /\ at'.client = at.client
         /\ results'.client = results.client
         /\ UNCHANGED <<mem, stopped, written, committed>>
<1>. DEFINE mac == scenario # "tampered-finished"
            m == FinishedFrame(mac)
<1>1. /\ at.server = "finished" /\ net.server # <<>> /\ Head(net.server) = FinishedFrame(TRUE)
      /\ Exchange("server", 1, <<m>>)
      /\ Finish("server", ABORT) \/ Goto("server", "send")
      /\ UNCHANGED <<mem, stopped, written, committed>>
  BY DEF TlsServerFinished, quietVars
<1>2. Channels(TcpMessages) /\ Pair(at) /\ Pair(results) /\ net.server \in Seq(TcpMessages)
  BY DEF TcpShape, Channels
<1>3. m \in TcpMessages /\ m.type = "FINISHED" /\ FinishedFrame(TRUE).type = "FINISHED"
  <2>1. mac \in BOOLEAN
    OBVIOUS
  <2>. HIDE DEF mac
  <2>2. QED
    BY <2>1, TcpMessagesAre
<1>. HIDE DEF m
<1>5. /\ Channels(TcpMessages)' /\ Shrinks(net.server, net'.server)
      /\ Gains(net.client, net'.client, m)
  BY <1>1, <1>2, <1>3, ServerAnswers
<1>6. \/ /\ at' = [server |-> "send", client |-> at.client] /\ results' = results
      \/ /\ at' = [server |-> "exit", client |-> at.client]
         /\ results' = [server |-> results.server \o ABORT, client |-> results.client]
  BY <1>1, <1>2, GotoIs, FinishIs
<1>7. /\ Pair(at') /\ at'.server \in {"send", "exit"} /\ at'.client = at.client
      /\ Pair(results') /\ results'.client = results.client
  BY <1>2, <1>6 DEF Pair
<1>8. net.server[1].type = "FINISHED"
  BY <1>1, <1>2, <1>3, FirstOf
<1>9. TcpShape'
  BY <1>1, <1>2, <1>5, <1>7, ShapeKept DEF TcpShape
<1>10. QED
  BY <1>1, <1>3, <1>5, <1>7, <1>8, <1>9

\* The message of the k-th unit.
CarriesUnit(m, k) ==
  \/ protocol = "tcp-basic" /\ m.type = "DATA" /\ m.unit = content[k]
  \/ /\ protocol = "tls-like" /\ m.type = "APP_DATA" /\ m.seq = k /\ m.unit = content[k]
     /\ m.mac => Untampered(k)

LEMMA SendsUnitIs ==
  ASSUME TcpShape, protocol \in TcpFamily, SettingsStay, TcpServerSendsUnit
  PROVE  /\ TcpShape'
         /\ at.server = "send" /\ mem.sent < Len(content)
         /\ mem' = [mem EXCEPT !.sent = mem.sent + 1]
         /\ net'.server = net.server
         /\ \E m \in TcpMessages :
              /\ CarriesUnit(m, mem.sent + 1)
              /\ \/ Gains(net.client, net'.client, m)
                 \/ /\ Grows(net.client, net'.client, <<m, m>>) /\ at'.server = "exit"
                    /\ protocol = "tls-like"
         /\ at'.server \in {"send", "exit"} /\ at'.client = at.client
         /\ protocol = "tls-like" /\ scenario = "replay" /\ mem.sent = 0 => at'.server = "exit"
         /\ results'.client = results.client
         /\ UNCHANGED <<stopped, written, committed>>
<1>. DEFINE k == mem.sent + 1
<1>1. /\ at.server = "send" /\ mem.sent < Len(content)
      /\ mem' = [mem EXCEPT !.sent = k]
      /\ Send("server", TcpFrames(k))
      /\ \/ Finish("server", ABORT)
         \/ ~(k = 1 /\ scenario \in {"connection-close-mid-transfer", "replay"})
            /\ Goto("server", "send")
      /\ UNCHANGED <<stopped, written, committed>>
  BY DEF TcpServerSendsUnit, quietVars
<1>2. Channels(TcpMessages) /\ Pair(at) /\ Pair(results) /\ content \in Seq(Data)
  BY DEF TcpShape, Channels
<1>3. mem \in TcpMem /\ mem.sent \in Nat
  BY DEF TcpShape, TcpMem
<1>4. /\ k \in Nat /\ k \in 1..Len(content) /\ (k = 1 <=> mem.sent = 0)
  BY <1>1, <1>2, <1>3, LenProperties
<1>5. mem' \in TcpMem
  <2>. HIDE DEF k
  <2>1. QED
    BY <1>1, <1>3, <1>4 DEF TcpMem
<1>. HIDE DEF k
<1>6. content[k] \in Data
  BY <1>2, <1>4
<1>7. /\ \/ /\ at' = [server |-> "exit", client |-> at.client]
            /\ results' = [server |-> results.server \o ABORT, client |-> results.client]
         \/ /\ at' = [server |-> "send", client |-> at.client] /\ results' = results
            /\ ~(k = 1 /\ scenario \in {"connection-close-mid-transfer", "replay"})
  BY <1>1, <1>2, GotoIs, FinishIs
<1>8. /\ Pair(at') /\ at'.server \in {"send", "exit"} /\ at'.client = at.client
      /\ Pair(results') /\ results'.client = results.client
      /\ k = 1 /\ scenario \in {"connection-close-mid-transfer", "replay"} => at'.server = "exit"
  BY <1>2, <1>7 DEF Pair
<1>. DEFINE mac == ~(scenario = "tampered-app-data" /\ k = 1)
            m == IF protocol = "tcp-basic" THEN DataFrame(content[k])
                                           ELSE AppData(k, content[k], mac)
            twice == <<m, m>>
            once == <<m>>
<1>9. m \in TcpMessages /\ CarriesUnit(m, k)
  <2>1. mac \in BOOLEAN /\ (mac => Untampered(k))
    BY DEF Untampered
  <2>. HIDE DEF mac
  <2>2. CASE protocol = "tcp-basic"
    BY <1>6, <2>2, TcpMessagesAre DEF CarriesUnit
  <2>3. CASE protocol = "tls-like"
    BY <1>4, <1>6, <2>1, <2>3, TcpMessagesAre DEF CarriesUnit
  <2>4. QED
    BY <2>2, <2>3 DEF TcpFamily
<1>10. \/ Send("server", once)
       \/ Send("server", twice) /\ k = 1 /\ scenario = "replay"
  <2>. DEFINE app == AppData(k, content[k], mac)
  <2>1. TcpFrames(k) = CASE protocol = "tcp-basic" -> <<DataFrame(content[k])>>
                         [] scenario = "replay" /\ k = 1 -> <<app, app>>
                         [] OTHER -> <<app>>
    BY DEF TcpFrames
  <2>. HIDE DEF app
  <2>2. CASE protocol = "tcp-basic"
    <3>1. scenario # "replay"
      BY <2>2 DEF TcpShape, TcpBasicScenarios
    <3>2. TcpFrames(k) = <<DataFrame(content[k])>>
      BY <2>1, <2>2, <3>1
    <3>3. QED
      BY <1>1, <2>2, <3>2
  <2>3. CASE protocol # "tcp-basic" /\ scenario = "replay" /\ k = 1
    <3>1. TcpFrames(k) = <<app, app>> /\ m = app
      BY <2>1, <2>3 DEF app
    <3>. HIDE DEF m
    <3>2. QED
      BY <1>1, <2>3, <3>1
  <2>4. CASE protocol # "tcp-basic" /\ ~(scenario = "replay" /\ k = 1)
    <3>1. TcpFrames(k) = <<app>> /\ m = app
      BY <2>1, <2>4 DEF app
    <3>. HIDE DEF m
    <3>2. QED
      BY <1>1, <3>1
  <2>5. QED
    BY <2>2, <2>3, <2>4
<1>11. twice \in Seq(TcpMessages) /\ once = <<m>>
  BY <1>9
<1>. HIDE DEF m, twice, once
<1>12. /\ Channels(TcpMessages)' /\ net'.server = net.server
       /\ \/ Gains(net.client, net'.client, m)
          \/ /\ Grows(net.client, net'.client, twice) /\ at'.server = "exit"
             /\ protocol = "tls-like"
  <2>1. CASE Send("server", once)
    BY <1>2, <1>9, <1>11, <2>1, ServerSendsOne
  <2>2. CASE Send("server", twice) /\ k = 1 /\ scenario = "replay"
    <3>1. protocol = "tls-like"
      BY <2>2 DEF TcpShape, TcpBasicScenarios, TcpFamily
    <3>2. QED
      BY <1>2, <1>8, <1>11, <2>2, <3>1, ServerSends
  <2>3. QED
    BY <1>10, <2>1, <2>2
<1>13. TcpShape'
  BY <1>1, <1>2, <1>5, <1>8, <1>12, ShapeKept DEF TcpShape
<1>14. QED
  BY <1>1, <1>4, <1>8, <1>9, <1>12, <1>13 DEF k, twice

LEMMA TerminatesIs ==
  ASSUME TcpShape, protocol \in TcpFamily, SettingsStay, TcpServerTerminates,
         scenario # "tampered-app-data"
  PROVE  /\ TcpShape'
         /\ at.server = "send"
         /\ net'.server = net.server
         /\ \E m \in TcpMessages : /\ m.type = "TERMINATE" /\ m.digest = Announced
                                   /\ Gains(net.client, net'.client, m)
         /\ at'.server = "exit" /\ at'.client = at.client
         /\ results'.client = results.client
         /\ UNCHANGED <<mem, stopped, written, committed>>
<1>. DEFINE digest == IF protocol = "tcp-basic" THEN original ELSE content
            m == TerminateFrame(digest)
<1>1. /\ at.server = "send" /\ Send("server", <<m>>) /\ Finish("server", OK)
      /\ UNCHANGED <<mem, stopped, written, committed>>
  BY DEF TcpServerTerminates, quietVars
<1>2. /\ Channels(TcpMessages) /\ Pair(at) /\ Pair(results)
      /\ content \in Seq(Data) /\ original \in Seq(Data)
  BY DEF TcpShape, Channels
<1>3. digest \in Seq(Data) /\ digest = Announced
  BY <1>2 DEF Announced, TcpFamily
<1>. HIDE DEF digest
<1>4. m \in TcpMessages /\ m.type = "TERMINATE" /\ m.digest = digest
  BY <1>3, TcpMessagesAre
<1>. HIDE DEF m
<1>5. Channels(TcpMessages)' /\ net'.server = net.server /\ Gains(net.client, net'.client, m)
  BY <1>1, <1>2, <1>4, ServerSendsOne
<1>6. /\ at' = [server |-> "exit", client |-> at.client]
      /\ results' = [server |-> results.server \o OK, client |-> results.client]
  BY <1>1, <1>2, FinishIs
<1>7. /\ Pair(at') /\ at'.server = "exit" /\ at'.client = at.client
      /\ Pair(results') /\ results'.client = results.client
  BY <1>6 DEF Pair
<1>8. TcpShape'
  BY <1>1, <1>2, <1>5, <1>7, ShapeKept DEF TcpShape
<1>9. QED
  BY <1>1, <1>3, <1>4, <1>5, <1>7, <1>8

\* The client has received as many messages as taken says.
ClientTook(taken) ==
  IF taken = 0 THEN net'.client = net.client
               ELSE net.client # <<>> /\ Shrinks(net.client, net'.client)

LEMMA TcpClientSendsIs ==
  ASSUME Channels(TcpMessages), NEW msgs \in Seq(TcpMessages), NEW taken \in {0, 1},
         taken = 1 => net.client # <<>>, TcpClientSends(taken, msgs)
  PROVE  Channels(TcpMessages)' /\ ClientTook(taken) /\ Grows(net.server, net'.server, msgs)
<1>1. Pair(net) /\ net.server \in Seq(TcpMessages) /\ net.client \in Seq(TcpMessages)
  BY DEF Channels
<1>2. net' = [server |-> net.server \o msgs,
              client |-> SubSeq(net.client, taken + 1, Len(net.client))]
  BY <1>1 DEF TcpClientSends, Pair
<1>3. /\ net.server \o msgs \in Seq(TcpMessages)
      /\ Grows(net.server, net.server \o msgs, msgs)
  BY <1>1, Concatenated
<1>4. Pair(net') /\ net'.server = net.server \o msgs
      /\ net'.client = SubSeq(net.client, taken + 1, Len(net.client))
  BY <1>2 DEF Pair
<1>5. CASE taken = 0
  <2>. DEFINE all == SubSeq(net.client, 1, Len(net.client))
  <2>1. /\ all \in Seq(TcpMessages) /\ Len(all) = Len(net.client)
        /\ \A i \in 1..Len(net.client) : all[i] = net.client[i]
    BY <1>1, SubSeqProperties
  <2>. HIDE DEF all
  <2>2. all = net.client
    BY <1>1, <2>1, SeqEqual
  <2>3. net'.client = net.client
    BY <1>4, <1>5, <2>2 DEF all
  <2>4. QED
    BY <1>1, <1>3, <1>4, <1>5, <2>3 DEF Channels, ClientTook
<1>6. CASE taken = 1
  <2>. DEFINE rest == SubSeq(net.client, 2, Len(net.client))
  <2>1. rest \in Seq(TcpMessages) /\ Shrinks(net.client, rest)
    BY <1>1, <1>6, FirstRemoved
  <2>2. net'.client = rest
    BY <1>4, <1>6
  <2>. HIDE DEF rest
  <2>3. QED
    <3>1. ClientTook(taken)
      BY <1>6, <2>1, <2>2 DEF ClientTook
    <3>2. Channels(TcpMessages)'
      BY <1>3, <1>4, <2>1, <2>2 DEF Channels
    <3>3. QED
      BY <1>3, <1>4, <3>1, <3>2
<1>7. QED
  BY <1>5, <1>6

\* A step of the client that does not end with success.
NoSuccess ==
  /\ results'.client \in {results.client, results.client \o ABORT}
  /\ at'.client # "exit" => results'.client = results.client
  /\ at'.server = at.server /\ committed' = committed

\* What the client does when the password rounds are over.
LEMMA TransfersIs ==
  ASSUME TcpShape, protocol \in TcpFamily, NEW msgs \in Seq(TcpMessages), NEW taken \in {0, 1},
         taken = 1 => net.client # <<>>, TcpClientTransfers(taken, msgs), committed' = committed
  PROVE  /\ Channels(TcpMessages)' /\ ClientTook(taken)
         /\ Pair(at') /\ Pair(results') /\ NoSuccess
         /\ \/ /\ at'.client = "hello" /\ protocol = "tls-like"
               /\ Grows(net.server, net'.server, msgs \o <<Frame("CLIENT_HELLO")>>)
            \/ /\ at'.client \in {"data", "exit"} /\ protocol = "tcp-basic"
               /\ at'.client = "data" => "client" \notin stopped'
               /\ Grows(net.server, net'.server, msgs)
<1>1. Channels(TcpMessages) /\ Pair(at) /\ Pair(results)
  BY DEF TcpShape
<1>. DEFINE hello == <<Frame("CLIENT_HELLO")>>
            more == msgs \o hello
<1>2. hello \in Seq(TcpMessages)
  BY TcpMessagesAre
<1>. HIDE DEF hello
<1>3. more \in Seq(TcpMessages)
  BY <1>2, Concatenated
<1>. HIDE DEF more
<1>4. CASE protocol = "tls-like" /\ TcpClientSends(taken, more) /\ Goto("client", "hello")
  <2>1. Channels(TcpMessages)' /\ ClientTook(taken) /\ Grows(net.server, net'.server, more)
    BY <1>1, <1>3, <1>4, TcpClientSendsIs
  <2>2. at' = [server |-> at.server, client |-> "hello"] /\ results' = results
    BY <1>1, <1>4, GotoIs
  <2>3. Pair(at') /\ at'.client = "hello" /\ at'.server = at.server
    BY <2>2 DEF Pair
  <2>4. QED
    BY <1>1, <1>4, <2>1, <2>2, <2>3 DEF more, hello, NoSuccess
<1>5. CASE /\ protocol = "tcp-basic" /\ "client" \notin stopped'
           /\ TcpClientSends(taken, msgs) /\ Goto("client", "data")
  <2>1. Channels(TcpMessages)' /\ ClientTook(taken) /\ Grows(net.server, net'.server, msgs)
    BY <1>1, <1>5, TcpClientSendsIs
  <2>2. at' = [server |-> at.server, client |-> "data"] /\ results' = results
    BY <1>1, <1>5, GotoIs
  <2>3. Pair(at') /\ at'.client = "data" /\ at'.server = at.server
    BY <2>2 DEF Pair
  <2>4. QED
    BY <1>1, <1>5, <2>1, <2>2, <2>3 DEF NoSuccess
<1>6. CASE /\ protocol = "tcp-basic" /\ "client" \in stopped'
           /\ TcpClientSends(taken, msgs) /\ Finish("client", ABORT)
  <2>1. Channels(TcpMessages)' /\ ClientTook(taken) /\ Grows(net.server, net'.server, msgs)
    BY <1>1, <1>6, TcpClientSendsIs
  <2>2. /\ at' = [server |-> at.server, client |-> "exit"]
        /\ results' = [server |-> results.server, client |-> results.client \o ABORT]
    BY <1>1, <1>6, FinishIs
  <2>3. /\ Pair(at') /\ at'.client = "exit" /\ at'.server = at.server
        /\ Pair(results') /\ results'.client = results.client \o ABORT
    BY <2>2 DEF Pair
  <2>4. QED
    BY <1>6, <2>1, <2>3 DEF NoSuccess
<1>7. QED
  BY <1>4, <1>5, <1>6 DEF TcpClientTransfers, more, hello

LEMMA ClientNextRoundIs ==
  ASSUME TcpShape, protocol \in TcpFamily, NEW msgs \in Seq(TcpMessages), NEW taken \in {0, 1},
         taken = 1 => net.client # <<>>, TcpClientNextRound(taken, msgs), committed' = committed
  PROVE  /\ Channels(TcpMessages)' /\ ClientTook(taken)
         /\ Pair(at') /\ Pair(results') /\ NoSuccess
         /\ \/ /\ at'.client = "hello" /\ protocol = "tls-like"
               /\ Grows(net.server, net'.server, msgs \o <<Frame("CLIENT_HELLO")>>)
            \/ at'.client \in {"auth", "exit"} /\ Grows(net.server, net'.server, msgs)
<1>1. Channels(TcpMessages) /\ Pair(at) /\ Pair(results)
  BY DEF TcpShape
<1>2. CASE /\ "client" \notin stopped'
           /\ TcpClientSends(taken, msgs) /\ Goto("client", "auth")
  <2>1. Channels(TcpMessages)' /\ ClientTook(taken) /\ Grows(net.server, net'.server, msgs)
    BY <1>1, <1>2, TcpClientSendsIs
  <2>2. at' = [server |-> at.server, client |-> "auth"] /\ results' = results
    BY <1>1, <1>2, GotoIs
  <2>3. Pair(at') /\ at'.client = "auth" /\ at'.server = at.server
    BY <2>2 DEF Pair
  <2>4. QED
    BY <1>1, <2>1, <2>2, <2>3 DEF NoSuccess
<1>3. CASE "client" \in stopped' /\ TcpClientTransfers(taken, msgs)
  BY <1>3, TransfersIs
<1>4. QED
  BY <1>2, <1>3 DEF TcpClientNextRound

\* The client's message m, and behind it the CLIENT_HELLO if a signal ends the rounds.
ClientSpeaks(m) ==
  \/ at'.client \in {"auth", "exit"} /\ Gains(net.server, net'.server, m)
  \/ /\ at'.client = "hello" /\ protocol = "tls-like"
     /\ Grows(net.server, net'.server, <<m, Frame("CLIENT_HELLO")>>)

LEMMA ClientSpeaksIs ==
  ASSUME TcpShape, protocol \in TcpFamily, NEW m \in TcpMessages, NEW taken \in {0, 1},
         taken = 1 => net.client # <<>>, TcpClientNextRound(taken, <<m>>), committed' = committed
  PROVE  /\ Channels(TcpMessages)' /\ ClientTook(taken)
         /\ Pair(at') /\ Pair(results') /\ NoSuccess /\ ClientSpeaks(m)
<1>. DEFINE msgs == <<m>>
            hello == Frame("CLIENT_HELLO")
<1>1. msgs \in Seq(TcpMessages) /\ msgs \o <<hello>> = <<m, hello>>
  <2>1. hello \in TcpMessages
    BY TcpMessagesAre
  <2>. HIDE DEF hello
  <2>2. QED
    BY <2>1, TwoSingles
<1>2. TcpClientNextRound(taken, msgs)
  OBVIOUS
<1>. HIDE DEF msgs
<1>3. /\ Channels(TcpMessages)' /\ ClientTook(taken)
      /\ Pair(at') /\ Pair(results') /\ NoSuccess
      /\ \/ /\ at'.client = "hello" /\ protocol = "tls-like"
            /\ Grows(net.server, net'.server, msgs \o <<hello>>)
         \/ at'.client \in {"auth", "exit"} /\ Grows(net.server, net'.server, msgs)
  BY <1>1, <1>2, ClientNextRoundIs
<1>4. net.server \in Seq(TcpMessages) /\ net'.server \in Seq(TcpMessages)
  BY <1>3 DEF TcpShape, Channels
<1>5. Grows(net.server, net'.server, msgs) => Gains(net.server, net'.server, m)
  BY <1>4, GrowsByOne DEF msgs
<1>6. QED
  BY <1>1, <1>3, <1>5 DEF ClientSpeaks

\* The client says nothing, but for the CLIENT_HELLO if the rounds are over.
ClientMaySayHello ==
  \/ at'.client \in {"auth", "data", "exit"} /\ net'.server = net.server
  \/ /\ at'.client = "hello" /\ protocol = "tls-like"
     /\ \E m \in TcpMessages : m.type = "CLIENT_HELLO" /\ Gains(net.server, net'.server, m)

LEMMA MaySayHelloIs ==
  ASSUME TcpShape, Channels(TcpMessages)',
         \/ /\ at'.client = "hello" /\ protocol = "tls-like"
            /\ Grows(net.server, net'.server, <<>> \o <<Frame("CLIENT_HELLO")>>)
         \/ at'.client \in {"auth", "data", "exit"} /\ Grows(net.server, net'.server, <<>>)
  PROVE  ClientMaySayHello
<1>. DEFINE hello == Frame("CLIENT_HELLO")
<1>1. hello \in TcpMessages /\ hello.type = "CLIENT_HELLO"
  BY TcpMessagesAre
<1>. HIDE DEF hello
<1>2. net.server \in Seq(TcpMessages) /\ net'.server \in Seq(TcpMessages)
  BY DEF TcpShape, Channels
<1>3. CASE at'.client \in {"auth", "data", "exit"} /\ Grows(net.server, net'.server, <<>>)
  BY <1>2, <1>3, GrowsByNone DEF ClientMaySayHello
<1>4. CASE /\ at'.client = "hello" /\ protocol = "tls-like"
           /\ Grows(net.server, net'.server, <<>> \o <<hello>>)
  <2>1. <<>> \o <<hello>> = <<hello>>
    OBVIOUS
  <2>2. Gains(net.server, net'.server, hello)
    BY <1>2, <1>4, <2>1, GrowsByOne
  <2>3. QED
    BY <1>1, <1>4, <2>2 DEF ClientMaySayHello
<1>5. QED
  BY <1>3, <1>4 DEF hello

LEMMA ClientStartIs ==
  ASSUME TcpShape, protocol \in TcpFamily, SettingsStay, TcpClientStart
  PROVE  /\ TcpShape' /\ NoSuccess
         /\ at.client = "start" /\ at.server # "exit"
         /\ net'.client = net.client
         /\ \E m \in TcpMessages : m.type = "JOIN_REQ" /\ ClientSpeaks(m)
         /\ stopped \subseteq stopped' /\ UNCHANGED <<mem, written>>
<1>. DEFINE m == Frame("JOIN_REQ")
<1>1. /\ at.client = "start" /\ at.server # "exit" /\ SignalWhileBusy("client")
      /\ TcpClientNextRound(0, <<m>>) /\ UNCHANGED <<mem, written, committed>>
  BY DEF TcpClientStart, fileVars, Ended
<1>2. m \in TcpMessages /\ m.type = "JOIN_REQ"
  BY TcpMessagesAre
<1>. HIDE DEF m
<1>3. /\ Channels(TcpMessages)' /\ ClientTook(0)
      /\ Pair(at') /\ Pair(results') /\ NoSuccess /\ ClientSpeaks(m)
  BY <1>1, <1>2, ClientSpeaksIs
<1>4. at'.client \in {"auth", "hello", "exit"} /\ at'.server = at.server
  BY <1>3 DEF ClientSpeaks, NoSuccess
<1>5. TcpShape'
  BY <1>1, <1>3, <1>4, ShapeKept DEF TcpShape
<1>6. net'.client = net.client
  BY <1>3 DEF ClientTook
<1>7. QED
  BY <1>1, <1>2, <1>3, <1>5, <1>6 DEF SignalWhileBusy

\* The steps with which the client ends without having said anything.
ClientEnds ==
  /\ NoSuccess /\ at'.client = "exit" /\ at.client # "exit" /\ net'.server = net.server
  /\ net'.client = net.client \/ (net.client # <<>> /\ Shrinks(net.client, net'.client))
  /\ stopped \subseteq stopped' /\ UNCHANGED <<mem, written>>

LEMMA ClientEndsIs ==
  ASSUME TcpShape, protocol \in TcpFamily, SettingsStay, TcpClientRefused \/ TcpClientReceiveFails
  PROVE  TcpShape' /\ ClientEnds
<1>1. /\ UNCHANGED net /\ Finish("client", ABORT) /\ at.client # "exit"
      /\ UNCHANGED <<mem, written, committed, stopped>>
  BY DEF TcpClientRefused, TcpClientReceiveFails, quietVars
<1>2. Channels(TcpMessages) /\ Pair(at) /\ Pair(results)
  BY DEF TcpShape
<1>3. /\ at' = [server |-> at.server, client |-> "exit"]
      /\ results' = [server |-> results.server, client |-> results.client \o ABORT]
  BY <1>1, <1>2, FinishIs
<1>4. /\ Pair(at') /\ at'.client = "exit" /\ at'.server = at.server
      /\ Pair(results') /\ results'.client = results.client \o ABORT
  BY <1>3 DEF Pair
<1>5. Channels(TcpMessages)'
  BY <1>1, <1>2 DEF Channels, Pair
<1>6. TcpShape'
  BY <1>1, <1>4, <1>5, ShapeKept DEF TcpShape
<1>7. QED
  BY <1>1, <1>4, <1>6 DEF ClientEnds, NoSuccess

LEMMA ClientAuthIs ==
  ASSUME TcpShape, TurnInv, protocol \in TcpFamily, SettingsStay, TcpClientAuth
  PROVE  /\ TcpShape' /\ NoSuccess
         /\ at.client = "auth" /\ net.client # <<>> /\ Shrinks(net.client, net'.client)
         /\ \/ /\ net.client[1].type = "PASS_REQ"
               /\ mem' = [mem EXCEPT !.given = mem.given + 1]
               /\ \E m \in TcpMessages : m.type = "PASS_RESP" /\ ClientSpeaks(m)
            \/ /\ net.client[1].type = "PASS_ACCEPT" /\ mem' = mem /\ ClientMaySayHello
               /\ at'.client # "auth" /\ (at'.client = "data" => protocol = "tcp-basic")
            \/ /\ net.client[1].type \notin {"PASS_REQ", "PASS_ACCEPT"} /\ mem' = mem
               /\ ClientMaySayHello /\ at'.client # "data"
               /\ at'.client \in {"auth", "hello"} => net.client[1].type # "REJECT"
         /\ stopped \subseteq stopped' /\ UNCHANGED written
<1>. DEFINE m == Head(net.client)
            answer == PassResp(mem.passwords[mem.given + 1])
<1>1. /\ at.client = "auth" /\ net.client # <<>>
      /\ SignalWhileBusy("client")
      /\ \/ m.type = "PASS_REQ"
            /\ mem' = [mem EXCEPT !.given = mem.given + 1]
            /\ TcpClientNextRound(1, <<answer>>)
         \/ m.type = "PASS_ACCEPT" /\ mem' = mem /\ TcpClientTransfers(1, <<>>)
         \/ m.type = "REJECT" /\ mem' = mem
            /\ TcpClientSends(1, <<>>) /\ Finish("client", ABORT)
         \/ m.type \notin {"PASS_REQ", "PASS_ACCEPT", "REJECT"} /\ mem' = mem
            /\ TcpClientNextRound(1, <<>>)
      /\ UNCHANGED <<written, committed>>
  BY DEF TcpClientAuth, fileVars
<1>2. /\ Channels(TcpMessages) /\ Pair(at) /\ Pair(results)
      /\ net.client \in Seq(TcpMessages) /\ mem \in TcpMem /\ <<>> \in Seq(TcpMessages)
  BY EmptySeq DEF TcpShape, Channels
<1>3. m = net.client[1] /\ 1 \in 1..Len(net.client)
  BY <1>1, <1>2, FirstOf
<1>. HIDE DEF m
<1>4. CASE m.type = "PASS_REQ" /\ mem' = [mem EXCEPT !.given = mem.given + 1]
           /\ TcpClientNextRound(1, <<answer>>)
  <2>1. mem.given \in 0..2
    BY <1>2, <1>3, <1>4 DEF TurnInv, RequestTurn, TcpMem
  <2>. DEFINE g == mem.given + 1
  <2>2. g \in 1..3 /\ g \in 0..3 /\ mem' = [mem EXCEPT !.given = g]
    BY <1>4, <2>1
  <2>3. mem.passwords \in [1..3 -> BOOLEAN]
    BY <1>2, DemoAttemptsAssumption DEF TcpMem
  <2>. HIDE DEF g
  <2>4. mem.passwords[g] \in BOOLEAN /\ answer = PassResp(mem.passwords[g])
    BY <2>2, <2>3 DEF g
  <2>5. answer \in TcpMessages /\ answer.type = "PASS_RESP"
    BY <2>4, TcpMessagesAre
  <2>. HIDE DEF answer
  <2>6. /\ Channels(TcpMessages)' /\ ClientTook(1)
        /\ Pair(at') /\ Pair(results') /\ NoSuccess /\ ClientSpeaks(answer)
    BY <1>1, <1>4, <2>5, ClientSpeaksIs
  <2>7. at'.client \in {"auth", "hello", "exit"} /\ at'.server = at.server
    BY <2>6 DEF ClientSpeaks, NoSuccess
  <2>8. mem' \in TcpMem
    BY <1>2, <2>2 DEF TcpMem
  <2>9. TcpShape'
    BY <1>1, <2>6, <2>7, <2>8, ShapeKept DEF TcpShape
  <2>10. QED
    BY <1>1, <1>3, <1>4, <2>5, <2>6, <2>9 DEF SignalWhileBusy, ClientTook
<1>5. CASE m.type = "PASS_ACCEPT" /\ mem' = mem /\ TcpClientTransfers(1, <<>>)
  <2>1. /\ Channels(TcpMessages)' /\ ClientTook(1)
        /\ Pair(at') /\ Pair(results') /\ NoSuccess
        /\ \/ /\ at'.client = "hello" /\ protocol = "tls-like"
              /\ Grows(net.server, net'.server, <<>> \o <<Frame("CLIENT_HELLO")>>)
           \/ /\ at'.client \in {"data", "exit"} /\ protocol = "tcp-basic"
              /\ Grows(net.server, net'.server, <<>>)
    BY <1>1, <1>2, <1>5, TransfersIs
  <2>2. ClientMaySayHello
    BY <2>1, MaySayHelloIs
  <2>3. at'.client \in {"hello", "data", "exit"} /\ at'.server = at.server
    BY <2>1 DEF NoSuccess
  <2>4. TcpShape'
    BY <1>1, <1>5, <2>1, <2>3, ShapeKept DEF TcpShape
  <2>5. QED
    BY <1>1, <1>3, <1>5, <2>1, <2>2, <2>3, <2>4 DEF SignalWhileBusy, ClientTook
<1>6. CASE m.type = "REJECT" /\ mem' = mem
           /\ TcpClientSends(1, <<>>) /\ Finish("client", ABORT)
  <2>1. Channels(TcpMessages)' /\ ClientTook(1) /\ Grows(net.server, net'.server, <<>>)
    BY <1>1, <1>2, <1>6, TcpClientSendsIs
  <2>2. /\ at' = [server |-> at.server, client |-> "exit"]
        /\ results' = [server |-> results.server, client |-> results.client \o ABORT]
    BY <1>2, <1>6, FinishIs
  <2>3. /\ Pair(at') /\ at'.client = "exit" /\ at'.server = at.server
        /\ Pair(results') /\ results'.client = results.client \o ABORT
    BY <2>2 DEF Pair
  <2>4. ClientMaySayHello
    BY <2>1, <2>3, MaySayHelloIs
  <2>5. TcpShape'
    BY <1>1, <1>6, <2>1, <2>3, ShapeKept DEF TcpShape
  <2>6. QED
    BY <1>1, <1>3, <1>6, <2>1, <2>3, <2>4, <2>5 DEF SignalWhileBusy, ClientTook, NoSuccess
<1>7. CASE m.type \notin {"PASS_REQ", "PASS_ACCEPT", "REJECT"} /\ mem' = mem
           /\ TcpClientNextRound(1, <<>>)
  <2>1. /\ Channels(TcpMessages)' /\ ClientTook(1)
        /\ Pair(at') /\ Pair(results') /\ NoSuccess
        /\ \/ /\ at'.client = "hello" /\ protocol = "tls-like"
              /\ Grows(net.server, net'.server, <<>> \o <<Frame("CLIENT_HELLO")>>)
           \/ at'.client \in {"auth", "exit"} /\ Grows(net.server, net'.server, <<>>)
    BY <1>1, <1>2, <1>7, ClientNextRoundIs
  <2>2. ClientMaySayHello
    BY <2>1, MaySayHelloIs
  <2>3. at'.client \in {"hello", "auth", "exit"} /\ at'.server = at.server
    BY <2>1 DEF NoSuccess
  <2>4. TcpShape'
    BY <1>1, <1>7, <2>1, <2>3, ShapeKept DEF TcpShape
  <2>5. QED
    BY <1>1, <1>3, <1>7, <2>1, <2>2, <2>3, <2>4 DEF SignalWhileBusy, ClientTook
<1>8. QED
  BY <1>1, <1>4, <1>5, <1>6, <1>7

LEMMA ClientHelloIs ==
  ASSUME TcpShape, protocol \in TcpFamily, SettingsStay, TlsClientHello
  PROVE  /\ TcpShape' /\ NoSuccess
         /\ at.client = "hello" /\ net.client # <<>> /\ Shrinks(net.client, net'.client)
         /\ \/ /\ net.client[1].type = "SERVER_HELLO" /\ at'.client = "finished"
               /\ \E m \in TcpMessages : m.type = "FINISHED" /\ Gains(net.server, net'.server, m)
            \/ at'.client = "exit" /\ net'.server = net.server
         /\ UNCHANGED <<mem, stopped, written>>
<1>. DEFINE m == FinishedFrame(TRUE)
            one == <<m>>
<1>1. /\ at.client = "hello" /\ net.client # <<>>
      /\ \/ Head(net.client).type = "SERVER_HELLO"
            /\ TcpClientSends(1, one) /\ Goto("client", "finished")
         \/ TcpClientSends(1, <<>>) /\ Finish("client", ABORT)
      /\ UNCHANGED <<mem, stopped, written, committed>>
  BY DEF TlsClientHello, quietVars
<1>2. /\ Channels(TcpMessages) /\ Pair(at) /\ Pair(results)
      /\ net.client \in Seq(TcpMessages) /\ net.server \in Seq(TcpMessages)
      /\ <<>> \in Seq(TcpMessages)
  BY EmptySeq DEF TcpShape, Channels
<1>3. m \in TcpMessages /\ m.type = "FINISHED"
  BY TcpMessagesAre
<1>. HIDE DEF m
<1>4. one \in Seq(TcpMessages) /\ one = <<m>>
  BY <1>3
<1>. HIDE DEF one
<1>5. Head(net.client) = net.client[1]
  BY <1>1, <1>2, FirstOf
<1>6. CASE /\ Head(net.client).type = "SERVER_HELLO"
           /\ TcpClientSends(1, one) /\ Goto("client", "finished")
  <2>1. Channels(TcpMessages)' /\ ClientTook(1) /\ Grows(net.server, net'.server, one)
    BY <1>1, <1>2, <1>4, <1>6, TcpClientSendsIs
  <2>2. net'.server \in Seq(TcpMessages)
    BY <2>1 DEF Channels
  <2>3. Gains(net.server, net'.server, m)
    BY <1>2, <2>1, <2>2, GrowsByOne DEF one
  <2>4. at' = [server |-> at.server, client |-> "finished"] /\ results' = results
    BY <1>2, <1>6, GotoIs
  <2>5. Pair(at') /\ at'.client = "finished" /\ at'.server = at.server
    BY <2>4 DEF Pair
  <2>6. TcpShape'
    BY <1>1, <1>2, <2>1, <2>4, <2>5, ShapeKept DEF TcpShape
  <2>7. QED
    BY <1>1, <1>3, <1>5, <1>6, <2>1, <2>3, <2>4, <2>5, <2>6 DEF ClientTook, NoSuccess
<1>7. CASE TcpClientSends(1, <<>>) /\ Finish("client", ABORT)
  <2>1. Channels(TcpMessages)' /\ ClientTook(1) /\ Grows(net.server, net'.server, <<>>)
    BY <1>1, <1>2, <1>7, TcpClientSendsIs
  <2>2. net'.server = net.server
    BY <1>2, <2>1, GrowsByNone DEF Channels
  <2>3. /\ at' = [server |-> at.server, client |-> "exit"]
        /\ results' = [server |-> results.server, client |-> results.client \o ABORT]
    BY <1>2, <1>7, FinishIs
  <2>4. /\ Pair(at') /\ at'.client = "exit" /\ at'.server = at.server
        /\ Pair(results') /\ results'.client = results.client \o ABORT
    BY <2>3 DEF Pair
  <2>5. TcpShape'
    BY <1>1, <1>2, <2>1, <2>4, ShapeKept DEF TcpShape
  <2>6. QED
    BY <1>1, <2>1, <2>2, <2>4, <2>5 DEF ClientTook, NoSuccess
<1>8. QED
  BY <1>1, <1>6, <1>7

\* The client takes a message and says nothing.
LEMMA ClientTakesIs ==
  ASSUME TcpShape, net.client # <<>>, TcpClientSends(1, <<>>)
  PROVE  /\ Channels(TcpMessages)' /\ net'.server = net.server
         /\ Shrinks(net.client, net'.client)
<1>1. Channels(TcpMessages) /\ net.server \in Seq(TcpMessages) /\ <<>> \in Seq(TcpMessages)
  BY EmptySeq DEF TcpShape, Channels
<1>2. Channels(TcpMessages)' /\ ClientTook(1) /\ Grows(net.server, net'.server, <<>>)
  BY <1>1, TcpClientSendsIs
<1>3. net'.server = net.server
  BY <1>1, <1>2, GrowsByNone DEF Channels
<1>4. QED
  BY <1>2, <1>3 DEF ClientTook

LEMMA NextFrameIs ==
  ASSUME TcpShape, committed' = committed, TcpClientNextFrame \/ Finish("client", ABORT)
  PROVE  /\ Pair(at') /\ Pair(results') /\ NoSuccess
         /\ at'.client \in {"data", "exit"}
         /\ Finish("client", ABORT) => at'.client = "exit"
<1>1. Pair(at) /\ Pair(results)
  BY DEF TcpShape
<1>2. Goto("client", "data") \/ Finish("client", ABORT)
  BY DEF TcpClientNextFrame
<1>3. Goto("client", "data") =>
        at' = [server |-> at.server, client |-> "data"] /\ results' = results
  BY <1>1, GotoIs
<1>4. Finish("client", ABORT) =>
        /\ at' = [server |-> at.server, client |-> "exit"]
        /\ results' = [server |-> results.server, client |-> results.client \o ABORT]
  BY <1>1, FinishIs
<1>5. QED
  BY <1>1, <1>2, <1>3, <1>4 DEF Pair, NoSuccess

LEMMA ClientFinishedIs ==
  ASSUME TcpShape, protocol \in TcpFamily, SettingsStay, TlsClientFinished
  PROVE  /\ TcpShape' /\ NoSuccess
         /\ at.client = "finished" /\ net.client # <<>> /\ Shrinks(net.client, net'.client)
         /\ net'.server = net.server
         /\ at'.client \in {"data", "exit"}
         /\ at'.client = "data" => net.client[1].type = "FINISHED"
         /\ stopped \subseteq stopped' /\ UNCHANGED <<mem, written>>
<1>1. /\ at.client = "finished" /\ net.client # <<>> /\ TcpClientSends(1, <<>>)
      /\ \/ Head(net.client) = FinishedFrame(TRUE) /\ TcpClientNextFrame
         \/ UNCHANGED stopped /\ Finish("client", ABORT)
      /\ UNCHANGED <<mem, written, committed>>
  BY DEF TlsClientFinished, TlsVerified, fileVars
<1>2. FinishedFrame(TRUE).type = "FINISHED" /\ Head(net.client) = net.client[1]
  <2>1. FinishedFrame(TRUE).type = "FINISHED"
    BY TcpMessagesAre
  <2>2. Head(net.client) = net.client[1]
    BY <1>1, FirstOf DEF TcpShape, Channels
  <2>3. QED
    BY <2>1, <2>2
<1>3. /\ Channels(TcpMessages)' /\ net'.server = net.server
      /\ Shrinks(net.client, net'.client)
  BY <1>1, ClientTakesIs
<1>4. /\ Pair(at') /\ Pair(results') /\ NoSuccess
      /\ at'.client \in {"data", "exit"}
      /\ Finish("client", ABORT) => at'.client = "exit"
  BY <1>1, NextFrameIs
<1>5. at'.server = at.server
  BY <1>4 DEF NoSuccess
<1>6. TcpShape'
  BY <1>1, <1>3, <1>4, <1>5, ShapeKept DEF TcpShape
<1>7. QED
  BY <1>1, <1>2, <1>3, <1>4, <1>6 DEF TcpClientNextFrame, SignalWhileBusy

LEMMA Appended ==
  ASSUME NEW S, NEW s \in Seq(S), NEW x \in S
  PROVE  Append(s, x) \in Seq(S) /\ Gains(s, Append(s, x), x)
<1>. DEFINE t == Append(s, x)
<1>1. /\ t \in Seq(S) /\ Len(t) = Len(s) + 1 /\ t[Len(s) + 1] = x
      /\ \A i \in 1..Len(s) : t[i] = s[i]
  BY AppendProperties
<1>. HIDE DEF t
<1>2. QED
  BY <1>1 DEF Gains, t

LEMMA ClientDataIs ==
  ASSUME TcpShape, protocol \in TcpFamily, SettingsStay, TcpClientData
  PROVE  /\ TcpShape' /\ NoSuccess
         /\ at.client = "data" /\ net.client # <<>> /\ Shrinks(net.client, net'.client)
         /\ net'.server = net.server
         /\ at'.client \in {"data", "exit"}
         /\ LET m == net.client[1]
            IN  \/ m.type = "DATA" /\ Gains(written, written', m.unit) /\ mem' = mem
                \/ /\ m.type = "APP_DATA" /\ m.seq > mem.seen /\ m.mac
                   /\ Gains(written, written', m.unit)
                   /\ mem' = [mem EXCEPT !.seen = m.seq]
                \/ UNCHANGED <<written, mem>> /\ at'.client = "exit"
         /\ stopped \subseteq stopped'
<1>. DEFINE m == Head(net.client)
<1>1. /\ at.client = "data" /\ net.client # <<>>
      /\ \/ m.type = "DATA" /\ written' = Append(written, m.unit) /\ mem' = mem
         \/ /\ m.type = "APP_DATA" /\ m.seq > mem.seen /\ m.mac
            /\ written' = Append(written, m.unit)
            /\ mem' = [mem EXCEPT !.seen = m.seq]
         \/ UNCHANGED <<written, mem>> /\ Finish("client", ABORT)
      /\ TcpClientNextFrame \/ (UNCHANGED stopped /\ Finish("client", ABORT))
      /\ TcpClientSends(1, <<>>) /\ committed' = committed
  BY DEF TcpClientData, AppDataFresh
<1>2. m = net.client[1] /\ m \in TcpMessages
  BY <1>1, FirstOf DEF TcpShape, Channels
<1>. HIDE DEF m
<1>3. /\ Channels(TcpMessages)' /\ net'.server = net.server
      /\ Shrinks(net.client, net'.client)
  BY <1>1, ClientTakesIs
<1>4. /\ Pair(at') /\ Pair(results') /\ NoSuccess
      /\ at'.client \in {"data", "exit"}
      /\ Finish("client", ABORT) => at'.client = "exit"
  BY <1>1, NextFrameIs
<1>5. at'.server = at.server
  BY <1>4 DEF NoSuccess
<1>6. mem \in TcpMem /\ written \in Seq(Data)
  BY DEF TcpShape
<1>7. mem' \in TcpMem /\ written' \in Seq(Data)
      /\ (written' = Append(written, m.unit) /\ m.type \in {"DATA", "APP_DATA"}
            => Gains(written, written', m.unit))
  <2>1. m.type \in {"DATA", "APP_DATA"} => m.unit \in Data
    BY <1>2, TcpFields
  <2>2. m.type = "APP_DATA" => m.seq \in Nat
    BY <1>2, TcpFields
  <2>3. mem' \in TcpMem
    BY <1>1, <1>6, <2>2 DEF TcpMem
  <2>4. written' = Append(written, m.unit) /\ m.type \in {"DATA", "APP_DATA"}
          => written' \in Seq(Data) /\ Gains(written, written', m.unit)
    BY <1>6, <2>1, Appended
  <2>5. QED
    BY <1>1, <1>6, <2>3, <2>4
<1>8. TcpShape'
  BY <1>1, <1>3, <1>4, <1>5, <1>7, ShapeKept DEF TcpShape
<1>9. stopped \subseteq stopped'
  BY <1>1 DEF TcpClientNextFrame, SignalWhileBusy
<1>10. QED
  BY <1>1, <1>2, <1>3, <1>4, <1>7, <1>8, <1>9

LEMMA ClientTerminateIs ==
  ASSUME TcpShape, protocol \in TcpFamily, SettingsStay, TcpClientTerminate
  PROVE  /\ TcpShape'
         /\ at.client = "data" /\ net.client # <<>> /\ Shrinks(net.client, net'.client)
         /\ net.client[1].type = "TERMINATE"
         /\ net'.server = net.server
         /\ at'.client = "exit" /\ at'.server = at.server
         /\ \/ /\ written = net.client[1].digest /\ results'.client = results.client \o OK
               /\ \/ committed' = Append(committed, written)
                  \/ "rename" \in faults /\ committed' = committed
            \/ results'.client = results.client \o ABORT /\ committed' = committed
         /\ UNCHANGED <<mem, written, stopped>>
<1>1. /\ at.client = "data" /\ net.client # <<>> /\ Head(net.client).type = "TERMINATE"
      /\ TcpClientSends(1, <<>>)
      /\ \/ /\ written = Head(net.client).digest /\ Publish(written) /\ Finish("client", OK)
         \/ committed' = committed /\ Finish("client", ABORT)
      /\ UNCHANGED <<mem, written, stopped>>
  BY DEF TcpClientTerminate, DigestMatches, settledVars
<1>2. Head(net.client) = net.client[1] /\ Pair(at) /\ Pair(results)
  BY <1>1, FirstOf DEF TcpShape, Channels
<1>3. /\ Channels(TcpMessages)' /\ net'.server = net.server
      /\ Shrinks(net.client, net'.client)
  BY <1>1, ClientTakesIs
<1>4. /\ Finish("client", OK) =>
           /\ at' = [server |-> at.server, client |-> "exit"]
           /\ results' = [server |-> results.server, client |-> results.client \o OK]
      /\ Finish("client", ABORT) =>
           /\ at' = [server |-> at.server, client |-> "exit"]
           /\ results' = [server |-> results.server, client |-> results.client \o ABORT]
  BY <1>2, FinishIs
<1>5. /\ Pair(at') /\ at'.client = "exit" /\ at'.server = at.server /\ Pair(results')
      /\ Finish("client", OK) => results'.client = results.client \o OK
      /\ Finish("client", ABORT) => results'.client = results.client \o ABORT
  BY <1>1, <1>4 DEF Pair
<1>6. TcpShape'
  BY <1>1, <1>3, <1>5, ShapeKept DEF TcpShape
<1>7. QED
  BY <1>1, <1>2, <1>3, <1>5, <1>6 DEF Publish

-----------------------------------------------------------------------------
(***************************************************************************)
(* TcpDemo: the invariant holds.                                           *)
(***************************************************************************)
LEMMA TcpInitially == Init => TcpInv
<1>. SUFFICES ASSUME Init, protocol \in TcpFamily
              PROVE  TcpShape /\ TurnInv /\ SecretInv /\ SequenceInv /\ OutputInv
  BY DEF TcpInv
<1>1. TcpInit
  BY TcpInitIs
<1>2. /\ ProgramsInit("join") /\ FilesInit /\ faults \in StreamFaults
      /\ scenario \in IF protocol = "tcp-basic" THEN TcpBasicScenarios ELSE TlsScenarios
  BY <1>1 DEF TcpInit
<1>3. PICK passwords \in Attempts :
        mem = [passwords |-> passwords, given |-> 0, attempt |-> 0, authed |-> FALSE,
               sent |-> 0, seen |-> 0]
  BY <1>1 DEF TcpInit
<1>4. /\ at.server = "join" /\ at.client = "start" /\ Pair(at)
      /\ net.server = <<>> /\ net.client = <<>> /\ Pair(net)
      /\ results.client = <<>> /\ Pair(results) /\ <<>> \in Seq(TcpMessages)
  BY <1>2, PlacesInit, EmptySeq
<1>5. /\ mem \in TcpMem /\ mem.given = 0 /\ mem.attempt = 0 /\ mem.sent = 0 /\ mem.seen = 0
      /\ ~mem.authed
  BY <1>3 DEF TcpMem
<1>6. /\ original \in Seq(Data) /\ content \in Seq(Data) /\ written = <<>> /\ committed = <<>>
      /\ written \in Seq(Data) /\ Len(written) = 0 /\ Len(content) \in Nat
  BY <1>2, DemoFilesAssumption, EmptySeq DEF FilesInit
<1>7. TcpShape
  BY <1>2, <1>4, <1>5, <1>6 DEF TcpShape, Channels
<1>8. Len(net.client) = 0 /\ Len(net.server) = 0
  BY <1>4, EmptySeq
<1>9. TurnInv /\ SecretInv
  BY <1>4, <1>5, <1>8 DEF TurnInv, StartTurn, CountTurn, EarlyTurn, AnswerTurn, RequestTurn, SecretInv, LetInInv,
                            HandshakeInv, Early
<1>10. SequenceInv
  BY <1>4, <1>5, <1>6, <1>8 DEF SequenceInv, WrittenInv, StreamInv
<1>11. OutputInv
  BY <1>4, <1>6, <1>8 DEF OutputInv, PrintsOk, Range
<1>12. QED
  BY <1>7, <1>9, <1>10, <1>11

\* What the shape says of the numbers in a state.
TcpNumbers ==
  /\ Len(net.server) \in Nat /\ (net.server = <<>> <=> Len(net.server) = 0)
  /\ Len(net.client) \in Nat /\ (net.client = <<>> <=> Len(net.client) = 0)
  /\ Len(written) \in Nat /\ Len(content) \in Nat
  /\ mem.given \in 0..3 /\ mem.attempt \in 0..3 /\ mem.sent \in Nat /\ mem.seen \in Nat
  /\ mem.authed \in BOOLEAN

LEMMA NumbersOf ==
  ASSUME NEW S, NEW s \in Seq(S)
  PROVE  Len(s) \in Nat /\ (s = <<>> <=> Len(s) = 0)
BY EmptySeq

LEMMA NumbersIn ==
  ASSUME TcpShape, TcpShape'
  PROVE  TcpNumbers /\ TcpNumbers'
<1>1. TcpNumbers
  BY NumbersOf DEF TcpShape, Channels, TcpMem, TcpNumbers
<1>2. TcpNumbers'
  <2>1. /\ net'.server \in Seq(TcpMessages) /\ net'.client \in Seq(TcpMessages)
        /\ written' \in Seq(Data) /\ content' \in Seq(Data) /\ mem' \in TcpMem
    BY DEF TcpShape, Channels
  <2>2. /\ Len(net'.server) \in Nat /\ (net'.server = <<>> <=> Len(net'.server) = 0)
        /\ Len(net'.client) \in Nat /\ (net'.client = <<>> <=> Len(net'.client) = 0)
    BY <2>1, NumbersOf
  <2>3. Len(written') \in Nat /\ Len(content') \in Nat
    BY <2>1, NumbersOf
  <2>4. QED
    BY <2>1, <2>2, <2>3 DEF TcpMem, TcpNumbers
<1>3. QED
  BY <1>1, <1>2

\* The server takes a message, or leaves them all where they are.
ServerTook ==
  net'.server = net.server \/ (net.server # <<>> /\ Shrinks(net.server, net'.server))

LEMMA AnswerKept ==
  ASSUME TcpNumbers, TcpNumbers', AnswerTurn, at'.client = at.client, ServerTook
  PROVE  /\ AnswerTurn'
         /\ Shrinks(net.server, net'.server) /\ net'.server # <<>> => ~IsTurn(net'.server[1])
         /\ net'.server # <<>> /\ IsTurn(net'.server[1]) => net'.server = net.server
<1>1. CASE net'.server = net.server
  <2>1. ~Shrinks(net.server, net'.server)
    BY <1>1 DEF Shrinks, TcpNumbers
  <2>2. QED
    BY <1>1, <2>1 DEF AnswerTurn, IsTurn
<1>2. CASE Shrinks(net.server, net'.server)
  <2>1. /\ Len(net'.server) + 1 = Len(net.server) /\ Len(net'.server) \in Nat
        /\ net'.server = <<>> <=> Len(net'.server) = 0
        /\ \A i \in 1..Len(net'.server) : net'.server[i] = net.server[i + 1]
    BY <1>2 DEF Shrinks, TcpNumbers
  <2>2. ASSUME NEW i \in 1..Len(net'.server)
        PROVE  ~IsTurn(net'.server[i]) /\ (at'.client = "auth" => IsTurn(net'.server[i]))
    <3>1. /\ net'.server[i] = net.server[i + 1]
          /\ i + 1 \in 2..Len(net.server) /\ i + 1 \in 1..Len(net.server)
      BY <2>1
    <3>2. QED
      BY <3>1 DEF AnswerTurn
  <2>3. net'.server # <<>> => 1 \in 1..Len(net'.server)
    BY <2>1
  <2>4. \A i \in 2..Len(net'.server) : i \in 1..Len(net'.server)
    BY <2>1
  <2>5. QED
    BY <2>2, <2>3, <2>4 DEF AnswerTurn, IsTurn
<1>3. QED
  BY <1>1, <1>2 DEF ServerTook

LEMMA RequestKept ==
  ASSUME TcpNumbers, TcpNumbers', AnswerTurn, RequestTurn, at'.client = at.client, ServerTook,
         mem'.given = mem.given, Len(net'.client) >= Len(net.client),
         \A i \in 1..Len(net.client) : net'.client[i] = net.client[i],
         \A i \in Len(net.client) + 1..Len(net'.client) : net'.client[i].type # "PASS_REQ"
  PROVE  RequestTurn'
<1>1. net'.server # <<>> /\ IsTurn(net'.server[1]) => net'.server = net.server
  BY AnswerKept
<1>. SUFFICES ASSUME NEW i \in 1..Len(net'.client), net'.client[i].type = "PASS_REQ"
              PROVE  i = 1 /\ mem.given <= 2 /\ (net'.server # <<>> => ~IsTurn(net'.server[1]))
  BY DEF RequestTurn, IsTurn
<1>2. i \in 1..Len(net.client) /\ net.client[i].type = "PASS_REQ"
  <2>1. i \in 1..Len(net.client) \/ i \in Len(net.client) + 1..Len(net'.client)
    BY DEF TcpNumbers
  <2>2. QED
    BY <2>1
<1>3. QED
  BY <1>1, <1>2 DEF RequestTurn

LEMMA JoinTurn ==
  ASSUME TcpShape, TurnInv, protocol \in TcpFamily, SettingsStay, TcpServerJoin
  PROVE  TurnInv'
<1>1. /\ TcpShape'
      /\ at.server = "join" /\ net.server # <<>> /\ IsTurn(net.server[1])
      /\ Shrinks(net.server, net'.server)
      /\ at'.client = at.client /\ at'.server \in {"auth", "hello", "send"}
      /\ protocol' = protocol /\ mem' = mem
  BY JoinIs DEF SettingsStay
<1>2. PICK m \in TcpMessages : m.type = "PASS_REQ" /\ Gains(net.client, net'.client, m)
  BY JoinIs
<1>3. TcpNumbers /\ TcpNumbers'
  BY <1>1, NumbersIn
<1>4. net.client = <<>> /\ mem.given = 0 /\ mem.attempt = 0
  BY <1>1 DEF TurnInv, StartTurn
<1>5. StartTurn'
  BY <1>1, <1>2, <1>3, <1>4 DEF TurnInv, StartTurn, TcpNumbers, Gains, Shrinks, IsTurn, Early
<1>6. CountTurn'
  BY <1>1, <1>2, <1>3, <1>4 DEF TurnInv, CountTurn, TcpNumbers, Gains, Shrinks, IsTurn, Early
<1>7. EarlyTurn'
  <2>1. Len(net'.client) = 1
    BY <1>2, <1>3, <1>4 DEF Gains, TcpNumbers
  <2>2. net'.server # <<>> => ~IsTurn(net'.server[1])
    BY <1>1, <1>3, AnswerKept DEF TurnInv, ServerTook
  <2>3. at'.client = "auth" => Len(net'.server) <= 1
    BY <1>1, <1>3 DEF TurnInv, EarlyTurn, Early, TcpNumbers, Shrinks
  <2>4. QED
    BY <2>1, <2>2, <2>3 DEF EarlyTurn, IsTurn
<1>8. AnswerTurn'
  BY <1>1, <1>3, AnswerKept DEF TurnInv, ServerTook
<1>9. RequestTurn'
  <2>1. Len(net'.client) = 1 /\ net'.client[1] = m
    BY <1>2, <1>3, <1>4 DEF Gains, TcpNumbers
  <2>2. net'.server # <<>> => ~IsTurn(net'.server[1])
    BY <1>1, <1>3, AnswerKept DEF TurnInv, ServerTook
  <2>3. QED
    BY <1>1, <1>4, <2>1, <2>2 DEF RequestTurn, IsTurn
<1>10. QED
  BY <1>5, <1>6, <1>7, <1>8, <1>9 DEF TurnInv

LEMMA PasswordTurn ==
  ASSUME TcpShape, TurnInv, protocol \in TcpFamily, SettingsStay, TcpServerPassword
  PROVE  TurnInv'
<1>1. /\ TcpShape'
      /\ at.server = "auth" /\ net.server # <<>> /\ IsTurn(net.server[1])
      /\ Shrinks(net.server, net'.server)
      /\ at'.client = at.client
      /\ protocol' = protocol /\ mem' = [mem EXCEPT !.attempt = mem.attempt + 1, !.authed = mem'.authed]
  BY PasswordIs DEF SettingsStay
<1>2. PICK m \in TcpMessages :
        /\ Gains(net.client, net'.client, m)
        /\ at'.server \in {"auth", "hello", "send", "exit"}
        /\ at'.server = "auth" \/ m.type = "PASS_REQ" => mem'.attempt <= 2
  BY PasswordIs DEF TcpFamily
<1>3. TcpNumbers /\ TcpNumbers'
  BY <1>1, NumbersIn
<1>4. mem'.given = mem.given /\ mem'.attempt = mem.attempt + 1
  BY <1>1 DEF TcpShape, TcpMem
<1>5. net.client = <<>> /\ mem.given <= mem.attempt + 1
  BY <1>1, <1>3 DEF TurnInv, EarlyTurn, CountTurn, Early, TcpNumbers
<1>6. StartTurn'
  BY <1>1, <1>2, <1>3, <1>4, <1>5 DEF TurnInv, StartTurn, TcpNumbers, Gains, Shrinks, IsTurn, Early
<1>7. CountTurn'
  BY SMTT(60), <1>1, <1>2, <1>3, <1>4, <1>5 DEF TurnInv, CountTurn, TcpNumbers, Gains, Shrinks, IsTurn, Early
<1>8. EarlyTurn'
  <2>1. Len(net'.client) = 1
    BY <1>2, <1>3, <1>5 DEF Gains, TcpNumbers
  <2>2. net'.server # <<>> => ~IsTurn(net'.server[1])
    BY <1>1, <1>3, AnswerKept DEF TurnInv, ServerTook
  <2>3. at'.client = "auth" => Len(net'.server) <= 1
    BY <1>1, <1>3 DEF TurnInv, EarlyTurn, Early, TcpNumbers, Shrinks
  <2>4. QED
    BY <2>1, <2>2, <2>3 DEF EarlyTurn, IsTurn
<1>9. AnswerTurn'
  BY <1>1, <1>3, AnswerKept DEF TurnInv, ServerTook
<1>10. RequestTurn'
  <2>1. Len(net'.client) = 1 /\ net'.client[1] = m
    BY <1>2, <1>3, <1>5 DEF Gains, TcpNumbers
  <2>2. net'.server # <<>> => ~IsTurn(net'.server[1])
    BY <1>1, <1>3, AnswerKept DEF TurnInv, ServerTook
  <2>3. m.type = "PASS_REQ" => mem'.given <= 2
    BY SMTT(60), <1>2, <1>3, <1>4, <1>5 DEF TcpNumbers
  <2>4. QED
    BY <2>1, <2>2, <2>3 DEF RequestTurn, IsTurn
<1>11. QED
  BY <1>6, <1>7, <1>8, <1>9, <1>10 DEF TurnInv

LEMMA ServerEndsTurn ==
  ASSUME TcpShape, TcpShape', TurnInv, SettingsStay, ServerEnds
  PROVE  TurnInv'
<1>1. TcpNumbers /\ TcpNumbers' /\ protocol' = protocol
  BY NumbersIn DEF SettingsStay
<1>2. StartTurn'
  BY <1>1 DEF TurnInv, StartTurn, ServerEnds, TcpNumbers, Shrinks, IsTurn, Early
<1>3. CountTurn'
  BY <1>1 DEF TurnInv, CountTurn, ServerEnds, TcpNumbers, Shrinks, IsTurn, Early
<1>4. EarlyTurn'
  BY <1>1 DEF TurnInv, EarlyTurn, ServerEnds, TcpNumbers, Shrinks, IsTurn, Early
<1>5. AnswerTurn'
  BY <1>1, AnswerKept DEF TurnInv, ServerEnds, ServerTook
<1>6. RequestTurn'
  BY <1>1, RequestKept DEF TurnInv, ServerEnds, ServerTook, TcpNumbers
<1>7. QED
  BY <1>2, <1>3, <1>4, <1>5, <1>6 DEF TurnInv

\* The server is past the password rounds.
LEMMA ServerLaterTurn ==
  ASSUME TcpShape, TcpShape', TurnInv, SettingsStay, at.server \in {"hello", "finished", "send"},
         at'.server \in {"finished", "send", "exit"}, at'.client = at.client,
         ServerTook, Len(net'.client) >= Len(net.client),
         \A i \in 1..Len(net.client) : net'.client[i] = net.client[i],
         \A i \in Len(net.client) + 1..Len(net'.client) : net'.client[i].type # "PASS_REQ",
         mem'.given = mem.given
  PROVE  TurnInv'
<1>1. TcpNumbers /\ TcpNumbers' /\ protocol' = protocol
  BY NumbersIn DEF SettingsStay
<1>2. StartTurn'
  BY <1>1 DEF TurnInv, StartTurn, TcpNumbers, Shrinks, IsTurn, Early
<1>3. CountTurn'
  BY <1>1 DEF TurnInv, CountTurn, TcpNumbers, Shrinks, IsTurn, Early
<1>4. EarlyTurn'
  BY <1>1 DEF TurnInv, EarlyTurn, TcpNumbers, Shrinks, IsTurn, Early
<1>5. AnswerTurn'
  BY <1>1, AnswerKept DEF TurnInv, ServerTook
<1>6. RequestTurn'
  BY <1>1, RequestKept DEF TurnInv, ServerTook
<1>7. QED
  BY <1>2, <1>3, <1>4, <1>5, <1>6 DEF TurnInv

\* With nothing on its way to the server, the client's m is the first message there.
LEMMA SpeaksFirst ==
  ASSUME TcpNumbers, TcpNumbers', net.server = <<>>, NEW m, ClientSpeaks(m)
  PROVE  /\ Len(net'.server) >= 1 /\ net'.server # <<>> /\ net'.server[1] = m
         /\ at'.client \in {"auth", "exit", "hello"}
         /\ at'.client = "hello" => protocol = "tls-like"
         /\ at'.client = "auth" => Len(net'.server) = 1
         /\ \A i \in 2..Len(net'.server) : ~IsTurn(net'.server[i])
<1>1. Len(net.server) = 0
  BY DEF TcpNumbers
<1>2. CASE at'.client \in {"auth", "exit"} /\ Gains(net.server, net'.server, m)
  BY <1>1, <1>2 DEF Gains, TcpNumbers
<1>3. CASE /\ at'.client = "hello" /\ protocol = "tls-like"
           /\ Grows(net.server, net'.server, <<m, Frame("CLIENT_HELLO")>>)
  <2>. DEFINE msgs == <<m, Frame("CLIENT_HELLO")>>
  <2>1. Len(msgs) = 2 /\ msgs[1] = m /\ msgs[2] = Frame("CLIENT_HELLO")
    OBVIOUS
  <2>2. Grows(net.server, net'.server, msgs)
    BY <1>3
  <2>. HIDE DEF msgs
  <2>3. /\ Len(net'.server) = 2 /\ net'.server[1] = m
        /\ net'.server[2] = Frame("CLIENT_HELLO")
    BY <1>1, <2>1, <2>2 DEF Grows
  <2>4. ~IsTurn(Frame("CLIENT_HELLO"))
    BY DEF IsTurn, Frame
  <2>5. \A i \in 2..Len(net'.server) : i = 2
    BY <2>3
  <2>6. net'.server # <<>>
    BY <2>3 DEF TcpNumbers
  <2>7. QED
    BY <1>3, <2>3, <2>4, <2>5, <2>6
<1>4. QED
  BY <1>2, <1>3 DEF ClientSpeaks

LEMMA ClientStartTurn ==
  ASSUME TcpShape, TurnInv, protocol \in TcpFamily, SettingsStay, TcpClientStart
  PROVE  TurnInv'
<1>1. /\ TcpShape' /\ at'.server = at.server /\ mem' = mem /\ protocol' = protocol
      /\ net.server = <<>> /\ net'.client = <<>> /\ mem.given = 0 /\ at.server = "join"
      /\ net.client = <<>>
  BY ClientStartIs DEF NoSuccess, SettingsStay, TurnInv, StartTurn
<1>2. PICK m \in TcpMessages : m.type = "JOIN_REQ" /\ ClientSpeaks(m)
  BY ClientStartIs
<1>3. TcpNumbers /\ TcpNumbers'
  BY <1>1, NumbersIn
<1>4. /\ Len(net'.server) >= 1 /\ net'.server[1] = m
      /\ at'.client \in {"auth", "exit", "hello"}
      /\ at'.client = "hello" => protocol = "tls-like"
      /\ at'.client = "auth" => Len(net'.server) = 1
      /\ \A i \in 2..Len(net'.server) : ~IsTurn(net'.server[i])
  BY <1>1, <1>2, <1>3, SpeaksFirst
<1>5. StartTurn'
  BY <1>1, <1>3, <1>4 DEF TurnInv, StartTurn
<1>6. CountTurn' /\ RequestTurn'
  BY <1>1, <1>3 DEF CountTurn, RequestTurn, TcpNumbers
<1>7. EarlyTurn'
  BY <1>1, <1>3, <1>4 DEF EarlyTurn, TcpNumbers
<1>8. AnswerTurn'
  BY <1>2, <1>4 DEF AnswerTurn, IsTurn
<1>9. QED
  BY <1>5, <1>6, <1>7, <1>8 DEF TurnInv

LEMMA ClientAnswersTurn ==
  ASSUME TcpShape, TcpShape', TurnInv, SettingsStay, at.client = "auth",
         net.client # <<>>, net.client[1].type = "PASS_REQ", Shrinks(net.client, net'.client),
         mem' = [mem EXCEPT !.given = mem.given + 1], at'.server = at.server,
         \E m \in TcpMessages : m.type = "PASS_RESP" /\ ClientSpeaks(m)
  PROVE  TurnInv'
<1>1. PICK m \in TcpMessages : m.type = "PASS_RESP" /\ ClientSpeaks(m)
  OBVIOUS
<1>2. TcpNumbers /\ TcpNumbers' /\ protocol' = protocol
  BY NumbersIn DEF SettingsStay
<1>3. mem'.given = mem.given + 1 /\ mem'.attempt = mem.attempt
  BY DEF TcpShape, TcpMem
<1>4. net.server = <<>>
  BY SMTT(60), <1>2 DEF TurnInv, AnswerTurn, RequestTurn, TcpNumbers
<1>5. /\ Len(net'.server) >= 1 /\ net'.server[1] = m
      /\ at'.client \in {"auth", "exit", "hello"}
      /\ at'.client = "hello" => protocol = "tls-like"
      /\ at'.client = "auth" => Len(net'.server) = 1
      /\ \A i \in 2..Len(net'.server) : ~IsTurn(net'.server[i])
  BY <1>1, <1>2, <1>4, SpeaksFirst
<1>6. at.server # "join"
  BY DEF TurnInv, StartTurn
<1>7. StartTurn'
  BY <1>2, <1>5, <1>6 DEF StartTurn
<1>8. CountTurn'
  BY SMTT(60), <1>2, <1>3 DEF TurnInv, CountTurn, TcpNumbers, Shrinks
<1>9. EarlyTurn'
  <2>1. Len(net'.client) = Len(net.client) - 1
    BY <1>2, ShrinksIs DEF TcpNumbers
  <2>2. at.server \in Early => Len(net.client) <= 1
    BY DEF TurnInv, EarlyTurn
  <2>3. at'.server \in Early => Len(net'.client) <= 1 /\ net'.client = <<>>
    BY <1>2, <2>1, <2>2 DEF TcpNumbers, Early
  <2>4. at'.client = "auth" => Len(net'.server) <= 1
    BY <1>5
  <2>5. QED
    BY ONLY <2>3, <2>4 DEF EarlyTurn, Early
<1>10. AnswerTurn'
  BY <1>1, <1>5 DEF AnswerTurn, IsTurn
<1>11. RequestTurn'
  <2>1. ASSUME NEW i \in 1..Len(net'.client)
        PROVE  net'.client[i].type # "PASS_REQ"
    <3>1. Len(net'.client) \in Nat /\ Len(net.client) \in Nat
      BY <1>2 DEF TcpNumbers
    <3>2. \A j \in 1..Len(net'.client) :
            net'.client[j] = net.client[j + 1] /\ j + 1 \in 1..Len(net.client) /\ j + 1 # 1
      BY <3>1, ShrinksIs
    <3>3. net'.client[i] = net.client[i + 1] /\ i + 1 \in 1..Len(net.client) /\ i + 1 # 1
      BY <3>2
    <3>4. QED
      BY <3>3 DEF TurnInv, RequestTurn
  <2>2. QED
    BY <2>1 DEF RequestTurn
<1>12. QED
  BY <1>7, <1>8, <1>9, <1>10, <1>11 DEF TurnInv

\* The client takes a message or none, and says nothing that begins a turn.
ClientQuiet ==
  /\ net'.client = net.client \/ (net.client # <<>> /\ Shrinks(net.client, net'.client))
  /\ \/ net'.server = net.server
     \/ /\ at'.client # "auth"
        /\ \E m \in TcpMessages : ~IsTurn(m) /\ Gains(net.server, net'.server, m)
  /\ at'.server = at.server
  /\ at'.client # "start" /\ (at'.client = "auth" => at.client = "auth")
  /\ at'.client \in {"hello", "finished"} => protocol = "tls-like"
  /\ mem'.given = mem.given /\ mem'.attempt = mem.attempt

LEMMA ClientQuietTurn ==
  ASSUME TcpShape, TcpShape', TurnInv, SettingsStay, ClientQuiet
  PROVE  TurnInv'
<1>1. TcpNumbers /\ TcpNumbers' /\ protocol' = protocol
  BY NumbersIn DEF SettingsStay
<1>2. /\ Len(net'.client) <= Len(net.client)
      /\ net.client = <<>> => net'.client = <<>>
      /\ \A i \in 1..Len(net'.client) :
           \/ net'.client[i] = net.client[i]
           \/ net'.client[i] = net.client[i + 1] /\ i + 1 \in 1..Len(net.client)
  <2>1. CASE net'.client = net.client
    BY <1>1, <2>1 DEF TcpNumbers
  <2>2. CASE net.client # <<>> /\ Shrinks(net.client, net'.client)
    <3>1. /\ Len(net'.client) = Len(net.client) - 1
          /\ \A i \in 1..Len(net'.client) :
               net'.client[i] = net.client[i + 1] /\ i + 1 \in 1..Len(net.client)
      BY SMTT(60), <1>1, <2>2, ShrinksIs DEF TcpNumbers
    <3>2. QED
      BY <1>1, <2>2, <3>1 DEF TcpNumbers
  <2>3. QED
    BY <2>1, <2>2 DEF ClientQuiet
<1>3. /\ net'.server # <<>> /\ IsTurn(net'.server[1])
          => net.server # <<>> /\ net'.server[1] = net.server[1]
      /\ \A i \in 1..Len(net'.server) : IsTurn(net'.server[i])
          => i \in 1..Len(net.server) /\ net'.server[i] = net.server[i]
      /\ at'.client = "auth" => net'.server = net.server /\ at.client = "auth"
  <2>1. CASE net'.server = net.server
    BY <2>1 DEF ClientQuiet
  <2>2. CASE /\ at'.client # "auth"
             /\ \E m \in TcpMessages : ~IsTurn(m) /\ Gains(net.server, net'.server, m)
    <3>1. PICK m \in TcpMessages : ~IsTurn(m) /\ Gains(net.server, net'.server, m)
      BY <2>2
    <3>2. ASSUME NEW i \in 1..Len(net'.server), IsTurn(net'.server[i])
          PROVE  i \in 1..Len(net.server) /\ net'.server[i] = net.server[i]
      <4>1. i \in 1..Len(net.server) \/ i = Len(net.server) + 1
        BY <1>1, <3>1 DEF Gains, TcpNumbers
      <4>2. QED
        BY <3>1, <3>2, <4>1 DEF Gains, IsTurn
    <3>3. net'.server # <<>> => 1 \in 1..Len(net'.server)
      BY <1>1 DEF TcpNumbers
    <3>4. 1 \in 1..Len(net.server) => net.server # <<>>
      BY <1>1 DEF TcpNumbers
    <3>5. QED
      BY <2>2, <3>2, <3>3, <3>4
  <2>3. QED
    BY <2>1, <2>2 DEF ClientQuiet
<1>4. StartTurn'
  BY <1>1, <1>2 DEF TurnInv, StartTurn, ClientQuiet
<1>5. CountTurn'
  <2>1. at.server = "auth" => mem.attempt <= 2 /\ mem.given + Len(net.client) <= mem.attempt + 1
    BY DEF TurnInv, CountTurn
  <2>2. at'.server = at.server /\ mem'.given = mem.given /\ mem'.attempt = mem.attempt
    BY DEF ClientQuiet
  <2>3. Len(net'.client) <= Len(net.client) /\ Len(net.client) \in Nat /\ Len(net'.client) \in Nat
    BY <1>1, <1>2 DEF TcpNumbers
  <2>4. mem.given \in Nat /\ mem.attempt \in Nat
    BY SMTT(60), <1>1 DEF TcpNumbers
  <2>5. QED
    BY <2>1, <2>2, <2>3, <2>4 DEF CountTurn
<1>6. EarlyTurn'
  BY <1>1, <1>2, <1>3 DEF TurnInv, EarlyTurn, ClientQuiet, TcpNumbers, IsTurn
<1>7. AnswerTurn'
  <2>1. ASSUME NEW i \in 2..Len(net'.server)
        PROVE  ~IsTurn(net'.server[i])
    <3>1. i \in 1..Len(net'.server)
      BY <1>1 DEF TcpNumbers
    <3>2. IsTurn(net'.server[i]) => i \in 2..Len(net.server) /\ net'.server[i] = net.server[i]
      BY <1>1, <1>3, <3>1 DEF TcpNumbers
    <3>3. QED
      BY <3>2 DEF TurnInv, AnswerTurn
  <2>2. at'.client = "auth" => \A i \in 1..Len(net'.server) : IsTurn(net'.server[i])
    BY <1>3 DEF TurnInv, AnswerTurn
  <2>3. QED
    BY <2>1, <2>2 DEF AnswerTurn, IsTurn
<1>8. RequestTurn'
  <2>. SUFFICES ASSUME NEW i \in 1..Len(net'.client), net'.client[i].type = "PASS_REQ"
                PROVE  /\ i = 1 /\ mem.given <= 2
                       /\ net'.server # <<>> => ~IsTurn(net'.server[1])
    BY DEF RequestTurn, IsTurn, ClientQuiet
  <2>1. i \in 1..Len(net.client) /\ i + 1 # 1
    BY SMTT(60), <1>1, <1>2 DEF TcpNumbers
  <2>2. net.client[i].type = "PASS_REQ"
    BY <1>2, <2>1 DEF TurnInv, RequestTurn
  <2>3. QED
    BY <1>3, <2>1, <2>2 DEF TurnInv, RequestTurn
<1>9. QED
  BY <1>4, <1>5, <1>6, <1>7, <1>8 DEF TurnInv

\* The secret.  Before the transfer the server answers a turn of the client.
LEMMA EarlySecret ==
  ASSUME TcpShape, TcpShape', SecretInv, SettingsStay, NEW m \in TcpMessages,
         at.server \in {"join", "auth"}, net.client = <<>>, at'.client = at.client,
         Gains(net.client, net'.client, m), Shrinks(net.server, net'.server),
         m.type \in {"PASS_REQ", "PASS_ACCEPT", "REJECT"},
         m.type = "PASS_ACCEPT" => mem'.authed, mem'.sent = mem.sent,
         at'.server \in {"auth", "hello", "send", "exit"},
         at'.server = "auth" => ~mem'.authed, at'.server = "hello" => protocol = "tls-like",
         at'.server = "send" =>
           protocol # "tls-like" /\ (mem'.authed \/ (protocol = "tcp-basic" /\ "server" \in stopped'))
  PROVE  SecretInv'
<1>1. TcpNumbers /\ TcpNumbers' /\ protocol' = protocol
  BY NumbersIn DEF SettingsStay
<1>2. ~mem.authed /\ mem.sent = 0
  BY DEF SecretInv, LetInInv, Early
<1>3. Len(net'.client) = 1 /\ net'.client[1] = m /\ net'.client # <<>>
      /\ \A i \in 1..Len(net'.client) : i = 1
  BY <1>1 DEF Gains, TcpNumbers
<1>4. LetInInv'
  BY <1>1, <1>2, <1>3 DEF LetInInv, TcpNumbers
<1>5. HandshakeInv'
  <2>. SUFFICES ASSUME protocol = "tls-like"
                PROVE  HandshakeInv'
    BY <1>1 DEF HandshakeInv
  <2>1. Len(net'.server) \in Nat /\ Len(net.server) \in Nat
    BY <1>1 DEF TcpNumbers
  <2>2. \A i \in 1..Len(net'.server) :
          net'.server[i] = net.server[i + 1] /\ i + 1 \in 1..Len(net.server)
    BY <2>1, ShrinksIs
  <2>3. \A i \in 1..Len(net'.server) : net'.server[i].type # "FINISHED"
    BY <1>2, <2>2 DEF SecretInv, HandshakeInv
  <2>4. QED
    BY <1>1, <1>3, <2>3 DEF HandshakeInv, TcpNumbers
<1>6. QED
  BY <1>4, <1>5 DEF SecretInv

LEMMA JoinSecret ==
  ASSUME TcpShape, TurnInv, SecretInv, protocol \in TcpFamily, SettingsStay, TcpServerJoin
  PROVE  SecretInv'
<1>1. /\ TcpShape'
      /\ at.server = "join" /\ Shrinks(net.server, net'.server)
      /\ at'.client = at.client /\ at'.server \in {"auth", "hello", "send"}
      /\ at'.server = "hello" => protocol = "tls-like"
      /\ at'.server = "send" => protocol = "tcp-basic" /\ "server" \in stopped'
      /\ mem' = mem
  BY JoinIs
<1>2. PICK m \in TcpMessages : m.type = "PASS_REQ" /\ Gains(net.client, net'.client, m)
  BY JoinIs
<1>3. net.client = <<>> /\ ~mem.authed
  BY <1>1 DEF TurnInv, StartTurn, SecretInv, LetInInv
<1>4. QED
  BY <1>1, <1>2, <1>3, EarlySecret

LEMMA PasswordSecret ==
  ASSUME TcpShape, TurnInv, SecretInv, protocol \in TcpFamily, SettingsStay, TcpServerPassword
  PROVE  SecretInv'
<1>1. /\ TcpShape'
      /\ at.server = "auth" /\ net.server # <<>> /\ IsTurn(net.server[1])
      /\ Shrinks(net.server, net'.server) /\ at'.client = at.client
      /\ mem' = [mem EXCEPT !.attempt = mem.attempt + 1, !.authed = mem'.authed]
  BY PasswordIs
<1>2. PICK m \in TcpMessages :
        /\ Gains(net.client, net'.client, m)
        /\ \/ /\ m.type = "PASS_ACCEPT" /\ mem'.authed
              /\ at'.server = IF protocol = "tls-like" THEN "hello" ELSE "send"
           \/ m.type = "REJECT" /\ ~mem'.authed /\ at'.server = "exit"
           \/ /\ m.type = "PASS_REQ" /\ ~mem'.authed /\ mem'.attempt <= 2
              /\ at'.server \in {"auth", "hello", "send"}
              /\ at'.server = "hello" => protocol = "tls-like"
              /\ at'.server = "send" => protocol = "tcp-basic" /\ "server" \in stopped'
  BY PasswordIs
<1>3. net.client = <<>>
  BY <1>1 DEF TurnInv, EarlyTurn, Early
<1>4. mem'.sent = mem.sent
  BY <1>1 DEF TcpShape, TcpMem
<1>5. /\ m.type \in {"PASS_REQ", "PASS_ACCEPT", "REJECT"}
      /\ m.type = "PASS_ACCEPT" => mem'.authed
      /\ at'.server \in {"auth", "hello", "send", "exit"}
      /\ at'.server = "auth" => ~mem'.authed /\ at'.server = "auth"
      /\ at'.server = "hello" => protocol = "tls-like"
      /\ at'.server = "send" =>
           protocol # "tls-like" /\ (mem'.authed \/ (protocol = "tcp-basic" /\ "server" \in stopped'))
  BY <1>2
<1>6. QED
  BY <1>1, <1>2, <1>3, <1>4, <1>5, EarlySecret

LEMMA ServerEndsSecret ==
  ASSUME TcpShape, TcpShape', SecretInv, SettingsStay, ServerEnds
  PROVE  SecretInv'
<1>1. TcpNumbers /\ TcpNumbers' /\ protocol' = protocol
  BY NumbersIn DEF SettingsStay
<1>2. \A i \in 1..Len(net'.server) :
        \E j \in 1..Len(net.server) : net'.server[i] = net.server[j]
  <2>1. Len(net'.server) \in Nat /\ Len(net.server) \in Nat
    BY <1>1 DEF TcpNumbers
  <2>2. CASE Shrinks(net.server, net'.server)
    BY <2>1, <2>2, ShrinksIs
  <2>3. QED
    BY <2>2 DEF ServerEnds
<1>3. LetInInv'
  BY <1>1 DEF SecretInv, LetInInv, ServerEnds, TcpNumbers, Early
<1>4. HandshakeInv'
  BY <1>1, <1>2 DEF SecretInv, HandshakeInv, ServerEnds, TcpNumbers, IsTurn
<1>5. QED
  BY <1>3, <1>4 DEF SecretInv

LEMMA ServerHelloSecret ==
  ASSUME TcpShape, TurnInv, SecretInv, protocol \in TcpFamily, SettingsStay, TlsServerHello
  PROVE  SecretInv'
<1>1. /\ TcpShape'
      /\ at.server = "hello" /\ net.server # <<>> /\ net.server[1].type = "CLIENT_HELLO"
      /\ Shrinks(net.server, net'.server)
      /\ at'.server = "finished" /\ at'.client = at.client /\ mem' = mem /\ protocol' = protocol
  BY ServerHelloIs DEF SettingsStay
<1>2. PICK m \in TcpMessages : m.type = "SERVER_HELLO" /\ Gains(net.client, net'.client, m)
  BY ServerHelloIs
<1>3. TcpNumbers /\ TcpNumbers'
  BY <1>1, NumbersIn
<1>4. at.client # "auth" /\ ~IsTurn(net.server[1]) /\ protocol = "tls-like"
  <2>1. ~IsTurn(net.server[1])
    BY <1>1 DEF IsTurn
  <2>2. 1 \in 1..Len(net.server)
    BY <1>1, <1>3 DEF TcpNumbers
  <2>3. QED
    BY <1>1, <2>1, <2>2 DEF TurnInv, AnswerTurn, SecretInv, LetInInv
<1>5. \A i \in 1..Len(net'.client) :
        \/ i \in 1..Len(net.client) /\ net'.client[i] = net.client[i]
        \/ net'.client[i].type = "SERVER_HELLO"
  <2>1. ASSUME NEW i \in 1..Len(net'.client)
        PROVE  i \in 1..Len(net.client) \/ i = Len(net.client) + 1
    BY <1>2, <1>3 DEF Gains, TcpNumbers
  <2>2. QED
    BY <1>2, <2>1 DEF Gains
<1>6. \A i \in 1..Len(net'.server) :
        net'.server[i] = net.server[i + 1] /\ i + 1 \in 1..Len(net.server)
  <2>1. Len(net'.server) \in Nat /\ Len(net.server) \in Nat
    BY <1>3 DEF TcpNumbers
  <2>2. QED
    BY <1>1, <2>1, ShrinksIs
<1>7. LetInInv'
  BY <1>1, <1>4, <1>5 DEF SecretInv, LetInInv, Early
<1>8. HandshakeInv'
  <2>1. \A i \in 1..Len(net'.server) : net'.server[i].type = "FINISHED" => mem.authed
    BY <1>4, <1>6 DEF SecretInv, HandshakeInv
  <2>2. at.client = "hello" /\ ~mem.authed =>
          net.client # <<>> /\ net.client[1].type # "SERVER_HELLO"
    BY <1>1, <1>4 DEF SecretInv, HandshakeInv
  <2>3. net.client # <<>> => net'.client # <<>> /\ net'.client[1] = net.client[1]
    BY <1>2, <1>3 DEF Gains, TcpNumbers
  <2>4. QED
    BY <1>1, <1>4, <2>1, <2>2, <2>3 DEF HandshakeInv
<1>9. QED
  BY <1>7, <1>8 DEF SecretInv

\* Once the transfer has begun, the secret has been given.
LEMMA LaterSecret ==
  ASSUME TcpShape, TcpShape', SecretInv, protocol \in TcpFamily, SettingsStay,
         at.server \in {"finished", "send"},
         at.server = "finished" => net.server # <<>> /\ net.server[1].type = "FINISHED",
         at'.server \in {"send", "exit"}, at'.client = at.client, ServerTook,
         \A i \in 1..Len(net'.client) :
           \/ i \in 1..Len(net.client) /\ net'.client[i] = net.client[i]
           \/ net'.client[i].type # "PASS_ACCEPT",
         mem'.authed = mem.authed, stopped' = stopped
  PROVE  SecretInv'
<1>1. TcpNumbers /\ TcpNumbers' /\ protocol' = protocol
  BY NumbersIn DEF SettingsStay
<1>2. mem.authed \/ (protocol = "tcp-basic" /\ "server" \in stopped)
  BY <1>1 DEF SecretInv, LetInInv, HandshakeInv, TcpNumbers
<1>3. LetInInv'
  BY <1>1, <1>2 DEF SecretInv, LetInInv, Early, TcpNumbers
<1>4. HandshakeInv'
  BY <1>1, <1>2 DEF SecretInv, HandshakeInv, TcpNumbers
<1>5. QED
  BY <1>3, <1>4 DEF SecretInv

\* What the client has not taken yet was there before.
LEMMA ClientChannelKept ==
  ASSUME TcpNumbers, TcpNumbers',
         net'.client = net.client \/ (net.client # <<>> /\ Shrinks(net.client, net'.client))
  PROVE  \A i \in 1..Len(net'.client) :
           \E j \in 1..Len(net.client) : net'.client[i] = net.client[j]
<1>1. Len(net'.client) \in Nat /\ Len(net.client) \in Nat
  BY DEF TcpNumbers
<1>2. CASE Shrinks(net.client, net'.client)
  BY <1>1, <1>2, ShrinksIs
<1>3. QED
  BY <1>2

LEMMA ClientLetIn ==
  ASSUME TcpNumbers, TcpNumbers', LetInInv, SettingsStay,
         net'.client = net.client \/ (net.client # <<>> /\ Shrinks(net.client, net'.client)),
         at'.server = at.server, mem'.authed = mem.authed, mem'.sent = mem.sent,
         stopped \subseteq stopped'
  PROVE  LetInInv'
<1>1. protocol' = protocol
  BY DEF SettingsStay
<1>2. \A i \in 1..Len(net'.client) :
        \E j \in 1..Len(net.client) : net'.client[i] = net.client[j]
  BY ClientChannelKept
<1>3. \A i \in 1..Len(net'.client) : net'.client[i].type = "PASS_ACCEPT" => mem.authed
  BY <1>2 DEF LetInInv
<1>4. QED
  BY <1>1, <1>3 DEF LetInInv, Early

\* The client's messages that are not FINISHED.
LEMMA ClientSaysNoFinished ==
  ASSUME TcpNumbers, TcpNumbers', NEW m, m.type # "FINISHED",
         net'.server = net.server \/ Gains(net.server, net'.server, m) \/ ClientSpeaks(m)
  PROVE  \A i \in 1..Len(net'.server) :
           \/ i \in 1..Len(net.server) /\ net'.server[i] = net.server[i]
           \/ net'.server[i].type # "FINISHED"
<1>1. CASE net'.server = net.server
  BY <1>1
<1>2. CASE Gains(net.server, net'.server, m)
  <2>1. ASSUME NEW i \in 1..Len(net'.server)
        PROVE  i \in 1..Len(net.server) \/ i = Len(net.server) + 1
    BY <1>2 DEF Gains, TcpNumbers
  <2>2. QED
    BY <1>2, <2>1 DEF Gains
<1>3. CASE Grows(net.server, net'.server, <<m, Frame("CLIENT_HELLO")>>)
  <2>. DEFINE hello == Frame("CLIENT_HELLO")
              msgs == <<m, hello>>
  <2>1. hello.type # "FINISHED"
    BY DEF Frame
  <2>. HIDE DEF hello
  <2>2. Len(msgs) = 2 /\ msgs[1] = m /\ msgs[2] = hello
    OBVIOUS
  <2>3. Grows(net.server, net'.server, msgs)
    BY <1>3 DEF hello
  <2>. HIDE DEF msgs
  <2>4. /\ Len(net'.server) = Len(net.server) + 2
        /\ \A i \in 1..Len(net.server) : net'.server[i] = net.server[i]
        /\ net'.server[Len(net.server) + 1] = m /\ net'.server[Len(net.server) + 2] = hello
    BY <2>2, <2>3 DEF Grows
  <2>5. ASSUME NEW i \in 1..Len(net'.server)
        PROVE  i \in 1..Len(net.server) \/ i = Len(net.server) + 1 \/ i = Len(net.server) + 2
    <3>1. /\ Len(net'.server) = Len(net.server) + 2
          /\ Len(net.server) \in Nat /\ Len(net'.server) \in Nat
      BY <2>4 DEF TcpNumbers
    <3>2. QED
      BY ONLY <3>1, i \in 1..Len(net'.server)
  <2>6. QED
    BY <2>1, <2>4, <2>5
<1>4. QED
  BY <1>1, <1>2, <1>3 DEF ClientSpeaks

LEMMA ClientStartSecret ==
  ASSUME TcpShape, TurnInv, SecretInv, protocol \in TcpFamily, SettingsStay, TcpClientStart
  PROVE  SecretInv'
<1>1. /\ TcpShape' /\ at'.server = at.server /\ mem' = mem /\ protocol' = protocol
      /\ net.server = <<>> /\ net'.client = <<>> /\ at.server = "join"
      /\ net'.client = net.client /\ stopped \subseteq stopped'
  BY ClientStartIs DEF NoSuccess, SettingsStay, TurnInv, StartTurn
<1>2. PICK m \in TcpMessages : m.type = "JOIN_REQ" /\ ClientSpeaks(m)
  BY ClientStartIs
<1>3. TcpNumbers /\ TcpNumbers'
  BY <1>1, NumbersIn
<1>4. LetInInv'
  BY <1>1, <1>3, ClientLetIn DEF SecretInv
<1>5. net'.server # <<>> /\ IsTurn(net'.server[1])
  BY <1>1, <1>2, <1>3, SpeaksFirst DEF IsTurn
<1>6. \A i \in 1..Len(net'.server) :
        \/ i \in 1..Len(net.server) /\ net'.server[i] = net.server[i]
        \/ net'.server[i].type # "FINISHED"
  BY <1>2, <1>3, ClientSaysNoFinished
<1>7. HandshakeInv'
  BY <1>1, <1>3, <1>5, <1>6 DEF HandshakeInv, SecretInv, IsTurn, TcpNumbers
<1>8. QED
  BY <1>4, <1>7 DEF SecretInv

LEMMA ClientAuthSecret ==
  ASSUME TcpShape, TurnInv, SecretInv, protocol \in TcpFamily, SettingsStay, TcpClientAuth
  PROVE  SecretInv'
<1>1. /\ TcpShape' /\ at'.server = at.server /\ protocol' = protocol
      /\ at.client = "auth" /\ net.client # <<>> /\ Shrinks(net.client, net'.client)
      /\ stopped \subseteq stopped'
  BY ClientAuthIs DEF NoSuccess, SettingsStay
<1>2. \/ /\ net.client[1].type = "PASS_REQ"
         /\ mem' = [mem EXCEPT !.given = mem.given + 1]
         /\ \E m \in TcpMessages : m.type = "PASS_RESP" /\ ClientSpeaks(m)
      \/ /\ net.client[1].type = "PASS_ACCEPT" /\ mem' = mem /\ ClientMaySayHello
         /\ at'.client # "auth"
      \/ /\ net.client[1].type \notin {"PASS_REQ", "PASS_ACCEPT"} /\ mem' = mem
         /\ ClientMaySayHello
         /\ at'.client \in {"auth", "hello"} => net.client[1].type # "REJECT"
  BY ClientAuthIs
<1>3. TcpNumbers /\ TcpNumbers'
  BY <1>1, NumbersIn
<1>4. mem'.authed = mem.authed /\ mem'.sent = mem.sent
  BY <1>2 DEF TcpShape, TcpMem
<1>5. LetInInv'
  BY <1>1, <1>3, <1>4, ClientLetIn DEF SecretInv
<1>6. HandshakeInv'
  <2>. SUFFICES ASSUME protocol = "tls-like"
                PROVE  HandshakeInv'
    BY <1>1 DEF HandshakeInv
  <2>1. /\ Len(net.client) = 1 /\ at.server \notin {"finished", "send"}
        /\ net.client[1].type \in {"PASS_REQ", "PASS_ACCEPT", "REJECT"}
    <3>1. Len(net.client) <= 1 /\ Len(net.client) \in Nat /\ Len(net.client) # 0
      BY <1>1, <1>3 DEF SecretInv, HandshakeInv, TcpNumbers
    <3>2. 1 \in 1..Len(net.client) /\ Len(net.client) = 1
      <4>. DEFINE n == Len(net.client)
      <4>1. n <= 1 /\ n \in Nat /\ n # 0
        BY <3>1
      <4>. HIDE DEF n
      <4>2. n = 1 /\ 1 \in 1..n
        BY <4>1
      <4>3. QED
        BY <4>2 DEF n
    <3>3. QED
      BY <1>1, <3>2 DEF SecretInv, HandshakeInv
  <2>2. Len(net'.client) = 0 /\ net'.client = <<>>
    BY <1>1, <1>3, <2>1 DEF Shrinks, TcpNumbers
  <2>3. \A i \in 1..Len(net.server) : net.server[i].type = "FINISHED" => mem.authed
    BY DEF SecretInv, HandshakeInv
  <2>4. CASE /\ net.client[1].type = "PASS_REQ"
             /\ \E m \in TcpMessages : m.type = "PASS_RESP" /\ ClientSpeaks(m)
    <3>1. PICK m \in TcpMessages : m.type = "PASS_RESP" /\ ClientSpeaks(m)
      BY <2>4
    <3>2. net.server = <<>>
      BY <1>1, <1>3, <2>1, <2>4 DEF TurnInv, AnswerTurn, RequestTurn, TcpNumbers
    <3>3. net'.server # <<>> /\ IsTurn(net'.server[1])
      BY <1>3, <3>1, <3>2, SpeaksFirst DEF IsTurn
    <3>4. \A i \in 1..Len(net'.server) :
            \/ i \in 1..Len(net.server) /\ net'.server[i] = net.server[i]
            \/ net'.server[i].type # "FINISHED"
      BY <1>3, <3>1, ClientSaysNoFinished
    <3>5. QED
      BY <1>1, <1>4, <2>1, <2>2, <2>3, <3>3, <3>4 DEF HandshakeInv, IsTurn
  <2>5. CASE /\ net.client[1].type # "PASS_REQ" /\ ClientMaySayHello
             /\ at'.client = "hello" => net.client[1].type = "PASS_ACCEPT"
    <3>1. at'.client = "hello" => mem.authed
      BY <2>1, <2>5 DEF SecretInv, LetInInv
    <3>2. PICK m : /\ m.type # "FINISHED"
                   /\ net'.server = net.server \/ Gains(net.server, net'.server, m)
      <4>1. Frame("CLIENT_HELLO").type # "FINISHED"
        BY DEF Frame
      <4>2. QED
        BY <2>5, <4>1 DEF ClientMaySayHello
    <3>3. \A i \in 1..Len(net'.server) :
            \/ i \in 1..Len(net.server) /\ net'.server[i] = net.server[i]
            \/ net'.server[i].type # "FINISHED"
      BY <1>3, <3>2, ClientSaysNoFinished
    <3>4. QED
      BY <1>1, <1>4, <2>1, <2>2, <2>3, <3>1, <3>3 DEF HandshakeInv, IsTurn
  <2>6. QED
    BY <1>2, <2>1, <2>4, <2>5
<1>7. QED
  BY <1>5, <1>6 DEF SecretInv

LEMMA ClientHelloSecret ==
  ASSUME TcpShape, SecretInv, TurnInv, protocol \in TcpFamily, SettingsStay, TlsClientHello
  PROVE  SecretInv'
<1>1. /\ TcpShape' /\ at'.server = at.server /\ protocol' = protocol
      /\ at.client = "hello" /\ net.client # <<>> /\ Shrinks(net.client, net'.client)
      /\ mem' = mem /\ stopped' = stopped
      /\ \/ /\ net.client[1].type = "SERVER_HELLO" /\ at'.client = "finished"
            /\ \E m \in TcpMessages : m.type = "FINISHED" /\ Gains(net.server, net'.server, m)
         \/ at'.client = "exit" /\ net'.server = net.server
  BY ClientHelloIs DEF NoSuccess, SettingsStay
<1>2. TcpNumbers /\ TcpNumbers'
  BY <1>1, NumbersIn
<1>3. LetInInv'
  BY <1>1, <1>2, ClientLetIn DEF SecretInv
<1>4. protocol = "tls-like"
  BY <1>1 DEF TurnInv, StartTurn
<1>5. net'.server = net.server \/ mem.authed
  BY <1>1, <1>2, <1>4 DEF SecretInv, HandshakeInv, TcpNumbers
<1>6. HandshakeInv'
  BY <1>1, <1>4, <1>5 DEF SecretInv, HandshakeInv
<1>7. QED
  BY <1>3, <1>6 DEF SecretInv

\* The client is past the handshake, or ends.
LEMMA ClientLaterSecret ==
  ASSUME TcpShape, TcpShape', SecretInv, SettingsStay,
         net'.client = net.client \/ (net.client # <<>> /\ Shrinks(net.client, net'.client)),
         at'.server = at.server, mem'.authed = mem.authed, mem'.sent = mem.sent,
         stopped \subseteq stopped', net'.server = net.server, at'.client \in {"data", "exit"}
  PROVE  SecretInv'
<1>1. TcpNumbers /\ TcpNumbers' /\ protocol' = protocol
  BY NumbersIn DEF SettingsStay
<1>2. LetInInv'
  BY <1>1, ClientLetIn DEF SecretInv
<1>3. HandshakeInv'
  BY <1>1 DEF SecretInv, HandshakeInv
<1>4. QED
  BY <1>2, <1>3 DEF SecretInv

\* The file.  Before the transfer nothing has been sent and nothing is on its way.
LEMMA EarlySequence ==
  ASSUME TcpShape, TcpShape', LetInInv, SequenceInv, SettingsStay, NEW m \in TcpMessages,
         at.server \in Early \cup {"finished"}, at'.client = at.client,
         Gains(net.client, net'.client, m), Opens(m) => at'.server \in {"send", "exit"},
         mem'.sent = mem.sent, mem'.seen = mem.seen, written' = written
  PROVE  SequenceInv'
<1>1. /\ TcpNumbers /\ TcpNumbers'
      /\ protocol' = protocol /\ scenario' = scenario /\ content' = content
  BY NumbersIn DEF SettingsStay
<1>2. mem.sent = 0 /\ Len(written) = 0
  BY <1>1 DEF LetInInv, SequenceInv, WrittenInv, TcpNumbers
<1>3. /\ at.client # "data"
      /\ at.client # "exit" => \A g \in 1..Len(net.client) : ~Opens(net.client[g])
  BY DEF SequenceInv, StreamInv, StreamBehind, Early
<1>4. WrittenInv'
  BY <1>1, <1>2 DEF SequenceInv, WrittenInv
<1>5. StreamInv'
  <2>. SUFFICES ASSUME at.client \notin {"data", "exit"}, NEW g \in 1..Len(net'.client),
                       Opens(net.client[g])'
                PROVE  StreamBehind(g)'
    BY <1>3 DEF StreamInv
  <2>1. g \in 1..Len(net.client) \/ g = Len(net.client) + 1
    BY <1>1 DEF Gains, TcpNumbers
  <2>2. g = Len(net.client) + 1 /\ Opens(m)
    BY <1>1, <1>3, <2>1 DEF Gains, Opens
  <2>3. Len(net'.client) = g /\ g \in Nat
    BY <1>1, <2>2 DEF Gains, TcpNumbers
  <2>4. \A i \in g + 1..Len(net'.client) : FALSE
    BY <2>3
  <2>5. mem'.sent = Len(written') + Len(net'.client) - g
    BY <1>2, <2>3
  <2>6. QED
    BY <2>2, <2>4, <2>5 DEF StreamBehind
<1>6. QED
  BY <1>4, <1>5 DEF SequenceInv

\* The client's channel as it was, and the server ends.
LEMMA ServerEndsSequence ==
  ASSUME TcpShape, TcpShape', SequenceInv, SettingsStay, ServerEnds
  PROVE  SequenceInv'
<1>1. /\ protocol' = protocol /\ scenario' = scenario /\ content' = content
      /\ at'.server = "exit" /\ at'.client = at.client /\ net'.client = net.client
      /\ mem' = mem /\ written' = written
  BY DEF SettingsStay, ServerEnds
<1>2. WrittenInv'
  BY <1>1 DEF SequenceInv, WrittenInv
<1>3. ASSUME NEW g, StreamBehind(g)
      PROVE  StreamBehind(g)'
  BY <1>1, <1>3 DEF StreamBehind, InStream, Untampered
<1>4. StreamInv'
  BY <1>1, <1>3 DEF SequenceInv, StreamInv, Opens
<1>5. QED
  BY <1>2, <1>4 DEF SequenceInv

\* A stream that grows by what the server sends of the file, or by what ends it.
LEMMA StreamGrows ==
  ASSUME TcpShape, TcpShape', SettingsStay, NEW g \in Nat, g <= Len(net.client),
         StreamBehind(g), mem'.sent >= mem.sent, written' = written,
         at'.server \in {"send", "exit"}, Len(net'.client) >= Len(net.client),
         \A i \in 1..Len(net.client) : net'.client[i] = net.client[i],
         \A i \in Len(net.client) + 1..Len(net'.client) :
           InStream(net.client[i], Len(written) + i - g)',
         at'.server = "send" => mem'.sent = Len(written) + Len(net'.client) - g
  PROVE  StreamBehind(g)'
<1>1. /\ protocol' = protocol /\ scenario' = scenario /\ content' = content
      /\ TcpNumbers /\ TcpNumbers'
  BY NumbersIn DEF SettingsStay
<1>2. ASSUME NEW i \in g + 1..Len(net'.client)
      PROVE  InStream(net.client[i], Len(written) + i - g)'
  <2>1. i \in g + 1..Len(net.client) \/ i \in Len(net.client) + 1..Len(net'.client)
    BY <1>1 DEF TcpNumbers
  <2>2. CASE i \in g + 1..Len(net.client)
    <3>. DEFINE k == Len(written) + i - g
    <3>1. i \in 1..Len(net.client) /\ k \in Int /\ mem.sent \in Nat /\ mem'.sent \in Nat
      BY <1>1, <2>2 DEF TcpNumbers
    <3>2. InStream(net.client[i], k)
      BY <2>2 DEF StreamBehind
    <3>3. net'.client[i] = net.client[i] /\ net.client[i] \in TcpMessages
      BY <3>1 DEF TcpShape, Channels
    <3>4. net.client[i].type = "APP_DATA" => net.client[i].seq \in Nat
      BY <3>3, TcpFields
    <3>5. (Len(written) + i - g)' = k
      OBVIOUS
    <3>. HIDE DEF k
    <3>. DEFINE m == net.client[i]
    <3>6. m.type = "DATA" =>
            protocol' = "tcp-basic" /\ k <= mem'.sent /\ m.unit = content'[k]
      BY <1>1, <3>1, <3>2 DEF InStream
    <3>7. m.type = "APP_DATA" => m.seq <= mem'.sent
      BY <3>1, <3>2, <3>4 DEF InStream
    <3>8. m.type = "APP_DATA" =>
            /\ protocol' = "tls-like" /\ m.seq <= k /\ m.unit = content'[m.seq]
            /\ m.mac => Untampered(m.seq)
      BY <1>1, <3>2 DEF InStream
    <3>9. Untampered(m.seq) => ~(scenario' = "tampered-app-data" /\ m.seq = 1)
      BY <1>1 DEF Untampered
    <3>10. net'.client[i] = m
      BY <3>3
    <3>. HIDE DEF m
    <3>11. QED
      BY <3>5, <3>6, <3>7, <3>8, <3>9, <3>10 DEF InStream, Untampered
  <2>3. QED
    BY <2>1, <2>2
<1>3. QED
  BY <1>2 DEF StreamBehind

LEMMA SendsUnitSequence ==
  ASSUME TcpShape, TurnInv, SequenceInv, protocol \in TcpFamily, SettingsStay, TcpServerSendsUnit
  PROVE  SequenceInv'
<1>1. /\ TcpShape' /\ at.server = "send" /\ mem.sent < Len(content)
      /\ mem' = [mem EXCEPT !.sent = mem.sent + 1]
      /\ at'.server \in {"send", "exit"} /\ at'.client = at.client
      /\ protocol = "tls-like" /\ scenario = "replay" /\ mem.sent = 0 => at'.server = "exit"
      /\ written' = written
      /\ protocol' = protocol /\ scenario' = scenario /\ content' = content
  BY SendsUnitIs DEF SettingsStay
<1>2. PICK m \in TcpMessages :
        /\ CarriesUnit(m, mem.sent + 1)
        /\ \/ Gains(net.client, net'.client, m)
           \/ /\ Grows(net.client, net'.client, <<m, m>>) /\ at'.server = "exit"
              /\ protocol = "tls-like"
  BY SendsUnitIs
<1>3. TcpNumbers /\ TcpNumbers'
  BY <1>1, NumbersIn
<1>4. mem'.sent = mem.sent + 1 /\ mem'.seen = mem.seen /\ mem.sent \in Nat
  BY <1>1 DEF TcpShape, TcpMem
<1>5. WrittenInv'
  BY <1>1, <1>3, <1>4 DEF SequenceInv, WrittenInv, TcpNumbers
<1>6. /\ Len(net'.client) >= Len(net.client)
      /\ \A i \in 1..Len(net.client) : net'.client[i] = net.client[i]
      /\ \A i \in Len(net.client) + 1..Len(net'.client) :
           net'.client[i] = m /\ (i = Len(net.client) + 1 \/ protocol = "tls-like")
      /\ at'.server = "send" => Len(net'.client) = Len(net.client) + 1
  <2>1. CASE Gains(net.client, net'.client, m)
    BY <1>3, <2>1 DEF Gains, TcpNumbers
  <2>2. CASE /\ Grows(net.client, net'.client, <<m, m>>) /\ at'.server = "exit"
             /\ protocol = "tls-like"
    <3>. DEFINE msgs == <<m, m>>
                n == Len(net.client)
    <3>1. Len(msgs) = 2 /\ msgs[1] = m /\ msgs[2] = m
      OBVIOUS
    <3>2. Grows(net.client, net'.client, msgs)
      BY <2>2
    <3>. HIDE DEF msgs
    <3>3. /\ Len(net'.client) = n + 2 /\ n \in Nat
          /\ \A i \in 1..n : net'.client[i] = net.client[i]
          /\ net'.client[n + 1] = m /\ net'.client[n + 2] = m
      BY <1>3, <3>1, <3>2 DEF Grows, TcpNumbers
    <3>. HIDE DEF n
    <3>4. \A i \in n + 1..n + 2 : i = n + 1 \/ i = n + 2
      BY <3>3
    <3>5. \A i \in n + 1..Len(net'.client) : net'.client[i] = m
      BY <3>3, <3>4
    <3>6. Len(net'.client) >= n
      BY <3>3
    <3>7. QED
      BY <2>2, <3>3, <3>5, <3>6 DEF n
  <2>3. QED
    BY <1>2, <2>1, <2>2
<1>7. ASSUME NEW g \in Nat, g <= Len(net.client), StreamBehind(g)
      PROVE  StreamBehind(g)'
  <2>1. mem.sent = Len(written) + Len(net.client) - g
    BY <1>1, <1>7 DEF StreamBehind
  <2>2. ASSUME NEW i \in Len(net.client) + 1..Len(net'.client)
        PROVE  InStream(net.client[i], Len(written) + i - g)'
    <3>. DEFINE k == Len(written) + i - g
                n == mem.sent + 1
    <3>1. /\ k \in Int /\ n \in Int /\ n <= k /\ n = mem'.sent
          /\ i = Len(net.client) + 1 => k = n
      <4>1. /\ Len(written) \in Nat /\ Len(net.client) \in Nat /\ mem.sent \in Nat
            /\ i \in Int /\ i >= Len(net.client) + 1 /\ mem'.sent = mem.sent + 1
        BY <1>3, <1>4 DEF TcpNumbers
      <4>2. QED
        BY ONLY <2>1, <4>1, g \in Nat
    <3>2. CarriesUnit(m, n)
      BY <1>2
    <3>3. net'.client[i] = m /\ (k = n \/ protocol = "tls-like")
      BY <1>6, <3>1
    <3>4. (Len(written) + i - g)' = k
      BY <1>1
    <3>. HIDE DEF k, n
    <3>5. m.type = "DATA" => protocol' = "tcp-basic" /\ k <= mem'.sent /\ m.unit = content'[k]
      BY <1>1, <3>1, <3>2, <3>3 DEF CarriesUnit
    <3>6. m.type = "APP_DATA" =>
            /\ protocol' = "tls-like" /\ m.seq = n /\ m.unit = content'[m.seq]
            /\ m.mac => Untampered(m.seq)
      BY <1>1, <3>2 DEF CarriesUnit
    <3>7. m.type = "APP_DATA" => m.seq <= mem'.sent /\ m.seq <= k
      BY <3>1, <3>6
    <3>8. Untampered(m.seq) => ~(scenario' = "tampered-app-data" /\ m.seq = 1)
      BY <1>1 DEF Untampered
    <3>9. QED
      BY <3>3, <3>4, <3>5, <3>6, <3>7, <3>8 DEF InStream, Untampered
  <2>3. at'.server = "send" => mem'.sent = Len(written) + Len(net'.client) - g
    <3>1. /\ Len(written) \in Nat /\ Len(net.client) \in Nat /\ mem.sent \in Nat
          /\ mem'.sent = mem.sent + 1
          /\ at'.server = "send" => Len(net'.client) = Len(net.client) + 1
      BY <1>3, <1>4, <1>6 DEF TcpNumbers
    <3>2. QED
      BY ONLY <2>1, <3>1, g \in Nat
  <2>4. mem'.sent >= mem.sent
    BY <1>4
  <2>5. QED
    BY <1>1, <1>6, <1>7, <2>2, <2>3, <2>4, StreamGrows
<1>8. StreamInv'
  <2>1. at.client = "data" => StreamBehind(0)'
    BY <1>3, <1>7 DEF SequenceInv, StreamInv, TcpNumbers
  <2>2. ASSUME at.client \notin {"data", "exit"}, NEW g \in 1..Len(net'.client),
               Opens(net.client[g])'
        PROVE  StreamBehind(g)'
    <3>1. g \in 1..Len(net.client) \/ g \in Len(net.client) + 1..Len(net'.client)
      BY <1>3, <1>6 DEF TcpNumbers
    <3>2. ~Opens(m) /\ (Opens(net.client[g])' <=> Opens(net'.client[g]))
      BY <1>1, <1>2 DEF Opens, CarriesUnit
    <3>3. g \in 1..Len(net.client) /\ Opens(net.client[g])
      BY <1>6, <2>2, <3>1, <3>2
    <3>4. g \in Nat /\ g <= Len(net.client) /\ StreamBehind(g)
      BY <1>3, <2>2, <3>3 DEF SequenceInv, StreamInv, TcpNumbers
    <3>5. QED
      BY <1>7, <3>4
  <2>3. QED
    BY <1>1, <2>1, <2>2 DEF StreamInv
<1>9. QED
  BY <1>5, <1>8 DEF SequenceInv

LEMMA TerminatesSequence ==
  ASSUME TcpShape, TurnInv, SequenceInv, protocol \in TcpFamily, SettingsStay, TcpServerTerminates,
         scenario # "tampered-app-data"
  PROVE  SequenceInv'
<1>1. /\ TcpShape' /\ at.server = "send"
      /\ at'.server = "exit" /\ at'.client = at.client
      /\ mem' = mem /\ written' = written
      /\ protocol' = protocol /\ scenario' = scenario /\ content' = content
  BY TerminatesIs DEF SettingsStay
<1>2. PICK m \in TcpMessages : m.type = "TERMINATE" /\ Gains(net.client, net'.client, m)
  BY TerminatesIs
<1>3. TcpNumbers /\ TcpNumbers'
  BY <1>1, NumbersIn
<1>4. WrittenInv'
  BY <1>1, <1>3 DEF SequenceInv, WrittenInv, TcpNumbers
<1>5. /\ Len(net'.client) = Len(net.client) + 1
      /\ \A i \in 1..Len(net.client) : net'.client[i] = net.client[i]
      /\ \A i \in Len(net.client) + 1..Len(net'.client) : net'.client[i] = m
  BY <1>2, <1>3 DEF Gains, TcpNumbers
<1>6. ASSUME NEW g \in Nat, g <= Len(net.client), StreamBehind(g)
      PROVE  StreamBehind(g)'
  <2>1. \A i \in Len(net.client) + 1..Len(net'.client) :
          InStream(net.client[i], Len(written) + i - g)'
    BY <1>2, <1>5 DEF InStream
  <2>2. Len(net'.client) >= Len(net.client) /\ mem'.sent >= mem.sent
    BY <1>1, <1>3, <1>5 DEF TcpNumbers
  <2>3. QED
    BY <1>1, <1>5, <1>6, <2>1, <2>2, StreamGrows
<1>7. StreamInv'
  <2>1. at.client = "data" => StreamBehind(0)'
    BY <1>3, <1>6 DEF SequenceInv, StreamInv, TcpNumbers
  <2>2. ASSUME at.client \notin {"data", "exit"}, NEW g \in 1..Len(net'.client),
               Opens(net.client[g])'
        PROVE  StreamBehind(g)'
    <3>1. g \in 1..Len(net.client) \/ g \in Len(net.client) + 1..Len(net'.client)
      BY <1>3, <1>5 DEF TcpNumbers
    <3>2. ~Opens(m) /\ (Opens(net.client[g])' <=> Opens(net'.client[g]))
      BY <1>1, <1>2 DEF Opens
    <3>3. g \in 1..Len(net.client) /\ Opens(net.client[g])
      BY <1>5, <2>2, <3>1, <3>2
    <3>4. g \in Nat /\ g <= Len(net.client) /\ StreamBehind(g)
      BY <1>3, <2>2, <3>3 DEF SequenceInv, StreamInv, TcpNumbers
    <3>5. QED
      BY <1>6, <3>4
  <2>3. QED
    BY <1>1, <2>1, <2>2 DEF StreamInv
<1>8. QED
  BY <1>4, <1>7 DEF SequenceInv

\* The client takes the first message: the stream is one message nearer.
LEMMA StreamMoves ==
  ASSUME TcpShape, TcpShape', SettingsStay, Shrinks(net.client, net'.client),
         at'.server = at.server, mem'.sent = mem.sent,
         NEW g \in Nat, NEW h \in Nat, StreamBehind(g),
         g <= h + 1, Len(written') - h = Len(written) + 1 - g
  PROVE  StreamBehind(h)'
<1>1. /\ protocol' = protocol /\ scenario' = scenario /\ content' = content
      /\ TcpNumbers /\ TcpNumbers'
  BY NumbersIn DEF SettingsStay
<1>2. /\ Len(net'.client) = Len(net.client) - 1
      /\ \A i \in 1..Len(net'.client) : net'.client[i] = net.client[i + 1]
  <2>1. Len(net'.client) \in Nat /\ Len(net.client) \in Nat
    BY <1>1 DEF TcpNumbers
  <2>2. QED
    BY <2>1, ShrinksIs
<1>3. /\ Len(written) \in Nat /\ Len(written') \in Nat
      /\ Len(net.client) \in Nat /\ Len(net'.client) \in Nat
      /\ Len(net'.client) = Len(net.client) - 1 /\ mem.sent \in Nat
      /\ Len(written') - h = Len(written) + 1 - g
  BY <1>1, <1>2 DEF TcpNumbers
<1>4. ASSUME NEW i \in h + 1..Len(net'.client)
      PROVE  InStream(net.client[i], Len(written) + i - h)'
  <2>. DEFINE j == i + 1
              k == Len(written) + j - g
  <2>1. /\ i \in 1..Len(net'.client) /\ Len(written') + i - h = k
        /\ j \in g + 1..Len(net.client)
    BY ONLY <1>3, g \in Nat, h \in Nat, g <= h + 1, i \in h + 1..Len(net'.client)
  <2>2. InStream(net.client[j], k)
    BY <2>1 DEF StreamBehind
  <2>3. net'.client[i] = net.client[j]
    BY <1>2, <2>1
  <2>4. (Len(written) + i - h)' = k
    BY <2>1
  <2>. HIDE DEF j, k
  <2>5. QED
    BY <1>1, <2>2, <2>3, <2>4 DEF InStream, Untampered
<1>5. at'.server = "send" => mem'.sent = Len(written') + Len(net'.client) - h
  <2>1. at'.server = "send" => mem'.sent = Len(written) + Len(net.client) - g
    BY DEF StreamBehind
  <2>2. QED
    BY ONLY <1>3, <2>1, g \in Nat, h \in Nat
<1>6. QED
  BY <1>4, <1>5 DEF StreamBehind

LEMMA StreamNearer ==
  ASSUME TcpShape, TcpShape', SettingsStay, Shrinks(net.client, net'.client),
         at'.server = at.server, mem'.sent = mem.sent, written' = written,
         NEW g \in Nat, StreamBehind(g + 1)
  PROVE  StreamBehind(g)'
<1>1. Len(written) \in Nat
  BY NumbersIn DEF TcpNumbers
<1>. DEFINE n == g + 1
<1>2. n \in Nat /\ n <= g + 1 /\ StreamBehind(n) /\ Len(written') - g = Len(written) + 1 - n
  BY <1>1
<1>. HIDE DEF n
<1>3. QED
  BY <1>2, StreamMoves

\* The client before the transfer, where it takes a message or none.
LEMMA ClientEarlySequence ==
  ASSUME TcpShape, TcpShape', SequenceInv, SettingsStay,
         net'.client = net.client \/ (net.client # <<>> /\ Shrinks(net.client, net'.client)),
         at.client \notin {"data", "exit"} \/ (at'.client = "exit" /\ at.client = "data"),
         at'.client = "data" => /\ net.client # <<>> /\ Shrinks(net.client, net'.client)
                                /\ Opens(net.client[1]) /\ at.client # "data",
         at'.server = at.server, mem'.sent = mem.sent, mem'.seen = mem.seen, written' = written
  PROVE  SequenceInv'
<1>1. /\ protocol' = protocol /\ scenario' = scenario /\ content' = content
      /\ TcpNumbers /\ TcpNumbers'
  BY NumbersIn DEF SettingsStay
<1>2. WrittenInv'
  BY <1>1 DEF SequenceInv, WrittenInv
<1>3. StreamInv'
  <2>1. CASE at'.client = "exit"
    BY <2>1 DEF StreamInv
  <2>2. CASE at'.client = "data"
    <3>1. 1 \in 1..Len(net.client)
      BY <1>1, <2>2 DEF TcpNumbers
    <3>2. at.client \notin {"data", "exit"}
      BY <2>2
    <3>3. StreamBehind(1)
      BY <2>2, <3>1, <3>2 DEF SequenceInv, StreamInv
    <3>4. StreamBehind(0 + 1) /\ 0 \in Nat
      BY <3>3
    <3>5. StreamBehind(0)'
      BY <2>2, <3>4, StreamNearer
    <3>6. QED
      BY <2>2, <3>5 DEF StreamInv
  <2>3. CASE at'.client \notin {"data", "exit"}
    <3>. SUFFICES ASSUME NEW g \in 1..Len(net'.client), Opens(net.client[g])'
                  PROVE  StreamBehind(g)'
      BY <2>3 DEF StreamInv
    <3>1. at.client \notin {"data", "exit"}
      BY <2>3
    <3>2. CASE net'.client = net.client
      <4>1. Opens(net.client[g])
        BY <1>1, <3>2 DEF Opens
      <4>2. StreamBehind(g)
        BY <3>1, <3>2, <4>1 DEF SequenceInv, StreamInv
      <4>3. QED
        BY <1>1, <3>2, <4>2 DEF StreamBehind, InStream, Untampered
    <3>3. CASE Shrinks(net.client, net'.client)
      <4>1. Len(net'.client) \in Nat /\ Len(net.client) \in Nat
        BY <1>1 DEF TcpNumbers
      <4>2. net'.client[g] = net.client[g + 1] /\ g + 1 \in 1..Len(net.client) /\ g \in Nat
        BY <3>3, <4>1, ShrinksIs
      <4>3. Opens(net.client[g + 1])
        BY <1>1, <4>2 DEF Opens
      <4>4. StreamBehind(g + 1)
        BY <3>1, <4>2, <4>3 DEF SequenceInv, StreamInv
      <4>5. QED
        BY <3>3, <4>2, <4>4, StreamNearer
    <3>4. QED
      BY <3>2, <3>3
  <2>4. QED
    BY <2>1, <2>2, <2>3
<1>4. QED
  BY <1>2, <1>3 DEF SequenceInv

\* The client takes a frame of the file: it is the unit that it has not written yet.
LEMMA ClientDataSequence ==
  ASSUME TcpShape, SequenceInv, protocol \in TcpFamily, SettingsStay, TcpClientData
  PROVE  SequenceInv'
<1>. DEFINE m == net.client[1]
            n == Len(written) + 1
<1>1. /\ TcpShape' /\ at'.server = at.server
      /\ at.client = "data" /\ net.client # <<>> /\ Shrinks(net.client, net'.client)
      /\ at'.client \in {"data", "exit"}
      /\ \/ m.type = "DATA" /\ Gains(written, written', m.unit) /\ mem' = mem
         \/ /\ m.type = "APP_DATA" /\ m.seq > mem.seen /\ m.mac
            /\ Gains(written, written', m.unit)
            /\ mem' = [mem EXCEPT !.seen = m.seq]
         \/ UNCHANGED <<written, mem>> /\ at'.client = "exit"
      /\ protocol' = protocol /\ scenario' = scenario /\ content' = content
  BY ClientDataIs DEF NoSuccess, SettingsStay
<1>2. TcpNumbers /\ TcpNumbers'
  BY <1>1, NumbersIn
<1>3. CASE UNCHANGED <<written, mem>> /\ at'.client = "exit"
  <2>1. mem'.sent = mem.sent /\ mem'.seen = mem.seen
    BY <1>3
  <2>2. QED
    BY <1>1, <1>3, <2>1, ClientEarlySequence
<1>4. StreamBehind(0) /\ WrittenInv
  BY <1>1 DEF SequenceInv, StreamInv
<1>5. InStream(m, n) /\ n \in Nat
  <2>1. 1 \in 0 + 1..Len(net.client) /\ Len(written) + 1 - 0 = n /\ n \in Nat
    BY <1>1, <1>2 DEF TcpNumbers
  <2>2. InStream(net.client[1], Len(written) + 1 - 0)
    BY <1>4, <2>1 DEF StreamBehind
  <2>3. QED
    BY <2>1, <2>2
<1>6. m \in TcpMessages /\ (m.type = "APP_DATA" => m.seq \in Nat)
  <2>1. m \in TcpMessages
    BY <1>1, FirstOf DEF TcpShape, Channels
  <2>2. QED
    BY <2>1, TcpFields
<1>7. ASSUME \/ m.type = "DATA" /\ Gains(written, written', m.unit) /\ mem' = mem
             \/ /\ m.type = "APP_DATA" /\ m.seq > mem.seen /\ m.mac
                /\ Gains(written, written', m.unit)
                /\ mem' = [mem EXCEPT !.seen = m.seq]
      PROVE  SequenceInv'
  <2>1. /\ n <= mem.sent /\ m.unit = content[n]
        /\ mem'.sent = mem.sent
        /\ protocol = "tls-like" => mem'.seen = n /\ Untampered(n)
    <3>1. CASE m.type = "DATA" /\ mem' = mem
      BY <1>5, <3>1 DEF InStream
    <3>2. CASE /\ m.type = "APP_DATA" /\ m.seq > mem.seen /\ m.mac
               /\ mem' = [mem EXCEPT !.seen = m.seq]
      <4>1. /\ protocol = "tls-like" /\ m.seq <= mem.sent /\ m.seq <= n
            /\ m.unit = content[m.seq] /\ Untampered(m.seq)
        BY <1>5, <3>2 DEF InStream
      <4>2. mem.seen = Len(written) /\ mem.seen \in Nat
        BY <1>2, <1>4, <4>1 DEF WrittenInv, TcpNumbers
      <4>. DEFINE seq == m.seq
      <4>3. seq \in Nat /\ seq > mem.seen /\ seq <= n
        BY <1>6, <3>2, <4>1
      <4>. HIDE DEF seq
      <4>4. seq = n
        BY <4>2, <4>3
      <4>5. mem'.seen = seq /\ mem'.sent = mem.sent
        BY <3>2 DEF TcpShape, TcpMem, seq
      <4>6. QED
        BY <4>1, <4>4, <4>5 DEF seq
    <3>3. QED
      BY <1>7, <3>1, <3>2
  <2>2. /\ Len(written') = n
        /\ \A i \in 1..Len(written) : written'[i] = written[i]
        /\ written'[n] = content[n]
    BY <1>7, <2>1 DEF Gains
  <2>3. \A i \in 1..n : i \in 1..Len(written) \/ i = n
    BY SMTT(60), <1>2 DEF TcpNumbers
  <2>4. \A i \in 1..Len(written') : written'[i] = content[i]
    BY <1>4, <2>2, <2>3 DEF WrittenInv
  <2>5. ~(protocol = "tls-like" /\ scenario = "tampered-app-data")
    <3>1. protocol = "tls-like" /\ scenario = "tampered-app-data" => n = 1
      BY <1>4, EmptySeq DEF WrittenInv
    <3>2. QED
      BY <2>1, <3>1 DEF Untampered
  <2>. HIDE DEF m
  <2>6. WrittenInv'
    BY <1>1, <1>4, <2>1, <2>2, <2>4, <2>5 DEF WrittenInv
  <2>7. StreamBehind(0)'
    <3>1. Len(written') - 0 = Len(written) + 1 - 0 /\ 0 \in Nat /\ 0 <= 0 + 1
      BY <1>2, <2>2 DEF TcpNumbers
    <3>. HIDE DEF n
    <3>2. QED
      BY <1>1, <1>4, <2>1, <3>1, StreamMoves
  <2>8. StreamInv'
    BY <1>1, <2>7 DEF StreamInv
  <2>9. QED
    BY <2>6, <2>8 DEF SequenceInv
<1>8. QED
  BY <1>1, <1>3, <1>7

\* What the client prints: nothing, OK or ABORT.
LEMMA Printed ==
  /\ <<>> \o OK = OK /\ <<>> \o ABORT = ABORT
  /\ "OK" \notin Range(<<>>) /\ "OK" \notin Range(ABORT) /\ "OK" \in Range(OK)
<1>1. <<>> \o OK = OK /\ <<>> \o ABORT = ABORT
  <2>1. ASSUME NEW x
        PROVE  <<>> \o <<x>> = <<x>>
    <3>1. <<x>> \in Seq({x})
      OBVIOUS
    <3>2. QED
      BY <3>1, ConcatEmptySeq
  <2>2. QED
    BY <2>1 DEF OK, ABORT
<1>2. DOMAIN <<>> = {} /\ DOMAIN ABORT = {1} /\ ABORT[1] = "ABORT"
      /\ DOMAIN OK = {1} /\ OK[1] = "OK"
  BY DEF OK, ABORT
<1>3. QED
  BY <1>1, <1>2 DEF Range

LEMMA ServerOutput ==
  ASSUME TcpShape, TcpShape', OutputInv, SettingsStay, at'.client = at.client,
         results'.client = results.client, written' = written, committed' = committed,
         NEW m, m.type = "TERMINATE" => m.digest = Announced,
         \A i \in 1..Len(net'.client) :
           (i \in 1..Len(net.client) /\ net'.client[i] = net.client[i]) \/ net'.client[i] = m
  PROVE  OutputInv'
<1>1. Announced' = Announced /\ faults' = faults
  BY DEF Announced, SettingsStay
<1>2. \A i \in 1..Len(net'.client) :
        net'.client[i].type = "TERMINATE" => net'.client[i].digest = Announced
  BY DEF OutputInv
<1>3. QED
  BY <1>1, <1>2 DEF OutputInv, PrintsOk

LEMMA GainedOne ==
  ASSUME TcpShape, TcpShape', NEW m, Gains(net.client, net'.client, m)
  PROVE  \A i \in 1..Len(net'.client) :
           (i \in 1..Len(net.client) /\ net'.client[i] = net.client[i]) \/ net'.client[i] = m
<1>1. TcpNumbers /\ TcpNumbers'
  BY NumbersIn
<1>2. ASSUME NEW i \in 1..Len(net'.client)
      PROVE  i \in 1..Len(net.client) \/ i = Len(net.client) + 1
  BY <1>1 DEF Gains, TcpNumbers
<1>3. QED
  BY <1>2 DEF Gains

LEMMA ClientOutput ==
  ASSUME TcpShape, TcpShape', OutputInv, SettingsStay, at.client # "exit", NoSuccess,
         net'.client = net.client \/ (net.client # <<>> /\ Shrinks(net.client, net'.client))
  PROVE  OutputInv'
<1>1. Announced' = Announced /\ faults' = faults /\ TcpNumbers /\ TcpNumbers'
  BY NumbersIn DEF Announced, SettingsStay
<1>2. \A i \in 1..Len(net'.client) :
        net'.client[i].type = "TERMINATE" => net'.client[i].digest = Announced
  <2>1. \A i \in 1..Len(net'.client) :
          \E j \in 1..Len(net.client) : net'.client[i] = net.client[j]
    BY <1>1, ClientChannelKept
  <2>2. QED
    BY <2>1 DEF OutputInv
<1>3. committed' = <<>> /\ results.client = <<>>
  BY DEF OutputInv, NoSuccess
<1>4. results'.client \in {<<>>, ABORT}
  BY <1>3, Printed DEF NoSuccess
<1>5. "OK" \notin Range(results'.client)
  BY <1>4, Printed
<1>6. at'.client # "exit" => results'.client = <<>>
  BY <1>3 DEF NoSuccess
<1>7. QED
  BY <1>1, <1>2, <1>3, <1>5, <1>6 DEF OutputInv, PrintsOk

LEMMA ClientTerminateOutput ==
  ASSUME TcpShape, OutputInv, protocol \in TcpFamily, SettingsStay, TcpClientTerminate
  PROVE  OutputInv'
<1>1. /\ TcpShape' /\ at.client = "data" /\ net.client # <<>> /\ Shrinks(net.client, net'.client)
      /\ net.client[1].type = "TERMINATE" /\ at'.client = "exit" /\ written' = written
      /\ \/ /\ written = net.client[1].digest /\ results'.client = results.client \o OK
            /\ \/ committed' = Append(committed, written)
               \/ "rename" \in faults /\ committed' = committed
         \/ results'.client = results.client \o ABORT /\ committed' = committed
  BY ClientTerminateIs
<1>2. Announced' = Announced /\ faults' = faults /\ TcpNumbers /\ TcpNumbers'
  BY <1>1, NumbersIn DEF Announced, SettingsStay
<1>3. \A i \in 1..Len(net'.client) :
        net'.client[i].type = "TERMINATE" => net'.client[i].digest = Announced
  <2>1. \A i \in 1..Len(net'.client) :
          \E j \in 1..Len(net.client) : net'.client[i] = net.client[j]
    BY <1>1, <1>2, ClientChannelKept
  <2>2. QED
    BY <2>1 DEF OutputInv
<1>4. committed = <<>> /\ results.client = <<>> /\ net.client[1].digest = Announced
  <2>1. 1 \in 1..Len(net.client)
    BY <1>1, <1>2 DEF TcpNumbers
  <2>2. QED
    BY <1>1, <2>1 DEF OutputInv
<1>5. Append(committed, written) = <<written>>
  BY <1>4
<1>6. \/ written = Announced /\ results'.client = OK /\ committed' = <<written>>
      \/ "rename" \in faults /\ committed' = <<>>
      \/ results'.client = ABORT /\ committed' = <<>>
  BY <1>1, <1>4, <1>5, Printed
<1>7. QED
  BY <1>1, <1>2, <1>3, <1>6, Printed DEF OutputInv, PrintsOk

-----------------------------------------------------------------------------
(***************************************************************************)
(* TcpDemo: every step keeps the invariant.                                *)
(***************************************************************************)
TcpParts == TcpShape /\ TurnInv /\ SecretInv /\ SequenceInv /\ OutputInv

LEMMA TcpServerNext ==
  ASSUME TcpParts, protocol \in TcpFamily, SettingsStay, TcpServer
  PROVE  TcpParts'
<1>1. TcpShape /\ TurnInv /\ SecretInv /\ LetInInv /\ SequenceInv /\ OutputInv
  BY DEF TcpParts, SecretInv
<1>2. CASE TcpServerJoin
  <2>1. /\ TcpShape' /\ at.server = "join" /\ at'.client = at.client /\ mem' = mem
        /\ results' = results /\ written' = written /\ committed' = committed
    BY <1>1, <1>2, JoinIs
  <2>2. PICK m \in TcpMessages : m.type = "PASS_REQ" /\ Gains(net.client, net'.client, m)
    BY <1>1, <1>2, JoinIs
  <2>3. TurnInv' /\ SecretInv'
    BY <1>1, <1>2, JoinTurn, JoinSecret
  <2>4. SequenceInv'
    <3>1. ~Opens(m) /\ at.server \in Early \cup {"finished"}
      BY <2>1, <2>2 DEF Opens, Early
    <3>2. QED
      BY <1>1, <2>1, <2>2, <3>1, EarlySequence
  <2>5. OutputInv'
    BY <1>1, <2>1, <2>2, GainedOne, ServerOutput
  <2>6. QED
    BY <2>1, <2>3, <2>4, <2>5 DEF TcpParts
<1>3. CASE TcpServerPassword
  <2>1. /\ TcpShape' /\ at.server = "auth" /\ at'.client = at.client
        /\ mem' = [mem EXCEPT !.attempt = mem.attempt + 1, !.authed = mem'.authed]
        /\ results'.client = results.client /\ written' = written /\ committed' = committed
    BY <1>1, <1>3, PasswordIs
  <2>2. PICK m \in TcpMessages :
          /\ Gains(net.client, net'.client, m)
          /\ \/ /\ m.type = "PASS_ACCEPT"
                /\ at'.server = IF protocol = "tls-like" THEN "hello" ELSE "send"
             \/ m.type \in {"REJECT", "PASS_REQ"}
    BY <1>1, <1>3, PasswordIs
  <2>3. TurnInv' /\ SecretInv'
    BY <1>1, <1>3, PasswordTurn, PasswordSecret
  <2>4. SequenceInv'
    <3>1. /\ Opens(m) => at'.server \in {"send", "exit"}
          /\ at.server \in Early \cup {"finished"}
      BY <2>1, <2>2 DEF Opens, Early, TcpFamily
    <3>2. mem'.sent = mem.sent /\ mem'.seen = mem.seen
      BY <1>1, <2>1 DEF TcpShape, TcpMem
    <3>3. QED
      BY <1>1, <2>1, <2>2, <3>1, <3>2, EarlySequence
  <2>5. OutputInv'
    <3>1. m.type # "TERMINATE" /\ Gains(net.client, net'.client, m)
      BY <2>2
    <3>2. QED
      BY <1>1, <2>1, <3>1, GainedOne, ServerOutput
  <2>6. QED
    BY <2>1, <2>3, <2>4, <2>5 DEF TcpParts
<1>4. CASE \/ TcpServerUnexpected \/ TcpServerReceiveFails \/ TcpServerSendBreaks
           \/ TcpServerTerminates /\ scenario = "tampered-app-data"
  <2>1. TcpShape' /\ ServerEnds
    BY <1>1, <1>4, ServerEndsIs
  <2>2. TurnInv' /\ SecretInv' /\ SequenceInv'
    BY <1>1, <2>1, ServerEndsTurn, ServerEndsSecret, ServerEndsSequence
  <2>3. OutputInv'
    <3>1. /\ at'.client = at.client /\ results'.client = results.client
          /\ written' = written /\ committed' = committed /\ net'.client = net.client
      BY <2>1 DEF ServerEnds
    <3>2. Frame("PASS_REQ").type # "TERMINATE"
      BY DEF Frame
    <3>3. QED
      BY <1>1, <2>1, <3>1, <3>2, ServerOutput
  <2>4. QED
    BY <2>1, <2>2, <2>3 DEF TcpParts
<1>5. CASE TlsServerHello
  <2>1. /\ TcpShape' /\ at.server = "hello" /\ at'.client = at.client /\ mem' = mem
        /\ at'.server = "finished" /\ net.server # <<>> /\ Shrinks(net.server, net'.server)
        /\ results' = results /\ written' = written /\ committed' = committed
    BY <1>1, <1>5, ServerHelloIs
  <2>2. PICK m \in TcpMessages : m.type = "SERVER_HELLO" /\ Gains(net.client, net'.client, m)
    BY <1>1, <1>5, ServerHelloIs
  <2>3. TurnInv'
    <3>1. /\ Len(net'.client) >= Len(net.client)
          /\ \A i \in 1..Len(net.client) : net'.client[i] = net.client[i]
          /\ \A i \in Len(net.client) + 1..Len(net'.client) : net'.client[i] = m
      BY <1>1, <2>1, <2>2, NumbersIn DEF Gains, TcpNumbers
    <3>2. QED
      BY <1>1, <2>1, <2>2, <3>1, ServerLaterTurn DEF ServerTook
  <2>4. SecretInv'
    BY <1>1, <1>5, ServerHelloSecret
  <2>5. SequenceInv'
    <3>1. ~Opens(m) /\ at.server \in Early \cup {"finished"}
      BY <2>1, <2>2 DEF Opens, Early
    <3>2. QED
      BY <1>1, <2>1, <2>2, <3>1, EarlySequence
  <2>6. OutputInv'
    BY <1>1, <2>1, <2>2, GainedOne, ServerOutput
  <2>7. QED
    BY <2>1, <2>3, <2>4, <2>5, <2>6 DEF TcpParts
<1>6. CASE TlsServerFinished
  <2>1. /\ TcpShape' /\ at.server = "finished" /\ at'.client = at.client /\ mem' = mem
        /\ at'.server \in {"send", "exit"} /\ net.server # <<>>
        /\ net.server[1].type = "FINISHED" /\ Shrinks(net.server, net'.server)
        /\ results'.client = results.client /\ written' = written /\ committed' = committed
        /\ stopped' = stopped
    BY <1>1, <1>6, ServerFinishedIs
  <2>2. PICK m \in TcpMessages : m.type = "FINISHED" /\ Gains(net.client, net'.client, m)
    BY <1>1, <1>6, ServerFinishedIs
  <2>3. TurnInv'
    <3>1. /\ Len(net'.client) >= Len(net.client)
          /\ \A i \in 1..Len(net.client) : net'.client[i] = net.client[i]
          /\ \A i \in Len(net.client) + 1..Len(net'.client) : net'.client[i] = m
      BY SMTT(60), <1>1, <2>1, <2>2, NumbersIn DEF Gains, TcpNumbers
    <3>2. QED
      BY <1>1, <2>1, <2>2, <3>1, ServerLaterTurn DEF ServerTook
  <2>4. SecretInv'
    BY <1>1, <2>1, <2>2, GainedOne, LaterSecret DEF ServerTook
  <2>5. SequenceInv'
    <3>1. at.server \in Early \cup {"finished"}
      BY <2>1
    <3>2. QED
      BY <1>1, <2>1, <2>2, <3>1, EarlySequence
  <2>6. OutputInv'
    BY <1>1, <2>1, <2>2, GainedOne, ServerOutput
  <2>7. QED
    BY <2>1, <2>3, <2>4, <2>5, <2>6 DEF TcpParts
<1>7. CASE TcpServerSendsUnit
  <2>1. /\ TcpShape' /\ at.server = "send" /\ at'.client = at.client
        /\ mem' = [mem EXCEPT !.sent = mem.sent + 1] /\ net'.server = net.server
        /\ at'.server \in {"send", "exit"}
        /\ results'.client = results.client /\ written' = written /\ committed' = committed
        /\ stopped' = stopped
    BY <1>1, <1>7, SendsUnitIs
  <2>2. PICK m \in TcpMessages :
          /\ m.type \in {"DATA", "APP_DATA"}
          /\ Gains(net.client, net'.client, m) \/ Grows(net.client, net'.client, <<m, m>>)
    BY <1>1, <1>7, SendsUnitIs DEF CarriesUnit
  <2>3. /\ Len(net'.client) >= Len(net.client)
        /\ \A i \in 1..Len(net.client) : net'.client[i] = net.client[i]
        /\ \A i \in Len(net.client) + 1..Len(net'.client) : net'.client[i] = m
    <3>1. TcpNumbers /\ TcpNumbers'
      BY <1>1, <2>1, NumbersIn
    <3>2. CASE Gains(net.client, net'.client, m)
      BY <3>1, <3>2 DEF Gains, TcpNumbers
    <3>3. CASE Grows(net.client, net'.client, <<m, m>>)
      <4>. DEFINE msgs == <<m, m>>
                  n == Len(net.client)
      <4>1. Len(msgs) = 2 /\ msgs[1] = m /\ msgs[2] = m
        OBVIOUS
      <4>2. Grows(net.client, net'.client, msgs)
        BY <3>3
      <4>. HIDE DEF msgs
      <4>3. /\ Len(net'.client) = n + 2 /\ n \in Nat
            /\ \A i \in 1..n : net'.client[i] = net.client[i]
            /\ net'.client[n + 1] = m /\ net'.client[n + 2] = m
        BY <3>1, <4>1, <4>2 DEF Grows, TcpNumbers
      <4>. HIDE DEF n
      <4>4. \A i \in n + 1..n + 2 : i = n + 1 \/ i = n + 2
        BY <4>3
      <4>5. \A i \in n + 1..Len(net'.client) : net'.client[i] = m
        BY <4>3, <4>4
      <4>6. Len(net'.client) >= n
        BY <4>3
      <4>7. QED
        BY <4>3, <4>5, <4>6 DEF n
    <3>4. QED
      BY <2>2, <3>2, <3>3
  <2>4. \A i \in 1..Len(net'.client) :
          (i \in 1..Len(net.client) /\ net'.client[i] = net.client[i]) \/ net'.client[i] = m
    <3>1. TcpNumbers /\ TcpNumbers'
      BY <1>1, <2>1, NumbersIn
    <3>2. \A i \in 1..Len(net'.client) :
            i \in 1..Len(net.client) \/ i \in Len(net.client) + 1..Len(net'.client)
      BY <3>1 DEF TcpNumbers
    <3>3. QED
      BY <2>3, <3>2
  <2>5. mem'.given = mem.given /\ mem'.authed = mem.authed
    BY <1>1, <2>1 DEF TcpShape, TcpMem
  <2>6. TurnInv'
    BY <1>1, <2>1, <2>2, <2>3, <2>5, ServerLaterTurn DEF ServerTook
  <2>7. SecretInv'
    <3>1. \A i \in 1..Len(net'.client) :
            \/ i \in 1..Len(net.client) /\ net'.client[i] = net.client[i]
            \/ net'.client[i].type # "PASS_ACCEPT"
      BY <2>2, <2>4
    <3>2. QED
      BY <1>1, <2>1, <2>5, <3>1, LaterSecret DEF ServerTook
  <2>8. SequenceInv'
    BY <1>1, <1>7, SendsUnitSequence
  <2>9. OutputInv'
    <3>1. m.type # "TERMINATE"
      BY <2>2
    <3>2. QED
      BY <1>1, <2>1, <2>4, <3>1, ServerOutput
  <2>10. QED
    BY <2>1, <2>6, <2>7, <2>8, <2>9 DEF TcpParts
<1>8. CASE TcpServerTerminates /\ scenario # "tampered-app-data"
  <2>1. /\ TcpShape' /\ at.server = "send" /\ at'.client = at.client /\ mem' = mem
        /\ at'.server = "exit" /\ net'.server = net.server
        /\ results'.client = results.client /\ written' = written /\ committed' = committed
        /\ stopped' = stopped
    BY <1>1, <1>8, TerminatesIs
  <2>2. PICK m \in TcpMessages : /\ m.type = "TERMINATE" /\ m.digest = Announced
                                 /\ Gains(net.client, net'.client, m)
    BY <1>1, <1>8, TerminatesIs
  <2>3. TurnInv'
    <3>1. /\ Len(net'.client) >= Len(net.client)
          /\ \A i \in 1..Len(net.client) : net'.client[i] = net.client[i]
          /\ \A i \in Len(net.client) + 1..Len(net'.client) : net'.client[i] = m
      BY <1>1, <2>1, <2>2, NumbersIn DEF Gains, TcpNumbers
    <3>2. QED
      BY <1>1, <2>1, <2>2, <3>1, ServerLaterTurn DEF ServerTook
  <2>4. SecretInv'
    BY <1>1, <2>1, <2>2, GainedOne, LaterSecret DEF ServerTook
  <2>5. SequenceInv'
    BY <1>1, <1>8, TerminatesSequence
  <2>6. OutputInv'
    BY <1>1, <2>1, <2>2, GainedOne, ServerOutput
  <2>7. QED
    BY <2>1, <2>3, <2>4, <2>5, <2>6 DEF TcpParts
<1>9. QED
  BY <1>2, <1>3, <1>4, <1>5, <1>6, <1>7, <1>8 DEF TcpServer

\* The client speaks, or ends, before the file is on its way or while it waits for more.
LEMMA QuietStep ==
  ASSUME TcpParts, TcpShape', SettingsStay, NoSuccess, ClientQuiet, SecretInv',
         mem' = mem, written' = written,
         at.client \notin {"data", "exit"} \/ (at'.client = "exit" /\ at.client = "data"),
         at'.client = "data" => /\ net.client # <<>> /\ Shrinks(net.client, net'.client)
                                /\ Opens(net.client[1]) /\ at.client # "data"
  PROVE  TcpParts'
<1>1. TcpShape /\ TurnInv /\ SequenceInv /\ OutputInv
  BY DEF TcpParts
<1>2. /\ net'.client = net.client \/ (net.client # <<>> /\ Shrinks(net.client, net'.client))
      /\ at'.server = at.server /\ at.client # "exit"
  BY DEF ClientQuiet
<1>3. TurnInv'
  BY <1>1, ClientQuietTurn
<1>4. SequenceInv'
  BY <1>1, <1>2, ClientEarlySequence
<1>5. OutputInv'
  BY <1>1, <1>2, ClientOutput
<1>6. QED
  BY <1>3, <1>4, <1>5 DEF TcpParts

LEMMA ClientStartKeeps ==
  ASSUME TcpParts, protocol \in TcpFamily, SettingsStay, TcpClientStart
  PROVE  TcpParts'
<1>1. TcpShape /\ TurnInv /\ SecretInv /\ SequenceInv /\ OutputInv
  BY DEF TcpParts
<1>2. /\ TcpShape' /\ NoSuccess /\ at.client = "start" /\ net'.client = net.client
      /\ mem' = mem /\ written' = written /\ at'.server = at.server
      /\ at'.client # "data"
  BY <1>1, ClientStartIs DEF NoSuccess, ClientSpeaks
<1>3. TurnInv' /\ SecretInv'
  BY <1>1, ClientStartTurn, ClientStartSecret
<1>4. SequenceInv'
  BY <1>1, <1>2, ClientEarlySequence
<1>5. OutputInv'
  BY <1>1, <1>2, ClientOutput
<1>6. QED
  BY <1>2, <1>3, <1>4, <1>5 DEF TcpParts

LEMMA ClientAuthKeeps ==
  ASSUME TcpParts, protocol \in TcpFamily, SettingsStay, TcpClientAuth
  PROVE  TcpParts'
<1>1. TcpShape /\ TurnInv /\ SecretInv /\ SequenceInv /\ OutputInv
  BY DEF TcpParts
<1>2. /\ TcpShape' /\ NoSuccess /\ at.client = "auth" /\ at'.server = at.server
      /\ net.client # <<>> /\ Shrinks(net.client, net'.client) /\ written' = written
  BY <1>1, ClientAuthIs DEF NoSuccess
<1>3. SecretInv'
  BY <1>1, ClientAuthSecret
<1>4. CASE /\ net.client[1].type = "PASS_REQ"
           /\ mem' = [mem EXCEPT !.given = mem.given + 1]
           /\ \E m \in TcpMessages : m.type = "PASS_RESP" /\ ClientSpeaks(m)
  <2>1. TurnInv'
    BY <1>1, <1>2, <1>4, ClientAnswersTurn
  <2>2. /\ mem'.sent = mem.sent /\ mem'.seen = mem.seen /\ at'.client # "data"
        /\ at.client \notin {"data", "exit"} /\ at.client # "exit"
    BY <1>1, <1>2, <1>4 DEF TcpShape, TcpMem, ClientSpeaks
  <2>3. SequenceInv'
    BY <1>1, <1>2, <2>2, ClientEarlySequence
  <2>4. OutputInv'
    BY <1>1, <1>2, <2>2, ClientOutput
  <2>5. QED
    BY <1>2, <1>3, <2>1, <2>3, <2>4 DEF TcpParts
<1>5. CASE /\ mem' = mem /\ ClientMaySayHello
           /\ at'.client = "data" => /\ protocol = "tcp-basic"
                                     /\ net.client[1].type = "PASS_ACCEPT"
  <2>1. at'.client = "data" => Opens(net.client[1])
    BY <1>5 DEF Opens
  <2>2. ClientQuiet
    BY <1>2, <1>5 DEF ClientQuiet, ClientMaySayHello, IsTurn
  <2>3. QED
    BY <1>2, <1>3, <1>5, <2>1, <2>2, QuietStep
<1>6. QED
  BY <1>1, <1>4, <1>5, ClientAuthIs

LEMMA TcpClientNext ==
  ASSUME TcpParts, protocol \in TcpFamily, SettingsStay, TcpClient
  PROVE  TcpParts'
<1>1. TcpShape /\ TurnInv /\ SecretInv /\ SequenceInv /\ OutputInv
  BY DEF TcpParts
<1>2. CASE TcpClientRefused \/ TcpClientReceiveFails
  <2>1. TcpShape' /\ ClientEnds
    BY <1>1, <1>2, ClientEndsIs
  <2>2. ClientQuiet
    BY <2>1 DEF ClientEnds, NoSuccess, ClientQuiet
  <2>3. SecretInv'
    BY <1>1, <2>1, ClientLaterSecret DEF ClientEnds, NoSuccess
  <2>4. QED
    BY <2>1, <2>2, <2>3, QuietStep DEF ClientEnds
<1>3. CASE TlsClientHello
  <2>1. /\ TcpShape' /\ NoSuccess /\ at.client = "hello" /\ at'.server = at.server
        /\ net.client # <<>> /\ Shrinks(net.client, net'.client)
        /\ \/ /\ at'.client = "finished"
              /\ \E m \in TcpMessages : m.type = "FINISHED" /\ Gains(net.server, net'.server, m)
           \/ at'.client = "exit" /\ net'.server = net.server
        /\ mem' = mem /\ written' = written
    BY <1>1, <1>3, ClientHelloIs DEF NoSuccess
  <2>2. SecretInv' /\ protocol = "tls-like"
    BY <1>1, <1>3, <2>1, ClientHelloSecret DEF TurnInv, StartTurn
  <2>3. ClientQuiet
    BY <2>1, <2>2 DEF ClientQuiet, IsTurn
  <2>4. QED
    BY <2>1, <2>2, <2>3, QuietStep
<1>4. CASE TlsClientFinished
  <2>1. /\ TcpShape' /\ NoSuccess /\ at.client = "finished" /\ at'.server = at.server
        /\ net.client # <<>> /\ Shrinks(net.client, net'.client) /\ net'.server = net.server
        /\ at'.client \in {"data", "exit"}
        /\ at'.client = "data" => net.client[1].type = "FINISHED"
        /\ stopped \subseteq stopped' /\ mem' = mem /\ written' = written
    BY <1>1, <1>4, ClientFinishedIs DEF NoSuccess
  <2>2. SecretInv'
    BY <1>1, <2>1, ClientLaterSecret
  <2>3. ClientQuiet
    BY <2>1 DEF ClientQuiet
  <2>4. at'.client = "data" => Opens(net.client[1])
    BY <1>1, <2>1 DEF Opens, TurnInv, StartTurn
  <2>5. QED
    BY <2>1, <2>2, <2>3, <2>4, QuietStep
<1>5. CASE TcpClientData
  <2>1. /\ TcpShape' /\ NoSuccess /\ at.client = "data" /\ at'.server = at.server
        /\ net.client # <<>> /\ Shrinks(net.client, net'.client) /\ net'.server = net.server
        /\ at'.client \in {"data", "exit"} /\ stopped \subseteq stopped'
        /\ mem' = mem \/ mem' = [mem EXCEPT !.seen = net.client[1].seq]
    BY <1>1, <1>5, ClientDataIs DEF NoSuccess
  <2>2. /\ mem'.given = mem.given /\ mem'.attempt = mem.attempt
        /\ mem'.authed = mem.authed /\ mem'.sent = mem.sent
    BY <1>1, <2>1 DEF TcpShape, TcpMem
  <2>3. ClientQuiet
    BY <2>1, <2>2 DEF ClientQuiet
  <2>4. TurnInv'
    BY <1>1, <2>1, <2>3, ClientQuietTurn
  <2>5. SecretInv'
    BY <1>1, <2>1, <2>2, ClientLaterSecret
  <2>6. SequenceInv'
    BY <1>1, <1>5, ClientDataSequence
  <2>7. OutputInv'
    BY <1>1, <2>1, ClientOutput
  <2>8. QED
    BY <2>1, <2>4, <2>5, <2>6, <2>7 DEF TcpParts
<1>6. CASE TcpClientTerminate
  <2>1. /\ TcpShape' /\ at.client = "data" /\ at'.server = at.server
        /\ net.client # <<>> /\ Shrinks(net.client, net'.client) /\ net'.server = net.server
        /\ at'.client = "exit" /\ mem' = mem /\ written' = written /\ stopped' = stopped
    BY <1>1, <1>6, ClientTerminateIs
  <2>2. ClientQuiet
    BY <2>1 DEF ClientQuiet
  <2>3. TurnInv'
    BY <1>1, <2>1, <2>2, ClientQuietTurn
  <2>4. SecretInv'
    BY <1>1, <2>1, ClientLaterSecret
  <2>5. SequenceInv'
    BY <1>1, <2>1, ClientEarlySequence
  <2>6. OutputInv'
    BY <1>1, <1>6, ClientTerminateOutput
  <2>7. QED
    BY <2>1, <2>3, <2>4, <2>5, <2>6 DEF TcpParts
<1>7. QED
  BY <1>2, <1>3, <1>4, <1>5, <1>6, ClientStartKeeps, ClientAuthKeeps DEF TcpClient

LEMMA TcpNextKeeps == TcpInv /\ [Next]_demoVars => TcpInv'
<1>. SUFFICES ASSUME TcpInv, [Next]_demoVars, protocol' \in TcpFamily
              PROVE  TcpParts'
  BY DEF TcpInv, TcpParts
<1>1. SettingsStay /\ protocol \in TcpFamily
  BY SettingsKept DEF SettingsStay
<1>2. TcpParts /\ faults \in StreamFaults
  BY <1>1 DEF TcpInv, TcpParts, TcpShape
<1>3. CASE UNCHANGED demoVars
  BY <1>2, <1>3
     DEF demoVars, TcpParts, TcpShape, Channels, Pair, TurnInv, StartTurn, CountTurn, EarlyTurn,
         AnswerTurn, RequestTurn, SecretInv, LetInInv, HandshakeInv, SequenceInv, WrittenInv,
         StreamInv, StreamBehind, InStream, Opens, Untampered, IsTurn, OutputInv, PrintsOk,
         Announced
<1>4. QED
  BY <1>1, <1>2, <1>3, TcpStep, TcpServerNext, TcpClientNext

\* TcpDemo: an invariant of the two TCP demos that says who has the turn in the password rounds,
\* who has been let in, which units are on their way and what the client's file holds.
THEOREM TcpInvariant == Spec => []TcpInv
<1>1. TcpInv /\ [Next]_demoVars => TcpInv'
  BY TcpNextKeeps
<1>2. QED
  BY TcpInitially, <1>1, PTL DEF Spec

-----------------------------------------------------------------------------
(***************************************************************************)
(* More about the channels.                                                *)
(***************************************************************************)
\* new is what is left of old behind its first k elements.
Drops(old, new, k) ==
  /\ Len(new) = Len(old) - k
  /\ \A i \in 1..Len(new) : new[i] = old[i + k] /\ i + k \in 1..Len(old)

LEMMA Dropped ==
  ASSUME NEW S, NEW old \in Seq(S), NEW k \in 0..Len(old)
  PROVE  /\ SubSeq(old, k + 1, Len(old)) \in Seq(S)
         /\ Drops(old, SubSeq(old, k + 1, Len(old)), k)
<1>. DEFINE new == SubSeq(old, k + 1, Len(old))
            n == Len(old)
<1>1. n \in Nat /\ k \in 0..n
  OBVIOUS
<1>2. k + 1 \in 1..Len(old) + 1 /\ Len(old) \in (k + 1) - 1..Len(old)
  OBVIOUS
<1>3. /\ new \in Seq(S)
      /\ Len(new) = IF k + 1 <= Len(old) THEN Len(old) - (k + 1) + 1 ELSE 0
      /\ \A i \in 1..Len(new) : new[i] = old[(k + 1) + i - 1]
  BY <1>2, SubSeqProperties
<1>. HIDE DEF new
<1>4. Len(new) = n - k
  BY <1>1, <1>3
<1>5. \A i \in 1..Len(new) : (k + 1) + i - 1 = i + k /\ i + k \in 1..n
  BY <1>1, <1>4
<1>6. QED
  BY <1>3, <1>4, <1>5 DEF Drops, new

LEMMA ShrinksDrops ==
  ASSUME NEW old, NEW new, Len(old) \in Nat, Len(new) \in Nat, Shrinks(old, new)
  PROVE  Drops(old, new, 1)
BY ShrinksIs DEF Drops

\* A sequence, of whatever it has in it.
IsSeq(s) == s \in Seq(Range(s))

LEMMA SeqIs ==
  ASSUME NEW s, IsSeq(s)
  PROVE  /\ Len(s) \in Nat /\ DOMAIN s = 1..Len(s)
         /\ \A i \in 1..Len(s) : s[i] \in Range(s)
         /\ s # <<>> => 1 \in 1..Len(s) /\ Head(s) = s[1]
BY EmptySeq DEF IsSeq, Range

LEMMA SeqsOf ==
  ASSUME NEW S, NEW s \in Seq(S)
  PROVE  IsSeq(s) /\ Range(s) \subseteq S
BY SeqOfRange, RangeOfSeq DEF IsSeq

LEMMA ShortSeqs ==
  /\ IsSeq(<<>>) /\ Range(<<>>) = {}
  /\ \A x : IsSeq(<<x>>) /\ Range(<<x>>) = {x}
  /\ \A x, y : IsSeq(<<x, y>>) /\ Range(<<x, y>>) = {x, y}
<1>1. IsSeq(<<>>) /\ Range(<<>>) = {}
  BY EmptySeq DEF IsSeq, Range
<1>2. ASSUME NEW x
      PROVE  IsSeq(<<x>>) /\ Range(<<x>>) = {x}
  <2>1. DOMAIN <<x>> = {1} /\ <<x>>[1] = x
    OBVIOUS
  <2>2. Range(<<x>>) = {x}
    BY <2>1 DEF Range
  <2>3. QED
    BY <2>2 DEF IsSeq
<1>3. ASSUME NEW x, NEW y
      PROVE  IsSeq(<<x, y>>) /\ Range(<<x, y>>) = {x, y}
  <2>1. DOMAIN <<x, y>> = {1, 2} /\ <<x, y>>[1] = x /\ <<x, y>>[2] = y
    OBVIOUS
  <2>2. Range(<<x, y>>) = {x, y}
    BY <2>1 DEF Range
  <2>3. QED
    BY <2>2 DEF IsSeq
<1>4. QED
  BY <1>1, <1>2, <1>3

LEMMA Joined ==
  ASSUME NEW s, IsSeq(s), NEW t, IsSeq(t)
  PROVE  IsSeq(s \o t) /\ Range(s \o t) = Range(s) \cup Range(t)
<1>. DEFINE S == Range(s) \cup Range(t)
<1>1. s \in Seq(S) /\ t \in Seq(S)
  BY SeqMonotonic DEF IsSeq
<1>2. Range(s \o t) = S
  BY <1>1, RangeConcatenation
<1>3. s \o t \in Seq(S)
  BY <1>1, ConcatProperties
<1>4. QED
  BY <1>2, <1>3 DEF IsSeq

LEMMA Extended ==
  ASSUME NEW s, IsSeq(s), NEW x
  PROVE  IsSeq(Append(s, x)) /\ Range(Append(s, x)) = Range(s) \cup {x}
<1>. DEFINE S == Range(s) \cup {x}
<1>1. s \in Seq(S) /\ x \in S
  BY SeqMonotonic DEF IsSeq
<1>2. Append(s, x) = s \o <<x>>
  BY <1>1, AppendIsConcat
<1>3. QED
  BY <1>2, ShortSeqs, Joined

LEMMA Removed ==
  ASSUME NEW s, IsSeq(s), NEW i \in DOMAIN s
  PROVE  IsSeq(RemoveAt(s, i)) /\ Range(RemoveAt(s, i)) \subseteq Range(s)
<1>. DEFINE front == SubSeq(s, 1, i - 1)
            back == SubSeq(s, i + 1, Len(s))
            S == Range(s)
<1>1. Len(s) \in Nat /\ i \in 1..Len(s) /\ \A j \in 1..Len(s) : s[j] \in S
  BY SeqIs
<1>. HIDE DEF S
<1>2. /\ i - 1 \in Int /\ i + 1 \in Int /\ Len(s) \in Int
      /\ \A j \in 1..i - 1 : s[j] \in S
      /\ \A j \in i + 1..Len(s) : s[j] \in S
  BY <1>1
<1>3. front \in Seq(S) /\ back \in Seq(S)
  BY <1>2, SubSeqProperties
<1>4. front \o back \in Seq(S)
  BY <1>3, ConcatProperties
<1>5. RemoveAt(s, i) = front \o back
  BY DEF RemoveAt
<1>6. QED
  BY ZenonT(60), <1>4, <1>5, SeqsOf DEF S

LEMMA BackOf ==
  ASSUME NEW s, IsSeq(s), NEW k \in Nat
  PROVE  IsSeq(SubSeq(s, k + 1, Len(s))) /\ Range(SubSeq(s, k + 1, Len(s))) \subseteq Range(s)
<1>. DEFINE S == Range(s)
<1>1. Len(s) \in Nat /\ \A j \in 1..Len(s) : s[j] \in S
  BY SeqIs
<1>. HIDE DEF S
<1>2. k + 1 \in Int /\ Len(s) \in Int /\ \A j \in k + 1..Len(s) : s[j] \in S
  BY <1>1
<1>3. SubSeq(s, k + 1, Len(s)) \in Seq(S)
  BY <1>2, SubSeqProperties
<1>4. QED
  BY <1>3, SeqsOf DEF S

\* What is on its way comes from the other program or from elsewhere.
Sequences == Pair(net) /\ IsSeq(net.server) /\ IsSeq(net.client)

LEMMA Exchanged ==
  ASSUME Sequences, NEW i, NEW msgs, IsSeq(msgs)
  PROVE  /\ Exchange("server", i, msgs) /\ i \in DOMAIN net.server =>
              /\ Sequences' /\ Range(net'.server) \subseteq Range(net.server)
              /\ Range(net'.client) = Range(net.client) \cup Range(msgs)
         /\ Exchange("client", i, msgs) /\ i \in DOMAIN net.client =>
              /\ Sequences' /\ Range(net'.client) \subseteq Range(net.client)
              /\ Range(net'.server) = Range(net.server) \cup Range(msgs)
         /\ Send("server", msgs) =>
              /\ Sequences' /\ net'.server = net.server
              /\ Range(net'.client) = Range(net.client) \cup Range(msgs)
         /\ Send("client", msgs) =>
              /\ Sequences' /\ net'.client = net.client
              /\ Range(net'.server) = Range(net.server) \cup Range(msgs)
<1>1. Pair(net) /\ IsSeq(net.server) /\ IsSeq(net.client)
  BY DEF Sequences
<1>2. /\ IsSeq(net.server \o msgs) /\ Range(net.server \o msgs) = Range(net.server) \cup Range(msgs)
      /\ IsSeq(net.client \o msgs) /\ Range(net.client \o msgs) = Range(net.client) \cup Range(msgs)
  BY <1>1, Joined
<1>3. ASSUME Exchange("server", i, msgs), i \in DOMAIN net.server
      PROVE  /\ Sequences' /\ Range(net'.server) \subseteq Range(net.server)
             /\ Range(net'.client) = Range(net.client) \cup Range(msgs)
  <2>1. net' = [server |-> RemoveAt(net.server, i), client |-> net.client \o msgs]
    BY <1>1, <1>3, ExchangeIs
  <2>2. /\ IsSeq(RemoveAt(net.server, i))
        /\ Range(RemoveAt(net.server, i)) \subseteq Range(net.server)
    BY <1>1, <1>3, Removed
  <2>3. QED
    BY <1>2, <2>1, <2>2 DEF Sequences, Pair
<1>4. ASSUME Exchange("client", i, msgs), i \in DOMAIN net.client
      PROVE  /\ Sequences' /\ Range(net'.client) \subseteq Range(net.client)
             /\ Range(net'.server) = Range(net.server) \cup Range(msgs)
  <2>1. net' = [server |-> net.server \o msgs, client |-> RemoveAt(net.client, i)]
    BY <1>1, <1>4, ExchangeIs
  <2>2. /\ IsSeq(RemoveAt(net.client, i))
        /\ Range(RemoveAt(net.client, i)) \subseteq Range(net.client)
    BY <1>1, <1>4, Removed
  <2>3. QED
    BY <1>2, <2>1, <2>2 DEF Sequences, Pair
<1>5. ASSUME Send("server", msgs)
      PROVE  /\ Sequences' /\ net'.server = net.server
             /\ Range(net'.client) = Range(net.client) \cup Range(msgs)
  <2>1. net' = [server |-> net.server, client |-> net.client \o msgs]
    BY <1>1, <1>5, SendIs
  <2>2. QED
    BY <1>1, <1>2, <2>1 DEF Sequences, Pair
<1>6. ASSUME Send("client", msgs)
      PROVE  /\ Sequences' /\ net'.client = net.client
             /\ Range(net'.server) = Range(net.server) \cup Range(msgs)
  <2>1. net' = [server |-> net.server \o msgs, client |-> net.client]
    BY <1>1, <1>6, SendIs
  <2>2. QED
    BY <1>1, <1>2, <2>1 DEF Sequences, Pair
<1>7. QED
  BY <1>3, <1>4, <1>5, <1>6

LEMMA ServerTrades ==
  ASSUME Sequences, NEW i \in DOMAIN net.server, NEW msgs, IsSeq(msgs),
         Exchange("server", i, msgs)
  PROVE  /\ Sequences' /\ Range(net'.server) \subseteq Range(net.server)
         /\ Range(net'.client) = Range(net.client) \cup Range(msgs)
BY Exchanged

LEMMA ClientTrades ==
  ASSUME Sequences, NEW i \in DOMAIN net.client, NEW msgs, IsSeq(msgs),
         Exchange("client", i, msgs)
  PROVE  /\ Sequences' /\ Range(net'.client) \subseteq Range(net.client)
         /\ Range(net'.server) = Range(net.server) \cup Range(msgs)
BY Exchanged

LEMMA ClientAdds ==
  ASSUME Sequences, NEW msgs, IsSeq(msgs), Send("client", msgs)
  PROVE  /\ Sequences' /\ net'.client = net.client
         /\ Range(net'.server) = Range(net.server) \cup Range(msgs)
BY Exchanged

LEMMA ServerAdds ==
  ASSUME Sequences, NEW msgs, IsSeq(msgs), Send("server", msgs)
  PROVE  /\ Sequences' /\ net'.server = net.server
         /\ Range(net'.client) = Range(net.client) \cup Range(msgs)
BY Exchanged

\* The network loses and repeats what is on its way; a stranger adds to it.
LEMMA Disturbed ==
  ASSUME Sequences
  PROVE  /\ Lose \/ Duplicate =>
              /\ Sequences' /\ Range(net'.server) \subseteq Range(net.server)
              /\ Range(net'.client) \subseteq Range(net.client)
         /\ \A messages : OtherSends(messages) =>
              /\ Sequences' /\ net'.client = net.client /\ "other" \in faults
              /\ Range(net'.server) \subseteq Range(net.server) \cup messages
<1>1. /\ net = [server |-> net.server, client |-> net.client]
      /\ IsSeq(net.server) /\ IsSeq(net.client)
  BY DEF Sequences, Pair
<1>2. ASSUME Lose \/ Duplicate
      PROVE  /\ Sequences' /\ Range(net'.server) \subseteq Range(net.server)
             /\ Range(net'.client) \subseteq Range(net.client)
  <2>1. PICK p \in Programs : \E i \in DOMAIN net[p] : \E s :
          /\ net' = [net EXCEPT ![p] = s]
          /\ s = RemoveAt(net[p], i) \/ s = Append(net[p], net[p][i])
    BY <1>2 DEF Lose, Duplicate
  <2>0. PICK i \in DOMAIN net[p] : \E s :
          /\ net' = [net EXCEPT ![p] = s]
          /\ s = RemoveAt(net[p], i) \/ s = Append(net[p], net[p][i])
    BY <2>1
  <2>2. PICK s :
          /\ net' = [net EXCEPT ![p] = s]
          /\ s = RemoveAt(net[p], i) \/ s = Append(net[p], net[p][i])
    BY <2>0
  <2>3. IsSeq(net[p])
    BY <1>1 DEF Programs
  <2>4. IsSeq(s) /\ Range(s) \subseteq Range(net[p])
    <3>. DEFINE old == net[p]
                x == net[p][i]
    <3>1. i \in DOMAIN old /\ IsSeq(old) /\ x = old[i] /\ (s = RemoveAt(old, i) \/ s = Append(old, x))
      BY <2>2, <2>3
    <3>. HIDE DEF old, x
    <3>2. x \in Range(old)
      BY <3>1 DEF Range
    <3>3. IsSeq(s) /\ Range(s) \subseteq Range(old) \cup {x}
      <4>1. CASE s = RemoveAt(old, i)
        BY <3>1, <4>1, Removed
      <4>2. CASE s = Append(old, x)
        BY <3>1, <4>2, Extended
      <4>3. QED
        BY <3>1, <4>1, <4>2
    <3>4. QED
      BY <3>2, <3>3 DEF old
  <2>5. CASE p = "server"
    <3>1. net' = [server |-> s, client |-> net.client]
      BY <1>1, <2>2, <2>5
    <3>2. QED
      BY <1>1, <2>4, <2>5, <3>1 DEF Sequences, Pair
  <2>6. CASE p = "client"
    <3>1. net' = [server |-> net.server, client |-> s]
      BY <1>1, <2>2, <2>6
    <3>2. QED
      BY <1>1, <2>4, <2>6, <3>1 DEF Sequences, Pair
  <2>7. QED
    BY <2>5, <2>6 DEF Programs
<1>3. ASSUME NEW messages, OtherSends(messages)
      PROVE  /\ Sequences' /\ net'.client = net.client /\ "other" \in faults
             /\ Range(net'.server) \subseteq Range(net.server) \cup messages
  <2>1. PICK m \in messages : net' = [net EXCEPT !["server"] = Append(net["server"], m)]
    BY <1>3 DEF OtherSends
  <2>2. net' = [server |-> Append(net.server, m), client |-> net.client]
    BY <1>1, <2>1
  <2>3. /\ IsSeq(Append(net.server, m))
        /\ Range(Append(net.server, m)) = Range(net.server) \cup {m}
    BY <1>1, Extended
  <2>4. QED
    BY <1>1, <1>3, <2>2, <2>3 DEF Sequences, Pair, OtherSends
<1>4. QED
  BY <1>2, <1>3

-----------------------------------------------------------------------------
(***************************************************************************)
(* Http2Demo: the data of the streams.                                     *)
(***************************************************************************)
H2Messages ==
  {H2Frame(t) : t \in {"PREFACE", "SETTINGS"}}
    \cup {H2Stream(t, id) : t \in {"HEADERS", "DATA", "RST_STREAM"}, id \in Nat}

H2Mem == [seen : Nat, cancelled : BOOLEAN, stream : Nat, lines : Seq(Nat)]

LEMMA H2MessagesAre ==
  /\ \A t \in {"PREFACE", "SETTINGS"} : H2Frame(t) \in H2Messages /\ H2Frame(t).type = t
  /\ \A t \in {"HEADERS", "DATA", "RST_STREAM"}, id \in Nat :
       /\ H2Stream(t, id) \in H2Messages
       /\ H2Stream(t, id).type = t /\ H2Stream(t, id).id = id
  /\ \A m \in H2Messages : m.type \in {"HEADERS", "DATA", "RST_STREAM"} => m.id \in Nat
<1>1. \A t \in {"PREFACE", "SETTINGS"} : H2Frame(t) \in H2Messages /\ H2Frame(t).type = t
  BY DEF H2Messages, H2Frame
<1>2. \A t \in {"HEADERS", "DATA", "RST_STREAM"}, id \in Nat :
        /\ H2Stream(t, id) \in H2Messages
        /\ H2Stream(t, id).type = t /\ H2Stream(t, id).id = id
  BY DEF H2Messages, H2Stream
<1>3. ASSUME NEW m \in H2Messages, m.type \in {"HEADERS", "DATA", "RST_STREAM"}
      PROVE  m.id \in Nat
  BY <1>3 DEF H2Messages, H2Frame, H2Stream
<1>4. QED
  BY <1>1, <1>2, <1>3

\* The data that the client has written and that is on its way comes in the order in which
\* the server, which has sent n pieces, has numbered it.
Numbered(lines, channel, n) ==
  /\ \A j, k \in 1..Len(lines) : j < k => lines[j] < lines[k]
  /\ \A j \in 1..Len(lines) : lines[j] <= n
  /\ \A i \in 1..Len(channel) : channel[i].type = "DATA" =>
       channel[i].id <= n /\ \A j \in 1..Len(lines) : lines[j] < channel[i].id
  /\ \A i, k \in 1..Len(channel) :
       i < k /\ channel[i].type = "DATA" /\ channel[k].type = "DATA" =>
         channel[i].id < channel[k].id

H2Inv ==
  protocol = "http2" =>
    /\ Channels(H2Messages) /\ mem \in H2Mem /\ faults \in StreamFaults
    /\ Numbered(mem.lines, net.client, mem.seen)

LEMMA NumberedDrops ==
  ASSUME NEW S, NEW lines \in Seq(Nat), NEW old \in Seq(S), NEW new \in Seq(S), NEW n \in Nat,
         NEW k \in Nat, Drops(old, new, k), Numbered(lines, old, n)
  PROVE  Numbered(lines, new, n)
<1>1. \A i \in 1..Len(new) : new[i] = old[i + k] /\ i + k \in 1..Len(old)
  BY DEF Drops
<1>2. \A i, j \in 1..Len(new) : i < j => i + k < j + k
  OBVIOUS
<1>3. QED
  BY <1>1, <1>2 DEF Numbered

LEMMA ShrinksNumbered ==
  ASSUME NEW lines \in Seq(Nat), NEW old \in Seq(H2Messages), NEW new \in Seq(H2Messages),
         NEW n \in Nat, Shrinks(old, new), Numbered(lines, old, n)
  PROVE  Numbered(lines, new, n)
<1>1. Len(old) \in Nat /\ Len(new) \in Nat
  OBVIOUS
<1>2. Drops(old, new, 1)
  BY <1>1, ShrinksDrops
<1>3. QED
  BY <1>2, NumberedDrops

\* Frames that are not data come behind the others.
LEMMA NumberedQuiet ==
  ASSUME NEW lines \in Seq(Nat), NEW old \in Seq(H2Messages), NEW new \in Seq(H2Messages),
         NEW n \in Nat, NEW msgs \in Seq(H2Messages), Grows(old, new, msgs),
         \A i \in 1..Len(msgs) : msgs[i].type # "DATA", Numbered(lines, old, n)
  PROVE  Numbered(lines, new, n)
<1>1. Len(old) \in Nat /\ Len(msgs) \in Nat /\ Len(new) = Len(old) + Len(msgs)
  BY DEF Grows
<1>2. ASSUME NEW i \in 1..Len(new), new[i].type = "DATA"
      PROVE  i \in 1..Len(old) /\ new[i] = old[i]
  <2>1. CASE i \in 1..Len(old)
    BY <2>1 DEF Grows
  <2>2. CASE i \notin 1..Len(old)
    <3>. DEFINE k == i - Len(old)
    <3>1. k \in 1..Len(msgs) /\ i = Len(old) + k
      BY <1>1, <2>2
    <3>. HIDE DEF k
    <3>2. new[i] = msgs[k]
      BY <3>1 DEF Grows
    <3>3. QED
      BY <1>2, <3>1, <3>2
  <2>3. QED
    BY <2>1, <2>2
<1>3. QED
  BY <1>2 DEF Numbered

LEMMA NumberedGains ==
  ASSUME NEW lines \in Seq(Nat), NEW old \in Seq(H2Messages), NEW new \in Seq(H2Messages),
         NEW n \in Nat, NEW next \in Nat, NEW m \in H2Messages, Gains(old, new, m),
         Numbered(lines, old, n),
         IF m.type = "DATA" THEN m.id = n + 1 /\ next = n + 1 ELSE next = n
  PROVE  Numbered(lines, new, next)
<1>. DEFINE last == Len(old) + 1
<1>1. /\ Len(new) = last /\ new[last] = m
      /\ \A i \in 1..Len(old) : new[i] = old[i]
      /\ Len(old) \in Nat
  BY DEF Gains
<1>2. \A i \in 1..last : i \in 1..Len(old) \/ i = last
  BY <1>1
<1>3. \A i \in 1..Len(old) : old[i].type = "DATA" => old[i].id \in Nat
  BY H2MessagesAre
<1>4. \A j \in 1..Len(lines) : lines[j] \in Nat /\ lines[j] <= n
  BY DEF Numbered
<1>5. next \in {n, n + 1} /\ (m.type = "DATA" => m.id = n + 1 /\ next = n + 1)
  OBVIOUS
<1>. HIDE DEF last
<1>6. \A i \in 1..last : new[i].type = "DATA" =>
        new[i].id <= next /\ \A j \in 1..Len(lines) : lines[j] < new[i].id
  <2>1. ASSUME NEW i \in 1..Len(old), new[i].type = "DATA"
        PROVE  new[i].id <= next /\ \A j \in 1..Len(lines) : lines[j] < new[i].id
    <3>1. new[i] = old[i] /\ old[i].id \in Nat /\ old[i].id <= n
          /\ \A j \in 1..Len(lines) : lines[j] < old[i].id
      BY <1>1, <1>3, <2>1 DEF Numbered
    <3>2. QED
      BY <1>5, <3>1
  <2>2. ASSUME new[last].type = "DATA"
        PROVE  new[last].id <= next /\ \A j \in 1..Len(lines) : lines[j] < new[last].id
    BY <1>1, <1>4, <1>5, <2>2
  <2>3. QED
    BY <1>2, <2>1, <2>2
<1>7. \A i, k \in 1..last :
        i < k /\ new[i].type = "DATA" /\ new[k].type = "DATA" => new[i].id < new[k].id
  <2>. SUFFICES ASSUME NEW i \in 1..last, NEW k \in 1..last, i < k,
                       new[i].type = "DATA", new[k].type = "DATA"
                PROVE  new[i].id < new[k].id
    OBVIOUS
  <2>1. i \in 1..Len(old)
    BY <1>1 DEF last
  <2>2. new[i] = old[i] /\ old[i].id \in Nat /\ old[i].id <= n
    BY <1>1, <1>3, <2>1 DEF Numbered
  <2>3. CASE k \in 1..Len(old)
    BY <1>1, <2>1, <2>2, <2>3 DEF Numbered
  <2>4. CASE k = last
    BY <1>1, <1>5, <2>2, <2>4
  <2>5. QED
    BY <1>2, <2>3, <2>4
<1>8. \A j \in 1..Len(lines) : lines[j] <= next
  BY <1>4, <1>5
<1>9. QED
  BY <1>1, <1>6, <1>7, <1>8 DEF Numbered

\* The client writes the first of the pieces on their way.
LEMMA NumberedMoves ==
  ASSUME NEW lines \in Seq(Nat), NEW old \in Seq(H2Messages), NEW new \in Seq(H2Messages),
         NEW n \in Nat, Numbered(lines, old, n), old # <<>>, Shrinks(old, new),
         old[1].type = "DATA", NEW more \in Seq(Nat), Gains(lines, more, old[1].id)
  PROVE  Numbered(more, new, n)
<1>. DEFINE m == old[1]
            last == Len(lines) + 1
<1>1. m \in H2Messages /\ 1 \in 1..Len(old)
  BY FirstOf
<1>2. m.id \in Nat /\ m.id <= n /\ \A j \in 1..Len(lines) : lines[j] < m.id
  BY <1>1, H2MessagesAre DEF Numbered
<1>3. /\ Len(more) = last /\ more[last] = m.id /\ Len(lines) \in Nat
      /\ \A j \in 1..Len(lines) : more[j] = lines[j]
  BY DEF Gains
<1>4. \A j \in 1..last : j \in 1..Len(lines) \/ j = last
  BY <1>3
<1>5. \A i \in 1..Len(new) : /\ new[i] = old[i + 1] /\ i + 1 \in 1..Len(old) /\ 1 < i + 1
  <2>1. Len(old) \in Nat /\ Len(new) \in Nat
    OBVIOUS
  <2>2. \A i \in 1..Len(new) : new[i] = old[i + 1] /\ i + 1 \in 1..Len(old)
    BY <2>1, ShrinksIs
  <2>3. QED
    BY <2>2
<1>6. \A i \in 1..Len(new) : new[i].type = "DATA" => m.id < new[i].id
  BY <1>1, <1>5 DEF Numbered
<1>7. \A i, k \in 1..Len(new) :
        i < k /\ new[i].type = "DATA" /\ new[k].type = "DATA" => new[i].id < new[k].id
  <2>1. \A i, k \in 1..Len(new) : i < k => i + 1 < k + 1
    OBVIOUS
  <2>2. QED
    BY <1>5, <2>1 DEF Numbered
<1>. HIDE DEF last, m
<1>8. \A j, k \in 1..last : j < k => more[j] < more[k]
  <2>. SUFFICES ASSUME NEW j \in 1..last, NEW k \in 1..last, j < k
                PROVE  more[j] < more[k]
    OBVIOUS
  <2>1. j \in 1..Len(lines)
    BY <1>3 DEF last
  <2>2. CASE k \in 1..Len(lines)
    BY <1>3, <2>1, <2>2 DEF Numbered
  <2>3. CASE k = last
    BY <1>2, <1>3, <2>1, <2>3
  <2>4. QED
    BY <1>4, <2>2, <2>3
<1>9. \A j \in 1..last : more[j] <= n
  BY <1>2, <1>3, <1>4 DEF Numbered
<1>10. ASSUME NEW i \in 1..Len(new), new[i].type = "DATA"
       PROVE  new[i].id <= n /\ \A j \in 1..last : more[j] < new[i].id
  <2>1. /\ new[i].id <= n /\ m.id < new[i].id
        /\ \A j \in 1..Len(lines) : lines[j] < new[i].id
    BY <1>5, <1>6, <1>10 DEF Numbered
  <2>2. QED
    BY <1>3, <1>4, <2>1
<1>11. QED
  BY <1>3, <1>7, <1>8, <1>9, <1>10 DEF Numbered

LEMMA H2Initially == Init => H2Inv
<1>. SUFFICES ASSUME Init, protocol = "http2"
              PROVE  /\ Channels(H2Messages) /\ mem \in H2Mem /\ faults \in StreamFaults
                     /\ Numbered(mem.lines, net.client, mem.seen)
  BY DEF H2Inv
<1>1. Http2Init
  BY DEF Init, QuicInit, RadiusInit, SipInit, DnsInit, TcpInit, MqttInit, WebInit, WsInit,
         PacketInit, DigestInit, RequestInit, FramesInit
<1>2. /\ net.server = <<>> /\ net.client = <<>> /\ Pair(net) /\ faults \in StreamFaults
      /\ mem = [seen |-> 0, cancelled |-> FALSE, stream |-> 1, lines |-> <<>>]
  BY <1>1, PlacesInit DEF Http2Init
<1>3. <<>> \in Seq(H2Messages) /\ <<>> \in Seq(Nat) /\ Len(<<>>) = 0
  BY EmptySeq
<1>4. mem \in H2Mem /\ mem.lines = <<>>
  BY <1>2, <1>3 DEF H2Mem
<1>5. QED
  BY <1>2, <1>3, <1>4 DEF Channels, Numbered

LEMMA H2Step ==
  ASSUME [Next]_demoVars, protocol = "http2", faults \in StreamFaults
  PROVE  H2Server \/ H2Client \/ UNCHANGED demoVars
BY StreamsReliable DEF Next, Server, Client, Strangers, Lose, Duplicate, TcpFamily, WebFamily

H2Parts ==
  Channels(H2Messages) /\ mem \in H2Mem /\ Numbered(mem.lines, net.client, mem.seen)

LEMMA H2ServerNext ==
  ASSUME H2Parts, H2Server
  PROVE  H2Parts'
<1>1. /\ Channels(H2Messages) /\ mem \in H2Mem /\ Numbered(mem.lines, net.client, mem.seen)
      /\ net.server \in Seq(H2Messages) /\ net.client \in Seq(H2Messages)
      /\ mem.seen \in Nat /\ mem.lines \in Seq(Nat)
  BY DEF H2Parts, Channels, H2Mem
<1>2. CASE mem' = mem /\ net' = net
  BY <1>1, <1>2 DEF H2Parts, Channels, Pair
<1>3. CASE H2ServerPreface \/ H2ServerOtherFrame
  <2>1. /\ net.server # <<>> /\ Exchange("server", 1, <<>>)
        /\ mem' = mem \/ \E c \in BOOLEAN : mem' = [mem EXCEPT !.cancelled = c]
    <3>1. (mem.cancelled \/ Head(net.server).type = "RST_STREAM") \in BOOLEAN
      BY <1>1 DEF H2Mem
    <3>2. QED
      BY <1>3, <3>1 DEF H2ServerPreface, H2ServerOtherFrame
  <2>2. Channels(H2Messages)' /\ net'.client = net.client
    BY <1>1, <2>1, ServerTakes
  <2>3. mem' \in H2Mem /\ mem'.lines = mem.lines /\ mem'.seen = mem.seen
    BY <1>1, <2>1 DEF H2Mem
  <2>4. QED
    BY <1>1, <2>2, <2>3 DEF H2Parts
<1>4. CASE H2ServerSettings
  <2>. DEFINE m == H2Frame("SETTINGS")
              one == <<m>>
  <2>1. m \in H2Messages /\ m.type = "SETTINGS"
    BY H2MessagesAre
  <2>2. net.server # <<>> /\ Exchange("server", 1, <<m, m>>) /\ mem' = mem
    BY <1>4 DEF H2ServerSettings
  <2>. HIDE DEF m
  <2>3. <<m, m>> \in Seq(H2Messages) /\ Len(<<m, m>>) = 2
        /\ \A i \in 1..2 : <<m, m>>[i] = m
    BY <2>1
  <2>4. Channels(H2Messages)' /\ Grows(net.client, net'.client, <<m, m>>)
    BY <1>1, <2>2, <2>3, ServerExchanges
  <2>5. net'.client \in Seq(H2Messages)
    BY <2>4 DEF Channels
  <2>6. Numbered(mem.lines, net'.client, mem.seen)
    BY <1>1, <2>1, <2>3, <2>4, <2>5, NumberedQuiet
  <2>7. QED
    BY <1>1, <2>2, <2>4, <2>6 DEF H2Parts
<1>5. CASE H2ServerHeaders \/ H2ServerOverflow
  <2>1. PICK t \in {"HEADERS", "RST_STREAM"} :
          /\ net.server # <<>> /\ Head(net.server).type = "HEADERS" /\ mem' = mem
          /\ Exchange("server", 1, <<H2Stream(t, Head(net.server).id)>>)
    BY <1>5 DEF H2ServerHeaders, H2ServerOverflow
  <2>. DEFINE m == H2Stream(t, Head(net.server).id)
  <2>2. Head(net.server).id \in Nat
    BY <1>1, <2>1, FirstOf, H2MessagesAre
  <2>3. m \in H2Messages /\ m.type # "DATA"
    BY <2>2, H2MessagesAre
  <2>4. Exchange("server", 1, <<m>>)
    BY <2>1
  <2>. HIDE DEF m
  <2>5. Channels(H2Messages)' /\ Gains(net.client, net'.client, m)
    BY <1>1, <2>1, <2>3, <2>4, ServerAnswers
  <2>6. net'.client \in Seq(H2Messages)
    BY <2>5 DEF Channels
  <2>7. Numbered(mem.lines, net'.client, mem.seen)
    BY <1>1, <2>3, <2>5, <2>6, NumberedGains
  <2>8. QED
    BY <1>1, <2>1, <2>5, <2>7 DEF H2Parts
<1>6. CASE H2ServerBody
  <2>. DEFINE next == mem.seen + 1
              m == H2Stream("DATA", next)
  <2>1. mem' = [mem EXCEPT !.seen = next] /\ next \in Nat
    BY <1>1, <1>6 DEF H2ServerBody
  <2>2. mem' \in H2Mem /\ mem'.lines = mem.lines /\ mem'.seen = next
    BY <1>1, <2>1 DEF H2Mem
  <2>3. Send("server", <<m>>)
    BY <1>6, <2>2 DEF H2ServerBody
  <2>4. m \in H2Messages /\ m.type = "DATA" /\ m.id = next
    BY <2>1, H2MessagesAre
  <2>. HIDE DEF m
  <2>5. Channels(H2Messages)' /\ Gains(net.client, net'.client, m)
    BY <1>1, <2>3, <2>4, ServerSendsOne
  <2>6. net'.client \in Seq(H2Messages)
    BY <2>5 DEF Channels
  <2>7. Numbered(mem.lines, net'.client, next)
    BY <1>1, <2>1, <2>4, <2>5, <2>6, NumberedGains
  <2>8. QED
    BY <2>2, <2>5, <2>7 DEF H2Parts
<1>7. QED
  BY <1>2, <1>3, <1>4, <1>5, <1>6
     DEF H2Server, H2ServerReceiveFails, H2ServerSendBreaks

LEMMA H2ClientNext ==
  ASSUME H2Parts, H2Client
  PROVE  H2Parts'
<1>1. /\ Channels(H2Messages) /\ mem \in H2Mem /\ Numbered(mem.lines, net.client, mem.seen)
      /\ net.server \in Seq(H2Messages) /\ net.client \in Seq(H2Messages)
      /\ mem.seen \in Nat /\ mem.lines \in Seq(Nat) /\ mem.stream \in Nat
  BY DEF H2Parts, Channels, H2Mem
<1>2. CASE /\ mem' = mem \/ mem' = [mem EXCEPT !.stream = mem.stream + 1]
           /\ net' = net
  <2>1. mem' \in H2Mem /\ mem'.lines = mem.lines /\ mem'.seen = mem.seen
    BY <1>1, <1>2 DEF H2Mem
  <2>2. QED
    BY <1>1, <1>2, <2>1 DEF H2Parts, Channels, Pair
<1>3. CASE H2ClientStart /\ net' # net
  <2>. DEFINE first == H2Frame("PREFACE")
              second == H2Frame("SETTINGS")
              msgs == <<first, second>>
  <2>1. Send("client", msgs) /\ mem' = mem
    BY <1>3 DEF H2ClientStart
  <2>2. first \in H2Messages /\ second \in H2Messages
    BY H2MessagesAre
  <2>. HIDE DEF first, second
  <2>3. msgs \in Seq(H2Messages)
    BY <2>2
  <2>. HIDE DEF msgs
  <2>4. Channels(H2Messages)' /\ net'.client = net.client
    BY <1>1, <2>1, <2>3, ClientSends
  <2>5. QED
    BY <1>1, <2>1, <2>4 DEF H2Parts
<1>4. CASE H2ClientSettings
  <2>. DEFINE asks == [k \in 1..H2Streams |-> H2Stream("HEADERS", k)]
              rest == SubSeq(net.client, 2 + 1, Len(net.client))
              ack == Append(net.server, H2Frame("SETTINGS"))
  <2>1. /\ 2 \in 0..Len(net.client) /\ mem' = mem
        /\ net' = [server |-> ack \o asks, client |-> rest]
    <3>1. /\ Len(net.client) >= 2 /\ mem' = mem
          /\ net' = [net EXCEPT !.client = SubSeq(net.client, 3, Len(net.client)),
                                !.server = ack \o asks]
      BY <1>4 DEF H2ClientSettings
    <3>2. 2 + 1 = 3 /\ 2 \in 0..Len(net.client)
      BY <1>1, <3>1
    <3>. HIDE DEF asks, ack
    <3>3. net = [server |-> net.server, client |-> net.client]
      BY <1>1 DEF Channels, Pair
    <3>4. net' = [server |-> ack \o asks, client |-> SubSeq(net.client, 3, Len(net.client))]
      BY <3>1, <3>3
    <3>5. QED
      BY <3>1, <3>2, <3>4
  <2>2. H2Streams \in Nat
    BY Http2Assumption DEF H2Streams
  <2>3. asks \in Seq(H2Messages)
    BY <2>2, H2MessagesAre
  <2>4. ack \in Seq(H2Messages)
    BY <1>1, H2MessagesAre, Appended
  <2>5. rest \in Seq(H2Messages) /\ Drops(net.client, rest, 2)
    BY <1>1, <2>1, Dropped
  <2>. HIDE DEF asks, ack, rest
  <2>6. ack \o asks \in Seq(H2Messages)
    BY <2>3, <2>4, ConcatProperties
  <2>7. Numbered(mem.lines, rest, mem.seen)
    BY <1>1, <2>5, NumberedDrops
  <2>8. QED
    BY <1>1, <2>1, <2>5, <2>6, <2>7 DEF H2Parts, Channels, Pair
<1>5. CASE H2ClientHeaders \/ H2ClientLost
  <2>1. PICK t \in {"RST_STREAM"} :
          /\ net.client # <<>> /\ mem' = mem
          /\ \/ Exchange("client", 1, <<H2Stream(t, mem.stream)>>)
             \/ Exchange("client", 1, <<>>)
    BY <1>5 DEF H2ClientHeaders, H2ClientLost
  <2>. DEFINE m == H2Stream(t, mem.stream)
  <2>2. m \in H2Messages
    BY <1>1, H2MessagesAre
  <2>. HIDE DEF m
  <2>3. Channels(H2Messages)' /\ Shrinks(net.client, net'.client)
    BY <1>1, <2>1, <2>2, ClientAnswers, ClientTakes DEF m
  <2>4. Numbered(mem.lines, net'.client, mem.seen)
    BY <1>1, <2>3, ShrinksNumbered DEF Channels
  <2>5. QED
    BY <1>1, <2>1, <2>3, <2>4 DEF H2Parts
<1>6. CASE H2ClientData
  <2>. DEFINE m == Head(net.client)
  <2>1. net.client # <<>> /\ Exchange("client", 1, <<>>)
    BY <1>6 DEF H2ClientData
  <2>2. m = net.client[1] /\ m \in H2Messages
    BY <1>1, <2>1, FirstOf
  <2>3. Channels(H2Messages)' /\ Shrinks(net.client, net'.client)
    BY <1>1, <2>1, ClientTakes
  <2>4. net'.client \in Seq(H2Messages)
    BY <2>3 DEF Channels
  <2>5. \/ /\ m.type = "DATA"
           /\ mem' = [mem EXCEPT !.lines = Append(mem.lines, m.id), !.stream = mem.stream + 1]
        \/ mem' = [mem EXCEPT !.stream = mem.stream + 1]
    BY <1>6 DEF H2ClientData
  <2>. HIDE DEF m
  <2>6. CASE mem' = [mem EXCEPT !.stream = mem.stream + 1]
    <3>1. mem' \in H2Mem /\ mem'.lines = mem.lines /\ mem'.seen = mem.seen
      BY <1>1, <2>6 DEF H2Mem
    <3>2. Numbered(mem.lines, net'.client, mem.seen)
      BY <1>1, <2>3, <2>4, ShrinksNumbered
    <3>3. QED
      BY <2>3, <3>1, <3>2 DEF H2Parts
  <2>7. CASE m.type = "DATA"
             /\ mem' = [mem EXCEPT !.lines = Append(mem.lines, m.id), !.stream = mem.stream + 1]
    <3>. DEFINE more == Append(mem.lines, m.id)
                next == mem.stream + 1
    <3>1. m.id \in Nat
      BY <2>2, <2>7, H2MessagesAre
    <3>2. more \in Seq(Nat) /\ Gains(mem.lines, more, m.id)
      BY <1>1, <3>1, Appended
    <3>3. mem' = [mem EXCEPT !.lines = more, !.stream = next] /\ next \in Nat
      BY <1>1, <2>7
    <3>. HIDE DEF more, next
    <3>4. mem' \in H2Mem /\ mem'.lines = more /\ mem'.seen = mem.seen
      BY <1>1, <3>2, <3>3 DEF H2Mem
    <3>5. Numbered(more, net'.client, mem.seen)
      BY <1>1, <2>1, <2>2, <2>3, <2>4, <2>7, <3>2, NumberedMoves
    <3>6. QED
      BY <2>3, <3>4, <3>5 DEF H2Parts
  <2>8. QED
    BY <2>5, <2>6, <2>7
<1>7. QED
  <2>1. CASE H2ClientSettingsFail \/ H2ClientSkips \/ H2ClientLostEnds
    BY <1>2, <2>1 DEF H2ClientSettingsFail, H2ClientSkips, H2ClientLostEnds
  <2>2. CASE H2ClientStart
    <3>1. mem' = mem
      BY <2>2 DEF H2ClientStart
    <3>2. QED
      BY <1>2, <1>3, <2>2, <3>1
  <2>3. QED
    BY <1>4, <1>5, <1>6, <2>1, <2>2 DEF H2Client

LEMMA H2NextKeeps == H2Inv /\ [Next]_demoVars => H2Inv'
<1>. SUFFICES ASSUME H2Inv, [Next]_demoVars, protocol' = "http2"
              PROVE  H2Parts' /\ faults' \in StreamFaults
  BY DEF H2Inv, H2Parts
<1>1. SettingsStay /\ protocol = "http2"
  BY SettingsKept DEF SettingsStay
<1>2. H2Parts /\ faults \in StreamFaults /\ faults' = faults
  BY <1>1 DEF H2Inv, H2Parts, SettingsStay
<1>3. CASE UNCHANGED demoVars
  BY <1>2, <1>3 DEF demoVars, H2Parts, Channels, Pair, Numbered
<1>4. QED
  BY <1>1, <1>2, <1>3, H2Step, H2ServerNext, H2ClientNext

-----------------------------------------------------------------------------
(***************************************************************************)
(* What the clients write, in order.                                       *)
(***************************************************************************)
LEMMA PrefixIs ==
  ASSUME NEW S, NEW s \in Seq(S), NEW t \in Seq(S), Len(s) <= Len(t),
         \A i \in 1..Len(s) : s[i] = t[i]
  PROVE  IsPrefix(s, t) /\ SubSeq(t, 1, Len(s)) = s
<1>. DEFINE front == SubSeq(t, 1, Len(s))
<1>1. Len(s) \in Nat /\ Len(t) \in Nat
  OBVIOUS
<1>2. 1 \in 1..Len(t) + 1 /\ Len(s) \in 1 - 1..Len(t)
  BY <1>1
<1>3. /\ front \in Seq(S) /\ Len(front) = IF 1 <= Len(s) THEN Len(s) - 1 + 1 ELSE 0
      /\ \A i \in 1..Len(front) : front[i] = t[1 + i - 1]
  BY <1>2, SubSeqProperties
<1>. HIDE DEF front
<1>4. Len(front) = Len(s)
  BY <1>1, <1>3
<1>5. \A i \in 1..Len(s) : front[i] = s[i]
  BY <1>1, <1>3, <1>4
<1>6. front = s
  BY <1>3, <1>4, <1>5, SeqEqual
<1>7. QED
  BY <1>6 DEF IsPrefix, front

LEMMA SequenceFollows == TcpInv /\ H2Inv => WritesInSequence
<1>1. ASSUME TcpInv, protocol \in TcpFamily
      PROVE  /\ IsPrefix(written, content)
             /\ protocol = "tls-like" =>
                  /\ Len(written) = mem.seen
                  /\ scenario = "tampered-app-data" => written = <<>>
                  /\ scenario = "replay" => Len(written) <= 1
  <2>1. TcpShape /\ WrittenInv
    BY <1>1 DEF TcpInv, SequenceInv
  <2>2. /\ written \in Seq(Data) /\ content \in Seq(Data)
        /\ Len(written) \in Nat /\ Len(content) \in Nat /\ mem.sent \in Nat
    BY <2>1 DEF TcpShape, TcpMem
  <2>3. Len(written) <= Len(content) /\ \A i \in 1..Len(written) : written[i] = content[i]
    BY <2>1, <2>2 DEF WrittenInv
  <2>4. IsPrefix(written, content)
    BY <2>2, <2>3, PrefixIs
  <2>5. QED
    BY <2>1, <2>2, <2>4 DEF WrittenInv
<1>2. ASSUME H2Inv, protocol = "http2"
      PROVE  \A j, k \in DOMAIN mem.lines : j < k => mem.lines[j] < mem.lines[k]
  <2>1. mem.lines \in Seq(Nat) /\ Numbered(mem.lines, net.client, mem.seen)
    BY <1>2 DEF H2Inv, H2Mem
  <2>2. DOMAIN mem.lines = 1..Len(mem.lines)
    BY <2>1
  <2>3. QED
    BY <2>1, <2>2 DEF Numbered
<1>3. QED
  BY <1>1, <1>2 DEF WritesInSequence, TcpFamily

\* The clients of tcp-basic, tls-like and http2 write what the server sends in its order:
\* a front part of the file, nothing that was tampered with or replayed, and the data of
\* no stream twice, however many streams and units there are.
THEOREM WrittenInOrder == Spec => []WritesInSequence
<1>1. Init => TcpInv /\ H2Inv
  BY TcpInitially, H2Initially
<1>2. (TcpInv /\ H2Inv) /\ [Next]_demoVars => (TcpInv /\ H2Inv)'
  BY TcpNextKeeps, H2NextKeeps
<1>3. QED
  BY <1>1, <1>2, SequenceFollows, PTL DEF Spec

-----------------------------------------------------------------------------
(***************************************************************************)
(* WebDemo with http-basic: who has the password.                          *)
(***************************************************************************)
Secret == mem.passwords[1]

HttpMem ==
  [passwords : Attempts, asked : Nat, authed : BOOLEAN, last : {"none"}, step : {0, 3}]

HttpParts ==
  /\ scenario \in HttpScenarios
  /\ Sequences /\ Pair(at) /\ Pair(results) /\ mem \in HttpMem
  /\ at.server # "exit" => results.server = <<>>
  /\ \A m \in Range(net.server) : m.path = "auth" /\ m.good => Secret
  /\ mem.authed => Secret
  /\ mem.step = 3 => Secret
  /\ "OK" \in Range(results.server) => Secret
  /\ written = <<>>

HttpInv == protocol = "http-basic" => HttpParts

LEMMA SecretIs == ASSUME mem.passwords \in Attempts PROVE Secret \in BOOLEAN
BY DemoAttemptsAssumption DEF Secret

LEMMA HttpInitially == Init => HttpInv
<1>. SUFFICES ASSUME Init, protocol = "http-basic"
              PROVE  HttpParts
  BY DEF HttpInv
<1>1. WebInit
  BY DEF Init, QuicInit, RadiusInit, SipInit, DnsInit, TcpInit, MqttInit, Http2Init, WsInit,
         PacketInit, DigestInit, RequestInit, FramesInit
<1>2. /\ net.server = <<>> /\ net.client = <<>> /\ Pair(net) /\ Pair(at) /\ Pair(results)
      /\ results.server = <<>> /\ written = <<>>
  BY <1>1, PlacesInit DEF WebInit, NoFiles
<1>. scenario \in HttpScenarios
  BY <1>1 DEF WebInit
<1>3. \E passwords \in Attempts :
        mem = [passwords |-> passwords, asked |-> 0, authed |-> FALSE,
               last |-> "none", step |-> 0]
  BY <1>1 DEF WebInit
<1>4. mem \in HttpMem /\ ~mem.authed /\ mem.step = 0
  BY <1>3 DEF HttpMem
<1>5. QED
  BY <1>2, <1>4, ShortSeqs DEF HttpParts, Sequences

\* What the client asks for, one after the other.
LEMMA HttpAsks ==
  ASSUME protocol = "http-basic", scenario \in HttpScenarios
  PROVE  /\ Len(Script) \in Nat \ {0}
         /\ \A k \in 1..Len(Script) :
              Script[k].request.path = "auth" /\ Script[k].request.good => Secret
BY DEF Script, HttpScript, HttpScenarios, HttpRequest, Secret

LEMMA HttpServerNext ==
  ASSUME HttpParts, SettingsStay, protocol = "http-basic", WebServer
  PROVE  HttpParts'
<1>1. /\ Sequences /\ Pair(at) /\ Pair(results) /\ mem \in HttpMem /\ scenario' = scenario
      /\ Secret \in BOOLEAN /\ (net.server # <<>> => 1 \in DOMAIN net.server)
  BY SecretIs, SeqIs DEF HttpParts, HttpMem, Sequences, SettingsStay
<1>2. /\ at.server = "accept" /\ written' = written
      /\ net' = net \/ (net.server # <<>> /\ \E msgs : /\ IsSeq(msgs)
                                                      /\ Exchange("server", 1, msgs))
  <2>1. CASE WebServerServes
    BY <2>1, ShortSeqs DEF WebServerServes, fileVars
  <2>2. CASE WebServerInterrupted
    BY <2>2, ShortSeqs DEF WebServerInterrupted, quietVars
  <2>3. QED
    BY <2>1, <2>2 DEF WebServer
<1>3. Sequences' /\ Range(net'.server) \subseteq Range(net.server)
  <2>1. CASE net' = net
    BY <1>1, <2>1 DEF Sequences, Pair
  <2>2. CASE net' # net
    BY <1>1, <1>2, <2>2, ServerTrades
  <2>3. QED
    BY <2>1, <2>2
<1>4. /\ mem' \in HttpMem /\ Secret' = Secret
      /\ mem'.authed => Secret
      /\ mem'.step = 3 => Secret
  <2>1. CASE mem' = mem
    BY <1>1, <2>1 DEF HttpParts, Secret
  <2>2. CASE mem' # mem
    <3>. DEFINE m == Head(net.server)
    <3>1. WebServerServes /\ net.server # <<>> /\ ~(HttpStatus(m) >= 400) /\ mem' = HttpServed(m)
      BY <1>1, <2>2
         DEF WebServer, WebServerServes, WebServerInterrupted, WebStatus, WebServed
    <3>2. m \in Range(net.server)
      BY <1>1, <3>1, SeqIs DEF Sequences
    <3>3. m.path = "auth" => m.good
      BY <3>1 DEF HttpStatus
    <3>4. m.path = "upload" => mem.authed
      BY <3>1 DEF HttpStatus
    <3>5. /\ m.path \in {"auth", "upload"}
          /\ m.path = "auth" => mem' = [mem EXCEPT !.authed = TRUE]
          /\ m.path = "upload" => mem' = [mem EXCEPT !.step = 3]
      BY <2>2, <3>1 DEF HttpServed
    <3>6. Secret
      BY <3>2, <3>3, <3>4, <3>5 DEF HttpParts
    <3>7. mem' \in HttpMem /\ mem'.passwords = mem.passwords
      BY <1>1, <3>5 DEF HttpMem
    <3>8. QED
      BY <3>6, <3>7 DEF Secret
  <2>3. QED
    BY <2>1, <2>2
<1>5. /\ Pair(at') /\ Pair(results')
      /\ at'.server # "exit" => results'.server = <<>>
      /\ "OK" \in Range(results'.server) => Secret
  <2>1. results.server = <<>>
    BY <1>2 DEF HttpParts
  <2>2. Goto("server", "accept") \/ Finish("server", WebResult(mem'.step))
    BY DEF WebServer, WebServerServes, WebServerInterrupted
  <2>3. CASE Goto("server", "accept")
    <3>1. at' = [server |-> "accept", client |-> at.client] /\ results' = results
      BY <1>1, <2>3, GotoIs
    <3>2. QED
      BY <1>1, <2>1, <3>1, ShortSeqs DEF Pair
  <2>4. CASE Finish("server", WebResult(mem'.step))
    <3>1. /\ at' = [server |-> "exit", client |-> at.client]
          /\ results' = [server |-> results.server \o WebResult(mem'.step),
                         client |-> results.client]
      BY <1>1, <2>4, FinishIs
    <3>2. results'.server = WebResult(mem'.step)
      BY <2>1, <3>1, Printed DEF WebResult
    <3>3. "OK" \in Range(results'.server) => mem'.step >= 3
      BY <3>2, Printed DEF WebResult
    <3>4. mem'.step >= 3 => mem'.step = 3
      BY <1>4 DEF HttpMem
    <3>5. QED
      BY <1>4, <3>1, <3>3, <3>4 DEF Pair
  <2>5. QED
    BY <2>2, <2>3, <2>4
<1>6. QED
  BY <1>1, <1>2, <1>3, <1>4, <1>5 DEF HttpParts

LEMMA HttpClientNext ==
  ASSUME HttpParts, SettingsStay, protocol = "http-basic", WebClient
  PROVE  HttpParts'
<1>1. /\ Sequences /\ Pair(at) /\ Pair(results) /\ mem \in HttpMem /\ scenario' = scenario
      /\ Secret \in BOOLEAN /\ (net.client # <<>> => 1 \in DOMAIN net.client)
  BY SecretIs, SeqIs DEF HttpParts, HttpMem, Sequences, SettingsStay
<1>2. /\ Len(Script) \in Nat \ {0}
      /\ \A k \in 1..Len(Script) :
           Script[k].request.path = "auth" /\ Script[k].request.good => Secret
  BY HttpAsks DEF HttpParts
<1>3. PICK next \in Nat :
        /\ mem' = mem \/ mem' = [mem EXCEPT !.asked = next]
        /\ written' = written
        /\ \/ net' = net
           \/ net.client # <<>> /\ Exchange("client", 1, <<>>)
           \/ /\ next \in 1..Len(Script)
              /\ \/ net.client # <<>> /\ Exchange("client", 1, <<Script[next].request>>)
                 \/ Send("client", <<Script[next].request>>)
  <2>1. mem.asked \in Nat
    BY <1>1 DEF HttpMem
  <2>2. CASE WebClientStart
    <3>1. 1 \in 1..Len(Script) /\ 1 \in Nat
      BY <1>2
    <3>2. QED
      BY <2>2, <3>1 DEF WebClientStart, quietVars
  <2>3. CASE WebClientFails
    BY <2>1, <2>3 DEF WebClientFails, quietVars
  <2>4. CASE WebClientResponse
    <3>. DEFINE next == mem.asked + 1
    <3>1. next \in Nat /\ (mem.asked < Len(Script) => next \in 1..Len(Script))
      BY <1>2, <2>1
    <3>2. /\ net.client # <<>> /\ written' = written
          /\ \/ /\ mem.asked < Len(Script) /\ mem' = [mem EXCEPT !.asked = next]
                /\ Exchange("client", 1, <<Script[next].request>>)
             \/ mem' = mem /\ Exchange("client", 1, <<>>)
      BY <2>4 DEF WebClientResponse, quietVars
    <3>. HIDE DEF next
    <3>3. QED
      BY <3>1, <3>2
  <2>5. QED
    BY <2>2, <2>3, <2>4 DEF WebClient
<1>4. mem' \in HttpMem /\ mem'.authed = mem.authed /\ mem'.step = mem.step /\ Secret' = Secret
  BY <1>1, <1>3 DEF HttpMem, Secret
<1>5. Sequences' /\ \A m \in Range(net'.server) : m.path = "auth" /\ m.good => Secret
  <2>1. CASE net' = net
    BY <1>1, <2>1 DEF HttpParts, Sequences, Pair
  <2>2. CASE net.client # <<>> /\ Exchange("client", 1, <<>>)
    <3>. DEFINE msgs == <<>>
    <3>1. Exchange("client", 1, msgs) /\ IsSeq(msgs) /\ Range(msgs) = {}
      BY <2>2, ShortSeqs
    <3>. HIDE DEF msgs
    <3>2. Sequences' /\ Range(net'.server) = Range(net.server)
      BY <1>1, <2>2, <3>1, ClientTrades
    <3>3. QED
      BY <3>2 DEF HttpParts
  <2>3. CASE /\ next \in 1..Len(Script)
             /\ \/ net.client # <<>> /\ Exchange("client", 1, <<Script[next].request>>)
                \/ Send("client", <<Script[next].request>>)
    <3>. DEFINE ask == Script[next].request
    <3>1. ask.path = "auth" /\ ask.good => Secret
      BY <1>2, <2>3
    <3>. DEFINE msgs == <<ask>>
    <3>2. /\ \/ net.client # <<>> /\ Exchange("client", 1, msgs)
             \/ Send("client", msgs)
          /\ IsSeq(msgs) /\ Range(msgs) = {ask}
      BY <2>3, ShortSeqs
    <3>. HIDE DEF ask, msgs
    <3>3. Sequences' /\ Range(net'.server) = Range(net.server) \cup {ask}
      BY <1>1, <3>2, ClientTrades, ClientAdds
    <3>4. QED
      BY <3>1, <3>3 DEF HttpParts
  <2>4. QED
    BY <1>3, <2>1, <2>2, <2>3
<1>6. /\ Pair(at') /\ Pair(results') /\ at'.server = at.server
      /\ results'.server = results.server
  <2>1. \/ Goto("client", "response") \/ Finish("client", OK) \/ Finish("client", ABORT)
    BY DEF WebClient, WebClientStart, WebClientResponse, WebClientFails
  <2>2. CASE Goto("client", "response")
    <3>1. at' = [server |-> at.server, client |-> "response"] /\ results' = results
      BY <1>1, <2>2, GotoIs
    <3>2. QED
      BY <1>1, <3>1 DEF Pair
  <2>3. ASSUME NEW printed, Finish("client", printed)
        PROVE  /\ Pair(at') /\ Pair(results') /\ at'.server = at.server
               /\ results'.server = results.server
    <3>1. /\ at' = [server |-> at.server, client |-> "exit"]
          /\ results' = [server |-> results.server, client |-> results.client \o printed]
      BY <1>1, <2>3, FinishIs
    <3>2. QED
      BY <3>1 DEF Pair
  <2>4. QED
    BY <2>1, <2>2, <2>3
<1>7. QED
  BY <1>1, <1>3, <1>4, <1>5, <1>6 DEF HttpParts

LEMMA HttpNextKeeps == HttpInv /\ [Next]_demoVars => HttpInv'
<1>. SUFFICES ASSUME HttpInv, [Next]_demoVars, protocol' = "http-basic"
              PROVE  HttpParts'
  BY DEF HttpInv
<1>1. SettingsStay /\ protocol = "http-basic"
  BY SettingsKept DEF SettingsStay
<1>2. HttpParts /\ Sequences
  BY <1>1 DEF HttpInv, HttpParts
<1>3. CASE UNCHANGED demoVars
  BY <1>2, <1>3 DEF demoVars, HttpParts, Sequences, Pair, Secret
<1>4. CASE Lose \/ Duplicate \/ OtherSends(HttpOtherRequests)
  <2>1. UNCHANGED <<scenario, at, results, mem, written>>
    BY <1>4 DEF Lose, Duplicate, OtherSends, settingVars, fileVars
  <2>2. Sequences' /\ Range(net'.server) \subseteq Range(net.server) \cup HttpOtherRequests
    BY <1>2, <1>4, Disturbed
  <2>3. \A m \in HttpOtherRequests : ~(m.path = "auth" /\ m.good)
    BY DEF HttpOtherRequests, HttpRequest
  <2>4. QED
    BY <1>2, <2>1, <2>2, <2>3 DEF HttpParts, Pair, Secret
<1>5. WebServer \/ WebClient \/ Lose \/ Duplicate \/ OtherSends(HttpOtherRequests)
        \/ UNCHANGED demoVars
  BY <1>1 DEF Next, Server, Client, Strangers, TcpFamily, WebFamily
<1>6. QED
  BY <1>1, <1>2, <1>3, <1>4, <1>5, HttpServerNext, HttpClientNext

-----------------------------------------------------------------------------
(***************************************************************************)
(* WebSocketDemo: who has the password, and the text.                      *)
(***************************************************************************)
LEMMA Moves ==
  ASSUME Pair(at), Pair(results)
  PROVE  /\ \A place : Goto("server", place) =>
              /\ Pair(at') /\ at'.server = place /\ at'.client = at.client
              /\ Pair(results') /\ results' = results
         /\ \A place : Goto("client", place) =>
              /\ Pair(at') /\ at'.server = at.server /\ at'.client = place
              /\ Pair(results') /\ results' = results
         /\ \A printed : Finish("server", printed) =>
              /\ Pair(at') /\ at'.server = "exit" /\ at'.client = at.client
              /\ Pair(results') /\ results'.client = results.client
              /\ results'.server = results.server \o printed
         /\ \A printed : Finish("client", printed) =>
              /\ Pair(at') /\ at'.server = at.server /\ at'.client = "exit"
              /\ Pair(results') /\ results'.server = results.server
              /\ results'.client = results.client \o printed
         /\ Killed("server") =>
              /\ Pair(at') /\ at'.server = "exit" /\ at'.client = at.client
              /\ Pair(results') /\ results' = results
         /\ Killed("client") =>
              /\ Pair(at') /\ at'.server = at.server /\ at'.client = "exit"
              /\ Pair(results') /\ results' = results
<1>1. at = [server |-> at.server, client |-> at.client]
      /\ results = [server |-> results.server, client |-> results.client]
  BY DEF Pair
<1>2. ASSUME NEW place
      PROVE  /\ Goto("server", place) =>
                  /\ Pair(at') /\ at'.server = place /\ at'.client = at.client
                  /\ Pair(results') /\ results' = results
             /\ Goto("client", place) =>
                  /\ Pair(at') /\ at'.server = at.server /\ at'.client = place
                  /\ Pair(results') /\ results' = results
  BY <1>1, GotoIs DEF Pair
<1>3. ASSUME NEW printed
      PROVE  /\ Finish("server", printed) =>
                  /\ Pair(at') /\ at'.server = "exit" /\ at'.client = at.client
                  /\ Pair(results') /\ results'.client = results.client
                  /\ results'.server = results.server \o printed
             /\ Finish("client", printed) =>
                  /\ Pair(at') /\ at'.server = at.server /\ at'.client = "exit"
                  /\ Pair(results') /\ results'.server = results.server
                  /\ results'.client = results.client \o printed
  BY FinishIs DEF Pair
<1>4. /\ Killed("server") =>
              at' = [server |-> "exit", client |-> at.client] /\ results' = results
      /\ Killed("client") =>
              at' = [server |-> at.server, client |-> "exit"] /\ results' = results
  BY FinishIs
<1>5. QED
  BY <1>1, <1>2, <1>3, <1>4 DEF Pair

WsSecret ==
  /\ Sequences /\ Pair(at) /\ Pair(results) /\ mem.passwords \in Attempts
  /\ at.server \in {"upgrade", "text", "pong", "exit"}
  /\ at.server # "exit" => results.server = <<>>
  /\ ~Secret => /\ at.server \in {"upgrade", "exit"} /\ "OK" \notin Range(results.server)
                /\ written = <<>>
                /\ \A m \in Range(net.client) : m.opcode # "TEXT"
                /\ at.server = "upgrade" => \A m \in Range(net.server) : ~m.good
  /\ at.server = "upgrade" => net.client = <<>>

\* Behind the answer to the Upgrade come the units that are not in the client's file, then
\* the PING and the CLOSE.
Answers == IF at.client \in {"start", "upgraded"} THEN 1 ELSE 0

WsMessages ==
  {WsFrame(opcode) : opcode \in {"101", "400", "PING", "PONG", "CLOSE", "TEXT"}}
    \cup {TextFrame(unit) : unit \in Data} \cup {Upgrade(good) : good \in BOOLEAN}

WsShape ==
  /\ Channels(WsMessages) /\ Pair(at) /\ Pair(results)
  /\ mem.passwords \in Attempts
  /\ content \in Seq(Data) /\ written \in Seq(Data)
  /\ at.server \in {"upgrade", "text", "pong", "exit"}
  /\ at.client \in {"start", "upgraded", "frames", "exit"}

WsPlaces ==
  /\ at.server = "upgrade" => net.client = <<>> /\ at.client # "frames"
  /\ at.server = "text" => Len(net.client) = Answers /\ written = <<>>
  /\ at.client \in {"start", "upgraded"} => written = <<>>
\* What the channel to the client holds behind its first o messages, when w units have been
\* written: the other units of the text, and then no more text.
Follows(channel, w, o) ==
  \A i \in o + 1..Len(channel) :
    IF w + i - o <= Len(WsText)
    THEN channel[i] = TextFrame(content[w + i - o])
    ELSE channel[i].opcode \in {"PING", "CLOSE"}

WsFollows ==
  /\ Len(written) <= Len(WsText)
  /\ \A i \in 1..Len(written) : written[i] = content[i]
  /\ at.server = "pong" => Len(written) + Len(net.client) >= Len(WsText) + Answers
  /\ Follows(net.client, Len(written), Answers)
WsResult ==
  /\ at.client # "exit" => results.client = <<>>
  /\ "OK" \in Range(results.client) => written = SubSeq(content, 1, Len(WsText))

WsStream == at.client # "exit" => WsPlaces /\ WsFollows
WsParts == WsShape /\ WsStream /\ WsResult

WsInv ==
  protocol = "websocket-basic" =>
    WsSecret /\ content \in Seq(Data) /\ faults \in StreamFaults /\ ("merge" \notin faults => WsParts)

LEMMA WsMessagesAre ==
  /\ \A opcode \in {"101", "400", "PING", "PONG", "CLOSE", "TEXT"} :
       WsFrame(opcode) \in WsMessages /\ WsFrame(opcode).opcode = opcode
  /\ \A unit \in Data : /\ TextFrame(unit) \in WsMessages
                        /\ TextFrame(unit).opcode = "TEXT" /\ TextFrame(unit).unit = unit
  /\ \A good \in BOOLEAN : Upgrade(good) \in WsMessages /\ Upgrade(good).good = good
<1>1. \A opcode \in {"101", "400", "PING", "PONG", "CLOSE", "TEXT"} :
        WsFrame(opcode) \in WsMessages /\ WsFrame(opcode).opcode = opcode
  BY DEF WsMessages, WsFrame
<1>2. \A unit \in Data : /\ TextFrame(unit) \in WsMessages
                         /\ TextFrame(unit).opcode = "TEXT" /\ TextFrame(unit).unit = unit
  BY DEF WsMessages, TextFrame
<1>3. \A good \in BOOLEAN : Upgrade(good) \in WsMessages /\ Upgrade(good).good = good
  BY DEF WsMessages, Upgrade
<1>4. QED
  BY <1>1, <1>2, <1>3

\* The text is the beginning of the file.
LEMMA TextIs ==
  ASSUME content \in Seq(Data)
  PROVE  /\ WsText \in Seq(WsMessages) /\ Len(WsText) \in Nat /\ Len(WsText) <= Len(content)
         /\ \A k \in 1..Len(WsText) : WsText[k] = TextFrame(content[k])
<1>. DEFINE n == Min({Len(content), MaxText})
<1>1. Len(content) \in Int /\ MaxText \in Int /\ Len(content) \in Nat /\ MaxText \in Nat
  BY WsAssumption
<1>2. n \in {Len(content), MaxText} /\ n <= Len(content)
  BY <1>1, MinOfTwo
<1>3. n \in Nat /\ n <= Len(content)
  BY <1>1, <1>2
<1>4. WsText = [k \in 1..n |-> TextFrame(content[k])]
  BY DEF WsText
<1>. HIDE DEF n
<1>5. \A k \in 1..n : content[k] \in Data /\ TextFrame(content[k]) \in WsMessages
  BY <1>1, <1>3, WsMessagesAre
<1>6. WsText \in Seq(WsMessages) /\ Len(WsText) = n
  BY <1>3, <1>4, <1>5
<1>7. QED
  BY <1>3, <1>4, <1>6

LEMMA WsInitially == Init => WsInv
<1>. SUFFICES ASSUME Init, protocol = "websocket-basic"
              PROVE  WsSecret /\ content \in Seq(Data) /\ faults \in StreamFaults /\ WsParts
  BY DEF WsInv
<1>1. WsInit
  BY DEF Init, QuicInit, RadiusInit, SipInit, DnsInit, TcpInit, MqttInit, Http2Init, WebInit,
         PacketInit, DigestInit, RequestInit, FramesInit
<1>2. /\ net.server = <<>> /\ net.client = <<>> /\ Pair(net) /\ Pair(at) /\ Pair(results)
      /\ results.server = <<>> /\ results.client = <<>>
      /\ at.server = "upgrade" /\ at.client = "start"
      /\ written = <<>> /\ content \in Seq(Data) /\ faults \in StreamFaults
  BY <1>1, PlacesInit, DemoFilesAssumption DEF WsInit, FilesInit
<1>3. mem.passwords \in Attempts
  BY <1>1 DEF WsInit
<1>4. WsSecret
  BY <1>2, <1>3, ShortSeqs DEF WsSecret, Sequences
<1>5. <<>> \in Seq(WsMessages) /\ <<>> \in Seq(Data) /\ Len(<<>>) = 0
  BY EmptySeq
<1>6. WsShape
  BY <1>2, <1>3, <1>5 DEF WsShape, Channels
<1>7. WsStream
  BY <1>2, <1>5, TextIs DEF WsStream, WsPlaces, WsFollows, Follows, Answers
<1>8. WsResult
  BY <1>2, ShortSeqs DEF WsResult
<1>9. QED
  BY <1>2, <1>4, <1>6, <1>7, <1>8 DEF WsParts

LEMMA WsServerSecret ==
  ASSUME WsSecret, SettingsStay, WsServer, content \in Seq(Data)
  PROVE  WsSecret'
<1>1. /\ Sequences /\ Pair(at) /\ Pair(results) /\ Secret \in BOOLEAN
      /\ net.server # <<>> => /\ 1 \in DOMAIN net.server /\ Head(net.server) = net.server[1]
                              /\ net.server[1] \in Range(net.server)
  BY SecretIs, SeqIs DEF WsSecret, Sequences
<1>2. /\ mem' = mem /\ written' = written /\ Secret' = Secret /\ mem'.passwords \in Attempts
  BY DEF WsServer, WsServerUpgrade, WsServerSendsText, WsServerSendBreaks, WsServerPong,
         WsServerFails, quietVars, WsSecret, Secret
<1>3. CASE WsServerUpgrade
  <2>. DEFINE m == net.server[1]
              first == <<WsFrame("101")>>
              other == <<WsFrame("400")>>
  <2>1. /\ at.server = "upgrade" /\ net.server # <<>>
        /\ \/ m.good /\ Exchange("server", 1, first) /\ Goto("server", "text")
           \/ Exchange("server", 1, other) /\ Finish("server", ABORT)
    BY <1>1, <1>3 DEF WsServerUpgrade
  <2>2. /\ IsSeq(first) /\ IsSeq(other)
        /\ \A x \in Range(first) \cup Range(other) : x.opcode # "TEXT"
    BY ShortSeqs, WsMessagesAre
  <2>. HIDE DEF first, other
  <2>3. Sequences' /\ \A x \in Range(net'.client) : x \in Range(net.client) \/ x.opcode # "TEXT"
    BY <1>1, <2>1, <2>2, ServerTrades
  <2>4. CASE m.good /\ Goto("server", "text")
    <3>1. Secret
      BY <1>1, <2>1, <2>4 DEF WsSecret
    <3>2. QED
      BY <1>1, <1>2, <2>1, <2>3, <2>4, <3>1, Moves DEF WsSecret
  <2>5. CASE Finish("server", ABORT)
    <3>1. results'.server = ABORT
      BY <1>1, <2>1, <2>5, Moves, Printed DEF WsSecret
    <3>2. QED
      BY <1>1, <1>2, <2>3, <2>5, <3>1, Moves, Printed DEF WsSecret
  <2>6. QED
    BY <2>1, <2>4, <2>5
<1>4. CASE WsServerSendsText
  <2>1. at.server = "text" /\ Secret
    BY <1>1, <1>4 DEF WsServerSendsText, WsSecret
  <2>2. \E msgs : IsSeq(msgs) /\ Send("server", msgs)
    <3>1. IsSeq(WsText)
      BY TextIs, SeqsOf
    <3>2. IsSeq(Append(WsText, WsFrame("PING")))
      BY <3>1, Extended
    <3>3. QED
      BY <1>4, <3>1, <3>2 DEF WsServerSendsText
  <2>3. Sequences'
    BY <1>1, <2>2, ServerAdds
  <2>4. Goto("server", "pong") \/ Finish("server", ABORT)
    BY <1>4 DEF WsServerSendsText
  <2>5. QED
    BY <1>1, <1>2, <2>1, <2>3, <2>4, Moves DEF WsSecret
<1>5. CASE WsServerSendBreaks \/ WsServerFails
  <2>1. /\ net' = net
        /\ Finish("server", ABORT) \/ Killed("server")
        /\ at.server # "exit"
    BY <1>5 DEF WsServerSendBreaks, WsServerFails, SendBreaks
  <2>2. at'.server = "exit" /\ results'.server \in {<<>>, ABORT} /\ Pair(at') /\ Pair(results')
    BY <1>1, <2>1, Moves, Printed DEF WsSecret
  <2>3. "OK" \notin Range(results'.server)
    BY <2>2, Printed
  <2>4. QED
    BY <1>1, <1>2, <2>1, <2>2, <2>3 DEF WsSecret, Sequences, Pair
<1>6. CASE WsServerPong
  <2>1. /\ at.server = "pong" /\ Secret /\ net.server # <<>>
        /\ \E msgs : IsSeq(msgs) /\ Exchange("server", 1, msgs)
        /\ \E printed : Finish("server", printed) \/ Killed("server")
    BY <1>1, <1>6, ShortSeqs DEF WsServerPong, WsSecret, SendBreaks
  <2>2. Sequences'
    BY <1>1, <2>1, ServerTrades
  <2>3. at'.server = "exit" /\ Pair(at') /\ Pair(results')
    BY <1>1, <2>1, Moves
  <2>4. QED
    BY <1>1, <1>2, <2>1, <2>2, <2>3 DEF WsSecret
<1>7. QED
  BY <1>3, <1>4, <1>5, <1>6 DEF WsServer

LEMMA WsClientSecret ==
  ASSUME WsSecret, WsClient
  PROVE  WsSecret'
<1>1. /\ Sequences /\ Pair(at) /\ Pair(results) /\ Secret \in BOOLEAN
      /\ net.client # <<>> => /\ 1 \in DOMAIN net.client /\ Head(net.client) = net.client[1]
                              /\ net.client[1] \in Range(net.client)
  BY SecretIs, SeqIs DEF WsSecret, Sequences
<1>2. mem' = mem /\ Secret' = Secret /\ mem'.passwords \in Attempts
  BY DEF WsClient, WsClientStart, WsClientUpgraded, WsClientText, WsClientPing, WsClientClose,
         WsClientFails, WsSecret, Secret
<1>3. /\ at'.server = at.server /\ results'.server = results.server
      /\ Pair(at') /\ Pair(results')
  <2>1. \/ \E place : Goto("client", place)
        \/ \E printed : Finish("client", printed) \/ Killed("client")
    BY DEF WsClient, WsClientStart, WsClientUpgraded, WsClientText, WsClientPing, WsClientClose,
           WsClientFails, WsClientNextFrame, SendBreaks
  <2>2. QED
    BY <1>1, <2>1, Moves
<1>4. CASE net' = net /\ written' = written
  BY <1>1, <1>2, <1>3, <1>4 DEF WsSecret, Sequences, Pair
<1>5. CASE WsClientStart /\ net' # net
  <2>. DEFINE good == scenario # "bad-upgrade" /\ mem.passwords[1]
              msgs == <<Upgrade(good)>>
  <2>1. Send("client", msgs) /\ written' = written
    BY <1>5 DEF WsClientStart, quietVars
  <2>2. good \in BOOLEAN /\ (good => Secret)
    BY <1>1 DEF Secret
  <2>3. IsSeq(msgs) /\ Range(msgs) = {Upgrade(good)} /\ Upgrade(good).good = good
    BY <2>2, ShortSeqs, WsMessagesAre
  <2>. HIDE DEF msgs
  <2>4. /\ Sequences' /\ net'.client = net.client
        /\ Range(net'.server) = Range(net.server) \cup {Upgrade(good)}
    BY <1>1, <2>1, <2>3, ClientAdds
  <2>. HIDE DEF good
  <2>5. QED
    BY <1>1, <1>2, <1>3, <2>1, <2>2, <2>3, <2>4 DEF WsSecret
<1>6. CASE \/ WsClientUpgraded \/ WsClientText \/ WsClientPing \/ WsClientClose
  <2>1. /\ net.client # <<>>
        /\ \/ \E msgs : IsSeq(msgs) /\ Exchange("client", 1, msgs)
           \/ ReceiveOne("client", <<>>)
    <3>1. CASE WsClientUpgraded
      <4>1. ReceiveOne("client", <<>>)
        BY <3>1 DEF WsClientUpgraded
      <4>2. net.client # <<>>
        BY <4>1 DEF ReceiveOne
      <4>3. QED
        BY <4>1, <4>2
    <3>2. CASE WsClientText \/ WsClientClose
      BY <3>2, ShortSeqs DEF WsClientText, WsClientClose
    <3>3. CASE WsClientPing
      <4>. DEFINE msgs == IF scenario = "ping-timeout" THEN <<>>
                          ELSE <<WsFrame("PONG"), WsFrame("TEXT")>>
      <4>1. IsSeq(msgs) /\ IsSeq(<<>>)
        BY ShortSeqs
      <4>2. /\ net.client # <<>>
            /\ Exchange("client", 1, msgs) \/ Exchange("client", 1, <<>>)
        BY <3>3 DEF WsClientPing
      <4>. HIDE DEF msgs
      <4>3. QED
        BY <4>1, <4>2
    <3>4. QED
      BY <1>6, <3>1, <3>2, <3>3
  <2>2. Sequences' /\ Range(net'.client) \subseteq Range(net.client)
    <3>1. CASE \E msgs : IsSeq(msgs) /\ Exchange("client", 1, msgs)
      BY <1>1, <2>1, <3>1, ClientTrades
    <3>2. CASE ReceiveOne("client", <<>>)
      <4>1. PICK k \in DOMAIN net.client :
              net' = [net EXCEPT !["client"] = SubSeq(net["client"], k + 1, Len(net["client"])),
                                 ![Other("client")] = net[Other("client")] \o <<>>]
        BY <3>2 DEF ReceiveOne
      <4>2. k \in Nat /\ IsSeq(net.client) /\ IsSeq(net.server)
        BY <1>1, <4>1, SeqIs DEF Sequences
      <4>. DEFINE back == SubSeq(net.client, k + 1, Len(net.client))
                  same == net.server \o <<>>
      <4>3. IsSeq(back) /\ Range(back) \subseteq Range(net.client)
        BY <4>2, BackOf
      <4>4. IsSeq(same)
        BY <4>2, ShortSeqs, Joined
      <4>. HIDE DEF back, same
      <4>5. net = [server |-> net.server, client |-> net.client]
        BY <1>1 DEF Sequences, Pair
      <4>6. net' = [server |-> same, client |-> back]
        BY <4>1, <4>5, OtherIs DEF back, same
      <4>7. QED
        BY <4>3, <4>4, <4>6 DEF Sequences, Pair
    <3>3. QED
      BY <2>1, <3>1, <3>2
  <2>3. at.server # "upgrade"
    BY <2>1 DEF WsSecret
  <2>4. written' = written \/ Secret
    <3>1. WsClientText => net.client[1].opcode = "TEXT"
      BY <1>1, <2>1 DEF WsClientText
    <3>2. ~WsClientText => written' = written
      BY <1>6 DEF WsClientUpgraded, WsClientPing, WsClientClose, fileVars, quietVars
    <3>3. QED
      BY <1>1, <2>1, <3>1, <3>2 DEF WsSecret
  <2>5. QED
    BY <1>1, <1>2, <1>3, <2>2, <2>3, <2>4 DEF WsSecret
<1>7. QED
  <2>1. WsClientFails \/ (WsClientStart /\ net' = net) => net' = net /\ written' = written
    BY DEF WsClientFails, WsClientStart, quietVars
  <2>2. QED
    BY <1>4, <1>5, <1>6, <2>1 DEF WsClient

\* The server's steps leave the client and its file alone.
WsServerQuiet ==
  /\ at'.client = at.client /\ results'.client = results.client
  /\ mem' = mem /\ written' = written /\ content' = content
  /\ Pair(at') /\ Pair(results')

LEMMA WsServerPlaces ==
  ASSUME WsShape, SettingsStay, WsServer
  PROVE  /\ WsServerQuiet /\ at'.server \in {"text", "pong", "exit"}
         /\ at'.server = "text" => WsServerUpgrade
         /\ at'.server = "pong" => WsServerSendsText
<1>1. Pair(at) /\ Pair(results) /\ content' = content
  BY DEF WsShape, SettingsStay
<1>2. \/ \E place \in {"text", "pong"} : Goto("server", place)
      \/ \E printed : Finish("server", printed)
      \/ Killed("server")
  BY DEF WsServer, WsServerUpgrade, WsServerSendsText, WsServerSendBreaks, WsServerPong,
         WsServerFails, SendBreaks
<1>3. mem' = mem /\ written' = written
  BY DEF WsServer, WsServerUpgrade, WsServerSendsText, WsServerSendBreaks, WsServerPong,
         WsServerFails, quietVars
<1>4. WsServerQuiet /\ at'.server \in {"text", "pong", "exit"}
  BY <1>1, <1>2, <1>3, Moves DEF WsServerQuiet
<1>5. CASE WsServerSendBreaks \/ WsServerFails \/ WsServerPong
  <2>1. (\E printed : Finish("server", printed)) \/ Killed("server")
    BY <1>5 DEF WsServerSendBreaks, WsServerPong, WsServerFails, SendBreaks
  <2>2. at'.server = "exit"
    BY <1>1, <2>1, Moves
  <2>3. QED
    BY <1>4, <2>2
<1>6. CASE WsServerUpgrade
  <2>1. Goto("server", "text") \/ Finish("server", ABORT)
    BY <1>6 DEF WsServerUpgrade
  <2>2. at'.server \in {"text", "exit"}
    BY <1>1, <2>1, Moves
  <2>3. QED
    BY <1>4, <1>6, <2>2
<1>7. CASE WsServerSendsText
  <2>1. Goto("server", "pong") \/ Finish("server", ABORT)
    BY <1>7 DEF WsServerSendsText
  <2>2. at'.server \in {"pong", "exit"}
    BY <1>1, <2>1, Moves
  <2>3. QED
    BY <1>4, <1>7, <2>2
<1>8. QED
  BY <1>5, <1>6, <1>7 DEF WsServer

\* The server's text, and whatever comes behind it.
LEMMA TextFollows ==
  ASSUME content \in Seq(Data), NEW old \in Seq(WsMessages), NEW new \in Seq(WsMessages),
         NEW msgs \in Seq(WsMessages), Grows(old, new, msgs),
         Len(msgs) >= Len(WsText), \A k \in 1..Len(WsText) : msgs[k] = WsText[k],
         \A k \in Len(WsText) + 1..Len(msgs) : msgs[k].opcode = "PING"
  PROVE  Follows(new, 0, Len(old))
<1>1. /\ Len(WsText) \in Nat /\ Len(old) \in Nat /\ Len(msgs) \in Nat
      /\ Len(new) = Len(old) + Len(msgs)
      /\ \A k \in 1..Len(WsText) : msgs[k] = TextFrame(content[k])
  BY TextIs DEF Grows
<1>. SUFFICES ASSUME NEW i \in Len(old) + 1..Len(new)
              PROVE  IF 0 + i - Len(old) <= Len(WsText)
                     THEN new[i] = TextFrame(content[0 + i - Len(old)])
                     ELSE new[i].opcode \in {"PING", "CLOSE"}
  BY DEF Follows
<1>. DEFINE k == 0 + i - Len(old)
<1>2. k \in 1..Len(msgs) /\ i = Len(old) + k
  BY <1>1
<1>. HIDE DEF k
<1>3. new[i] = msgs[k]
  BY <1>2 DEF Grows
<1>4. k <= Len(WsText) => k \in 1..Len(WsText)
  BY <1>1, <1>2
<1>5. ~(k <= Len(WsText)) => k \in Len(WsText) + 1..Len(msgs)
  BY <1>1, <1>2
<1>6. IF k <= Len(WsText) THEN new[i] = TextFrame(content[k])
                          ELSE new[i].opcode \in {"PING", "CLOSE"}
  BY <1>1, <1>3, <1>4, <1>5
<1>7. QED
  BY <1>6 DEF k

\* The server says that it closes.
LEMMA CloseFollows ==
  ASSUME NEW old \in Seq(WsMessages), NEW new \in Seq(WsMessages), NEW m, m.opcode = "CLOSE",
         Gains(old, new, m), NEW w \in Nat, NEW o \in Nat, Follows(old, w, o),
         w + Len(old) >= Len(WsText) + o, Len(WsText) \in Nat
  PROVE  Follows(new, w, o)
<1>. DEFINE n == Len(old)
<1>1. /\ n \in Nat /\ Len(new) = n + 1 /\ new[n + 1] = m
      /\ \A i \in 1..n : new[i] = old[i]
  BY DEF Gains
<1>. SUFFICES ASSUME NEW i \in o + 1..Len(new)
              PROVE  IF w + i - o <= Len(WsText)
                     THEN new[i] = TextFrame(content[w + i - o])
                     ELSE new[i].opcode \in {"PING", "CLOSE"}
  BY DEF Follows
<1>2. CASE i \in 1..n
  <2>1. i \in o + 1..Len(old) /\ new[i] = old[i]
    BY <1>1, <1>2
  <2>2. QED
    BY <2>1 DEF Follows
<1>3. CASE i = n + 1
  <2>1. ~(w + i - o <= Len(WsText)) /\ new[i] = m
    BY <1>1, <1>3
  <2>2. QED
    BY <2>1
<1>4. i \in 1..n \/ i = n + 1
  BY <1>1
<1>5. QED
  BY <1>2, <1>3, <1>4

\* The client takes its first message: the answer, a unit, or what comes behind the text.
LEMMA FollowsTaken ==
  ASSUME NEW old \in Seq(WsMessages), NEW new \in Seq(WsMessages), Shrinks(old, new),
         NEW w \in Nat, NEW o \in Nat, NEW next \in Nat, NEW left \in Nat, Len(WsText) \in Nat,
         Follows(old, w, o),
         \/ o = 1 /\ left = 0 /\ next = w
         \/ o = 0 /\ left = 0 /\ next = w + 1
         \/ o = 0 /\ left = 0 /\ next = w /\ w >= Len(WsText)
  PROVE  Follows(new, next, left)
<1>1. /\ Len(new) \in Nat /\ Len(old) = Len(new) + 1
      /\ \A i \in 1..Len(new) : new[i] = old[i + 1]
  BY DEF Shrinks
<1>. SUFFICES ASSUME NEW i \in left + 1..Len(new)
              PROVE  IF next + i - left <= Len(WsText)
                     THEN new[i] = TextFrame(content[next + i - left])
                     ELSE new[i].opcode \in {"PING", "CLOSE"}
  BY DEF Follows
<1>2. left = 0 /\ i \in 1..Len(new) /\ new[i] = old[i + 1] /\ i + 1 \in o + 1..Len(old)
  BY <1>1
<1>3. IF w + (i + 1) - o <= Len(WsText)
      THEN old[i + 1] = TextFrame(content[w + (i + 1) - o])
      ELSE old[i + 1].opcode \in {"PING", "CLOSE"}
  BY <1>2 DEF Follows
<1>4. CASE w + (i + 1) - o = next + i - left
  <2>. DEFINE j == w + (i + 1) - o
              j2 == next + i - left
  <2>1. j = j2
    BY <1>4
  <2>2. IF j <= Len(WsText) THEN new[i] = TextFrame(content[j])
                            ELSE new[i].opcode \in {"PING", "CLOSE"}
    BY <1>2, <1>3
  <2>. HIDE DEF j
  <2>3. QED
    BY <2>1, <2>2
<1>5. CASE o = 0 /\ next = w /\ w >= Len(WsText)
  <2>1. ~(w + (i + 1) - o <= Len(WsText)) /\ ~(next + i - left <= Len(WsText))
    BY <1>2, <1>5
  <2>2. QED
    BY <1>2, <1>3, <2>1
<1>6. QED
  BY <1>2, <1>4, <1>5

\* What the server sends of its file.
IsText(msgs) ==
  /\ msgs \in Seq(WsMessages) /\ Len(msgs) >= Len(WsText)
  /\ \A k \in 1..Len(WsText) : msgs[k] = WsText[k]
  /\ \A k \in Len(WsText) + 1..Len(msgs) : msgs[k].opcode = "PING"

LEMMA TextsAre ==
  ASSUME content \in Seq(Data)
  PROVE  IsText(WsText) /\ IsText(Append(WsText, WsFrame("PING")))
<1>. DEFINE text == WsText
            ping == WsFrame("PING")
            more == Append(text, ping)
<1>1. text \in Seq(WsMessages) /\ Len(text) \in Nat
  BY TextIs
<1>2. ping \in WsMessages /\ ping.opcode = "PING"
  BY WsMessagesAre
<1>. HIDE DEF text, ping
<1>3. /\ more \in Seq(WsMessages) /\ Len(more) = Len(text) + 1
      /\ \A k \in 1..Len(text) : more[k] = text[k]
      /\ more[Len(text) + 1] = ping
  BY <1>1, <1>2, AppendProperties
<1>. HIDE DEF more
<1>4. \A k \in Len(text) + 1..Len(more) : more[k].opcode = "PING"
  BY <1>1, <1>2, <1>3
<1>5. \A k \in Len(text) + 1..Len(text) : text[k].opcode = "PING"
  BY <1>1
<1>6. Len(text) >= Len(text) /\ Len(more) >= Len(text)
  BY <1>1, <1>3
<1>7. QED
  BY <1>1, <1>3, <1>4, <1>5, <1>6 DEF IsText, text, ping, more

LEMMA WsServerChannels ==
  ASSUME WsShape, WsServer
  PROVE  /\ Channels(WsMessages)'
         /\ WsServerUpgrade => \E m : Gains(net.client, net'.client, m)
         /\ WsServerSendsText => \E msgs : IsText(msgs) /\ Grows(net.client, net'.client, msgs)
         /\ WsServerPong => \/ net'.client = net.client
                            \/ Gains(net.client, net'.client, WsFrame("CLOSE"))
         /\ WsServerSendBreaks \/ WsServerFails => net'.client = net.client
<1>1. Channels(WsMessages) /\ content \in Seq(Data)
  BY DEF WsShape
<1>2. CASE WsServerUpgrade
  <2>1. /\ net.server # <<>> /\ at.server = "upgrade"
        /\ Exchange("server", 1, <<WsFrame("101")>>) \/ Exchange("server", 1, <<WsFrame("400")>>)
    BY <1>2 DEF WsServerUpgrade
  <2>2. WsFrame("101") \in WsMessages /\ WsFrame("400") \in WsMessages
    BY WsMessagesAre
  <2>3. Channels(WsMessages)' /\ \E m : Gains(net.client, net'.client, m)
    BY <1>1, <2>1, <2>2, ServerAnswers
  <2>4. ~WsServerSendsText /\ ~WsServerPong /\ ~WsServerSendBreaks
    BY <2>1 DEF WsServerSendsText, WsServerPong, WsServerSendBreaks
  <2>5. WsServerFails => net'.client = net.client
    BY DEF WsServerFails
  <2>6. QED
    BY <2>3, <2>4, <2>5
<1>3. CASE WsServerSendsText
  <2>1. /\ at.server = "text"
        /\ Send("server", WsText) \/ Send("server", Append(WsText, WsFrame("PING")))
    BY <1>3 DEF WsServerSendsText
  <2>2. PICK msgs : IsText(msgs) /\ Send("server", msgs)
    BY <1>1, <2>1, TextsAre
  <2>3. Channels(WsMessages)' /\ Grows(net.client, net'.client, msgs)
    BY <1>1, <2>2, ServerSends DEF IsText
  <2>4. ~WsServerUpgrade /\ ~WsServerPong /\ ~WsServerFails
    BY <2>1 DEF WsServerUpgrade, WsServerPong, WsServerFails
  <2>5. WsServerSendBreaks => net'.client = net.client
    BY DEF WsServerSendBreaks
  <2>6. QED
    BY <2>2, <2>3, <2>4, <2>5
<1>4. CASE WsServerPong
  <2>1. /\ at.server = "pong" /\ net.server # <<>>
        /\ Exchange("server", 1, <<WsFrame("CLOSE")>>) \/ Exchange("server", 1, <<>>)
    BY <1>4 DEF WsServerPong
  <2>2. WsFrame("CLOSE") \in WsMessages
    BY WsMessagesAre
  <2>3. /\ Channels(WsMessages)'
        /\ net'.client = net.client \/ Gains(net.client, net'.client, WsFrame("CLOSE"))
    BY <1>1, <2>1, <2>2, ServerAnswers, ServerTakes
  <2>4. ~WsServerUpgrade /\ ~WsServerSendsText /\ ~WsServerSendBreaks
    BY <2>1 DEF WsServerUpgrade, WsServerSendsText, WsServerSendBreaks
  <2>5. WsServerFails => net'.client = net.client
    BY DEF WsServerFails
  <2>6. QED
    BY <2>3, <2>4, <2>5
<1>5. CASE net' = net /\ (WsServerSendBreaks \/ WsServerFails)
  <2>1. Channels(WsMessages)' /\ net'.client = net.client
    BY <1>1, <1>5 DEF Channels, Pair
  <2>2. QED
    BY <1>2, <1>3, <1>4, <2>1
<1>6. WsServerSendBreaks \/ WsServerFails => net' = net
  BY DEF WsServerSendBreaks, WsServerFails
<1>7. QED
  BY <1>2, <1>3, <1>4, <1>5, <1>6 DEF WsServer

LEMMA WsServerStream ==
  ASSUME WsShape, WsPlaces, WsFollows, at.client # "exit", SettingsStay, WsServer
  PROVE  WsPlaces' /\ WsFollows'
<1>1. /\ WsServerQuiet /\ at'.server \in {"text", "pong", "exit"}
      /\ at'.server = "text" => WsServerUpgrade
      /\ at'.server = "pong" => WsServerSendsText
  BY WsServerPlaces
<1>2. /\ net.client \in Seq(WsMessages) /\ net'.client \in Seq(WsMessages)
      /\ content \in Seq(Data) /\ content' = content /\ written' = written
      /\ at'.client = at.client
  BY <1>1, WsServerChannels DEF WsShape, Channels, SettingsStay, WsServerQuiet
<1>3. WsText' = WsText /\ Answers' = Answers /\ Answers \in {0, 1}
  BY <1>2 DEF WsText, Answers
<1>4. /\ Len(WsText) \in Nat /\ Len(written) \in Nat /\ Len(net.client) \in Nat
      /\ Len(net'.client) \in Nat
  BY <1>2, TextIs DEF WsShape
<1>5. Follows(net'.client, Len(written), Answers)
        => Follows(net.client, Len(written), Answers)'
  BY <1>2, <1>3 DEF Follows
<1>6. /\ Len(written)' <= Len(WsText)'
      /\ \A i \in 1..Len(written)' : written'[i] = content'[i]
      /\ at'.client \in {"start", "upgraded"} => written' = <<>>
  BY <1>2, <1>3 DEF WsFollows, WsPlaces
<1>7. CASE WsServerUpgrade
  <2>1. at.server = "upgrade" /\ net.client = <<>> /\ at.client # "frames" /\ Len(net.client) = 0
    BY <1>7, EmptySeq DEF WsServerUpgrade, WsPlaces
  <2>2. PICK m : Gains(net.client, net'.client, m)
    BY <1>7, WsServerChannels
  <2>3. Len(net'.client) = 1
    BY <2>1, <2>2 DEF Gains
  <2>4. at.client \in {"start", "upgraded"}
    BY <2>1 DEF WsShape
  <2>5. Answers = 1 /\ written = <<>>
    BY <2>4 DEF Answers, WsPlaces
  <2>6. Follows(net'.client, Len(written), Answers)
    BY <2>3, <2>5 DEF Follows
  <2>7. at'.server # "pong"
    BY <1>1, <2>1 DEF WsServerSendsText
  <2>8. WsPlaces'
    BY <1>1, <1>2, <1>3, <2>3, <2>5 DEF WsPlaces
  <2>9. QED
    BY <1>5, <1>6, <2>6, <2>7, <2>8 DEF WsFollows
<1>8. CASE WsServerSendsText
  <2>1. /\ at.server = "text" /\ Len(net.client) = Answers /\ written = <<>> /\ Len(written) = 0
    BY <1>8, EmptySeq DEF WsServerSendsText, WsPlaces
  <2>2. PICK msgs : IsText(msgs) /\ Grows(net.client, net'.client, msgs)
    BY <1>8, WsServerChannels
  <2>3. Follows(net'.client, 0, Len(net.client))
    BY <1>2, <2>2, TextFollows DEF IsText
  <2>4. Len(net'.client) = Answers + Len(msgs) /\ Len(msgs) >= Len(WsText) /\ Len(msgs) \in Nat
    BY <2>1, <2>2 DEF Grows, IsText
  <2>5. Len(written) + Len(net'.client) >= Len(WsText) + Answers
    BY <1>3, <1>4, <2>1, <2>4
  <2>6. at'.server # "text"
    BY <1>1, <2>1 DEF WsServerUpgrade
  <2>7. WsPlaces'
    BY <1>1, <1>6, <2>6 DEF WsPlaces
  <2>8. QED
    BY <1>2, <1>3, <1>5, <1>6, <2>1, <2>3, <2>5, <2>7 DEF WsFollows
<1>9. CASE WsServerPong \/ WsServerSendBreaks \/ WsServerFails
  <2>1. at'.server = "exit"
    <3>1. (\E printed : Finish("server", printed)) \/ Killed("server")
      BY <1>9 DEF WsServerPong, WsServerSendBreaks, WsServerFails, SendBreaks
    <3>2. QED
      BY <3>1, Moves DEF WsShape
  <2>2. WsPlaces'
    BY <1>6, <2>1 DEF WsPlaces
  <2>3. Follows(net'.client, Len(written), Answers)
    <3>1. CASE net'.client = net.client
      BY <3>1 DEF WsFollows
    <3>2. CASE WsServerPong /\ Gains(net.client, net'.client, WsFrame("CLOSE"))
      <4>1. at.server = "pong"
        BY <3>2 DEF WsServerPong
      <4>2. Len(written) + Len(net.client) >= Len(WsText) + Answers
            /\ Follows(net.client, Len(written), Answers)
        BY <4>1 DEF WsFollows
      <4>3. WsFrame("CLOSE").opcode = "CLOSE" /\ Answers \in Nat
        BY <1>3, WsMessagesAre
      <4>4. QED
        BY <1>2, <1>4, <3>2, <4>2, <4>3, CloseFollows
    <3>3. QED
      BY <1>9, <3>1, <3>2, WsServerChannels
  <2>4. QED
    BY <1>5, <1>6, <2>1, <2>2, <2>3 DEF WsFollows
<1>10. QED
  BY <1>7, <1>8, <1>9 DEF WsServer

LEMMA WsServerParts ==
  ASSUME WsParts, SettingsStay, WsServer
  PROVE  WsParts'
<1>1. WsServerQuiet /\ at'.server \in {"text", "pong", "exit"} /\ Channels(WsMessages)'
  BY WsServerPlaces, WsServerChannels DEF WsParts
<1>2. WsShape'
  BY <1>1 DEF WsParts, WsShape, WsServerQuiet
<1>3. WsStream'
  BY <1>1, WsServerStream DEF WsParts, WsStream, WsServerQuiet
<1>4. WsText' = WsText
  BY <1>1 DEF WsText, WsServerQuiet
<1>5. WsResult'
  BY <1>1, <1>4 DEF WsParts, WsResult, WsServerQuiet
<1>6. QED
  BY <1>2, <1>3, <1>5 DEF WsParts

\* The client's steps leave the server and its file alone.
WsClientQuiet ==
  /\ at'.server = at.server /\ results'.server = results.server /\ mem' = mem
  /\ Pair(at') /\ Pair(results')

LEMMA WsClientPlaces ==
  ASSUME WsShape, WsClient
  PROVE  /\ WsClientQuiet /\ at.client # "exit"
         /\ at'.client \in {"upgraded", "frames", "exit"}
         /\ at'.client = "upgraded" => WsClientStart
         /\ at'.client = "frames" => ~WsClientStart
         /\ at'.client # "exit" => results' = results
         /\ ~WsClientClose => \/ results'.client = results.client
                              \/ results'.client = results.client \o ABORT
<1>1. Pair(at) /\ Pair(results)
  BY DEF WsShape
<1>2. mem' = mem /\ at.client # "exit"
  BY DEF WsClient, WsClientStart, WsClientUpgraded, WsClientText, WsClientPing, WsClientClose,
         WsClientFails
<1>3. CASE WsClientStart
  <2>1. Goto("client", "upgraded") \/ Finish("client", ABORT)
    BY <1>3 DEF WsClientStart
  <2>2. CASE Goto("client", "upgraded")
    BY <1>1, <1>2, <1>3, <2>2, Moves DEF WsClientQuiet
  <2>3. CASE Finish("client", ABORT)
    BY <1>1, <1>2, <1>3, <2>3, Moves DEF WsClientQuiet
  <2>4. QED
    BY <2>1, <2>2, <2>3
<1>4. CASE WsClientUpgraded \/ WsClientText \/ WsClientPing \/ WsClientFails
  <2>1. Goto("client", "frames") \/ Finish("client", ABORT) \/ Killed("client")
    BY <1>4 DEF WsClientUpgraded, WsClientText, WsClientPing, WsClientFails, WsClientNextFrame,
                SendBreaks
  <2>2. ~WsClientStart
    BY <1>4 DEF WsClientStart, WsClientUpgraded, WsClientText, WsClientPing, WsClientFails
  <2>3. CASE Goto("client", "frames")
    BY <1>1, <1>2, <2>2, <2>3, Moves DEF WsClientQuiet
  <2>4. CASE Finish("client", ABORT)
    BY <1>1, <1>2, <2>2, <2>4, Moves DEF WsClientQuiet
  <2>5. CASE Killed("client")
    BY <1>1, <1>2, <2>2, <2>5, Moves DEF WsClientQuiet
  <2>6. QED
    BY <2>1, <2>3, <2>4, <2>5
<1>5. CASE WsClientClose
  <2>1. Finish("client", OK)
    BY <1>5 DEF WsClientClose
  <2>2. QED
    BY <1>1, <1>2, <1>5, <2>1, Moves DEF WsClientQuiet
<1>6. QED
  BY <1>3, <1>4, <1>5 DEF WsClient

LEMMA WsClientChannels ==
  ASSUME WsShape, "merge" \notin faults, WsClient
  PROVE  /\ Channels(WsMessages)'
         /\ \/ (WsClientStart \/ WsClientFails) /\ net'.client = net.client
            \/ /\ WsClientUpgraded \/ WsClientText \/ WsClientPing \/ WsClientClose
               /\ net.client # <<>> /\ Shrinks(net.client, net'.client)
<1>1. Channels(WsMessages) /\ mem.passwords \in Attempts
  BY DEF WsShape
<1>2. CASE WsClientFails \/ (WsClientStart /\ net' = net)
  <2>1. net' = net
    BY <1>2 DEF WsClientFails
  <2>2. Channels(WsMessages)'
    BY <1>1, <2>1 DEF Channels, Pair
  <2>3. QED
    BY <1>2, <2>1, <2>2
<1>3. CASE WsClientStart /\ net' # net
  <2>. DEFINE good == scenario # "bad-upgrade" /\ mem.passwords[1]
  <2>1. Send("client", <<Upgrade(good)>>)
    BY <1>3 DEF WsClientStart
  <2>2. Upgrade(good) \in WsMessages
    <3>1. good \in BOOLEAN
      BY <1>1, SecretIs DEF Secret
    <3>2. QED
      BY <3>1, WsMessagesAre
  <2>. HIDE DEF good
  <2>3. Channels(WsMessages)' /\ net'.client = net.client
    BY <1>1, <2>1, <2>2, ClientSendsOne
  <2>4. QED
    BY <1>3, <2>3
<1>4. CASE WsClientUpgraded
  <2>1. PICK k \in DOMAIN net.client :
          /\ k = 1
          /\ net' = [net EXCEPT !["client"] = SubSeq(net["client"], k + 1, Len(net["client"])),
                                ![Other("client")] = net[Other("client")] \o <<>>]
    BY <1>4 DEF WsClientUpgraded, ReceiveOne
  <2>. DEFINE back == SubSeq(net.client, 2, Len(net.client))
              same == net.server \o <<>>
  <2>2. net.client \in Seq(WsMessages) /\ net.client # <<>> /\ net.server \in Seq(WsMessages)
    BY <1>1, <2>1 DEF Channels
  <2>3. back \in Seq(WsMessages) /\ Shrinks(net.client, back)
    BY <2>2, FirstRemoved
  <2>4. same = net.server
    BY <2>2, ConcatEmptySeq
  <2>5. net = [server |-> net.server, client |-> net.client] /\ k + 1 = 2
    BY <1>1, <2>1 DEF Channels, Pair
  <2>. HIDE DEF back, same
  <2>6. net' = [server |-> same, client |-> back]
    BY <2>1, <2>5, OtherIs DEF back, same
  <2>7. Channels(WsMessages)' /\ Shrinks(net.client, net'.client)
    BY <2>2, <2>3, <2>4, <2>6 DEF Channels, Pair
  <2>8. QED
    BY <1>4, <2>2, <2>7
<1>5. CASE WsClientText \/ WsClientClose
  <2>1. net.client # <<>> /\ Exchange("client", 1, <<>>)
    BY <1>5 DEF WsClientText, WsClientClose
  <2>2. QED
    BY <1>1, <1>5, <2>1, ClientTakes
<1>6. CASE WsClientPing
  <2>. DEFINE msgs == <<WsFrame("PONG"), WsFrame("TEXT")>>
  <2>1. /\ net.client # <<>>
        /\ Exchange("client", 1, msgs) \/ Exchange("client", 1, <<>>)
    BY <1>6 DEF WsClientPing
  <2>2. msgs \in Seq(WsMessages) /\ <<>> \in Seq(WsMessages)
    BY WsMessagesAre
  <2>. HIDE DEF msgs
  <2>3. Channels(WsMessages)' /\ Shrinks(net.client, net'.client)
    BY <1>1, <2>1, <2>2, ClientExchanges
  <2>4. QED
    BY <1>6, <2>1, <2>3
<1>7. QED
  BY <1>2, <1>3, <1>4, <1>5, <1>6 DEF WsClient

\* What the client finds at the head of its channel when it reads frames.
LEMMA FrameIsNext ==
  ASSUME WsShape, WsFollows, at.client = "frames", net.client # <<>>
  PROVE  /\ Len(written) \in Nat /\ Len(WsText) \in Nat /\ Len(written) <= Len(WsText)
         /\ Head(net.client).opcode = "TEXT" =>
              /\ Len(written) + 1 <= Len(WsText)
              /\ Head(net.client).unit = content[Len(written) + 1]
              /\ Head(net.client).unit \in Data
         /\ Head(net.client).opcode # "TEXT" => Len(written) = Len(WsText)
<1>1. /\ Len(written) \in Nat /\ Len(WsText) \in Nat /\ Len(written) <= Len(WsText)
      /\ Len(WsText) <= Len(content) /\ content \in Seq(Data)
  BY TextIs DEF WsShape, WsFollows
<1>2. Head(net.client) = net.client[1] /\ Len(net.client) >= 1 /\ Len(net.client) \in Nat
  BY FirstOf DEF WsShape, Channels
<1>3. Answers = 0 /\ Follows(net.client, Len(written), Answers)
  BY DEF Answers, WsFollows
<1>. DEFINE w == Len(written)
            head == net.client[1]
<1>4. 1 \in Answers + 1..Len(net.client) /\ w + 1 - Answers = w + 1
  BY <1>1, <1>2, <1>3
<1>5. IF w + 1 - Answers <= Len(WsText) THEN head = TextFrame(content[w + 1 - Answers])
                              ELSE head.opcode \in {"PING", "CLOSE"}
  BY <1>3, <1>4 DEF Follows
<1>6. IF w + 1 <= Len(WsText) THEN head = TextFrame(content[w + 1])
                              ELSE head.opcode \in {"PING", "CLOSE"}
  BY <1>4, <1>5
<1>7. CASE w + 1 <= Len(WsText)
  <2>1. content[w + 1] \in Data
    <3>1. w + 1 \in 1..Len(content) /\ Len(content) \in Nat
      BY <1>1, <1>7
    <3>2. QED
      BY <1>1, <3>1
  <2>2. head = TextFrame(content[w + 1])
    BY <1>6, <1>7
  <2>3. head.opcode = "TEXT" /\ head.unit = content[w + 1]
    BY <2>1, <2>2, WsMessagesAre
  <2>4. QED
    BY <1>1, <1>2, <1>7, <2>1, <2>3
<1>8. CASE ~(w + 1 <= Len(WsText))
  <2>1. head.opcode \in {"PING", "CLOSE"}
    BY <1>6, <1>8
  <2>2. w = Len(WsText)
    BY <1>1, <1>8
  <2>3. QED
    BY <1>1, <1>2, <2>1, <2>2
<1>9. QED
  BY <1>7, <1>8

\* The client's file after each of its steps.
LEMMA WsClientWritten ==
  ASSUME WsShape, WsFollows, SettingsStay, WsClient, "merge" \notin faults
  PROVE  /\ ~WsClientText => written' = written
         /\ WsClientText =>
              /\ Len(written') = Len(written) + 1 /\ Len(written') <= Len(WsText)
              /\ \A i \in 1..Len(written') : written'[i] = content[i]
         /\ written' \in Seq(Data)
<1>1. ~WsClientText => written' = written
  BY DEF WsClient, WsClientStart, WsClientUpgraded, WsClientPing, WsClientClose, WsClientFails,
         fileVars, quietVars
<1>2. written \in Seq(Data)
  BY DEF WsShape
<1>3. CASE WsClientText
  <2>. DEFINE unit == Head(net.client).unit
              w == Len(written)
  <2>1. /\ at.client = "frames" /\ net.client # <<>> /\ Head(net.client).opcode = "TEXT"
        /\ written' = Append(written, unit)
    BY <1>3 DEF WsClientText
  <2>2. w + 1 <= Len(WsText) /\ unit = content[w + 1] /\ unit \in Data /\ w \in Nat
    BY <2>1, FrameIsNext
  <2>. HIDE DEF unit
  <2>3. /\ written' \in Seq(Data) /\ Len(written') = w + 1 /\ written'[w + 1] = unit
        /\ \A i \in 1..w : written'[i] = written[i]
    BY <1>2, <2>1, <2>2, AppendProperties
  <2>4. \A i \in 1..w : written[i] = content[i]
    BY DEF WsFollows
  <2>. HIDE DEF w
  <2>5. \A i \in 1..w + 1 : i \in 1..w \/ i = w + 1
    BY <2>2
  <2>6. \A i \in 1..w + 1 : written'[i] = content[i]
    BY <2>2, <2>3, <2>4, <2>5
  <2>7. QED
    BY <1>3, <2>2, <2>3, <2>6 DEF w
<1>4. QED
  BY <1>1, <1>2, <1>3

LEMMA WsClientStream ==
  ASSUME WsShape, WsPlaces, WsFollows, SettingsStay, WsClient, "merge" \notin faults,
         at'.client # "exit"
  PROVE  WsPlaces' /\ WsFollows'
<1>1. /\ WsClientQuiet /\ at'.client \in {"upgraded", "frames"}
      /\ at'.client = "upgraded" => WsClientStart
      /\ at'.client = "frames" => ~WsClientStart
  BY WsClientPlaces
<1>2. /\ net.client \in Seq(WsMessages) /\ net'.client \in Seq(WsMessages)
      /\ content \in Seq(Data) /\ content' = content /\ at'.server = at.server
  BY <1>1, WsClientChannels DEF WsShape, Channels, SettingsStay, WsClientQuiet
<1>3. WsText' = WsText
  BY <1>2 DEF WsText
<1>4. /\ Len(WsText) \in Nat /\ Len(written) \in Nat /\ Len(net.client) \in Nat
      /\ Len(net'.client) \in Nat /\ written' \in Seq(Data) /\ Len(written') \in Nat
  <2>1. written' \in Seq(Data)
    BY WsClientWritten
  <2>2. QED
    BY <1>2, <2>1, TextIs DEF WsShape
<1>5. CASE at'.client = "upgraded"
  <2>1. at.client = "start" /\ WsClientStart
    BY <1>1, <1>5 DEF WsClientStart
  <2>2. net'.client = net.client
    <3>1. ~WsClientUpgraded /\ ~WsClientText /\ ~WsClientPing /\ ~WsClientClose
      BY <2>1 DEF WsClientUpgraded, WsClientText, WsClientPing, WsClientClose
    <3>2. QED
      BY <3>1, WsClientChannels
  <2>3. written' = written
    BY <2>1, WsClientWritten DEF WsClientText
  <2>4. Answers = 1 /\ Answers' = 1
    BY <1>5, <2>1 DEF Answers
  <2>5. WsPlaces'
    BY <1>2, <1>5, <2>1, <2>2, <2>3, <2>4 DEF WsPlaces
  <2>6. Follows(net.client, Len(written), Answers)'
    BY <1>2, <1>3, <2>2, <2>3, <2>4 DEF WsFollows, Follows
  <2>7. QED
    BY <1>2, <1>3, <2>2, <2>3, <2>4, <2>5, <2>6 DEF WsFollows
<1>6. CASE at'.client = "frames"
  <2>. DEFINE o == Answers
              w == Len(written)
              next == Len(written')
  <2>1. ~WsClientStart /\ ~WsClientFails /\ ~WsClientClose /\ Answers' = 0
    <3>1. ~WsClientFails /\ ~WsClientClose
      <4>1. WsClientFails \/ WsClientClose => \E printed : Finish("client", printed)
        BY DEF WsClientFails, WsClientClose
      <4>2. \A printed : Finish("client", printed) => at'.client = "exit"
        BY Moves DEF WsShape
      <4>3. QED
        BY <1>6, <4>1, <4>2
    <3>2. QED
      BY <1>1, <1>6, <3>1 DEF Answers
  <2>2. net.client # <<>> /\ Shrinks(net.client, net'.client) /\ Len(net.client) = Len(net'.client) + 1
    BY <2>1, WsClientChannels DEF Shrinks
  <2>3. \/ WsClientUpgraded /\ o = 1 /\ next = w /\ written' = written
        \/ WsClientText /\ o = 0 /\ next = w + 1
        \/ WsClientPing /\ o = 0 /\ next = w /\ w >= Len(WsText) /\ written' = written
    <3>1. CASE WsClientUpgraded
      <4>1. at.client = "upgraded"
        BY <3>1 DEF WsClientUpgraded
      <4>2. ~WsClientText
        BY <4>1 DEF WsClientText
      <4>3. QED
        BY <3>1, <4>1, <4>2, WsClientWritten DEF Answers
    <3>2. CASE WsClientText
      <4>1. at.client = "frames"
        BY <3>2 DEF WsClientText
      <4>2. QED
        BY <3>2, <4>1, WsClientWritten DEF Answers
    <3>3. CASE WsClientPing
      <4>1. at.client = "frames" /\ Head(net.client).opcode = "PING"
        BY <3>3 DEF WsClientPing
      <4>2. ~WsClientText
        BY <4>1 DEF WsClientText
      <4>3. w = Len(WsText)
        BY <2>2, <4>1, FrameIsNext
      <4>4. QED
        BY <1>4, <3>3, <4>1, <4>2, <4>3, WsClientWritten DEF Answers
    <3>4. QED
      BY <2>1, <3>1, <3>2, <3>3 DEF WsClient
  <2>4. Follows(net.client, w, o) /\ w <= Len(WsText)
    BY DEF WsFollows
  <2>5. w \in Nat /\ o \in Nat /\ next \in Nat
    BY <1>4, <2>3
  <2>6. next <= Len(WsText) /\ \A i \in 1..next : written'[i] = content[i]
    BY <2>3, <2>4, WsClientWritten DEF WsFollows
  <2>7. \/ o = 1 /\ next = w
        \/ o = 0 /\ next = w + 1
        \/ o = 0 /\ next = w /\ w >= Len(WsText)
    BY <2>3
  <2>. HIDE DEF o, w, next
  <2>8. Follows(net'.client, next, 0)
    BY <1>2, <1>4, <2>2, <2>4, <2>5, <2>7, FollowsTaken
  <2>9. (Follows(net.client, Len(written), Answers))'
    BY <1>2, <1>3, <2>1, <2>8 DEF Follows, next
  <2>10. at.server = "pong" => next + Len(net'.client) >= Len(WsText) + 0
    <3>1. at.server = "pong" => w + Len(net.client) >= Len(WsText) + o
      BY DEF WsFollows, w, o
    <3>2. w + Len(net.client) >= Len(WsText) + o
            => next + Len(net'.client) >= Len(WsText) + 0
      BY <1>4, <2>2, <2>5, <2>7
    <3>3. QED
      BY <3>1, <3>2
  <2>11. at.server # "upgrade"
    BY <2>2 DEF WsPlaces
  <2>12. at.server = "text" => Len(net'.client) = 0 /\ written' = <<>>
    <3>1. at.server = "text" => Len(net.client) = o /\ written = <<>> /\ w = 0
      BY EmptySeq DEF WsPlaces, o, w
    <3>2. Len(net.client) = o => o = 1 /\ Len(net'.client) = 0
      BY ONLY <1>4, <2>2, <2>5, <2>7
    <3>3. o = 1 => written' = written
      BY <2>3 DEF o
    <3>4. QED
      BY <3>1, <3>2, <3>3
  <2>13. WsPlaces'
    BY <1>2, <1>6, <2>1, <2>11, <2>12 DEF WsPlaces
  <2>14. QED
    BY <1>2, <1>3, <2>1, <2>6, <2>9, <2>10, <2>13 DEF WsFollows, next
<1>7. QED
  BY <1>1, <1>5, <1>6

LEMMA WsClientResult ==
  ASSUME WsShape, WsStream, WsResult, SettingsStay, WsClient, "merge" \notin faults
  PROVE  WsResult'
<1>1. /\ WsClientQuiet /\ at.client # "exit" /\ results.client = <<>>
      /\ at'.client # "exit" => results' = results
      /\ ~WsClientClose => \/ results'.client = results.client
                           \/ results'.client = results.client \o ABORT
  BY WsClientPlaces DEF WsResult
<1>2. at'.client # "exit" => results'.client = <<>>
  BY <1>1
<1>3. CASE ~WsClientClose
  <2>1. "OK" \notin Range(results'.client)
    BY <1>1, <1>3, Printed
  <2>2. QED
    BY <1>2, <2>1 DEF WsResult
<1>4. CASE WsClientClose
  <2>1. at.client = "frames" /\ net.client # <<>> /\ Head(net.client).opcode = "CLOSE"
    BY <1>4 DEF WsClientClose
  <2>2. ~WsClientText
    BY <2>1 DEF WsClientText
  <2>3. WsFollows
    BY <1>1 DEF WsStream
  <2>. DEFINE n == Len(WsText)
  <2>4. Len(written) = n /\ n \in Nat
    BY <2>1, <2>3, FrameIsNext
  <2>5. written' = written /\ content' = content
    BY <2>2, <2>3, WsClientWritten DEF SettingsStay
  <2>6. \A i \in 1..n : written[i] = content[i]
    BY <2>3, <2>4 DEF WsFollows
  <2>7. content \in Seq(Data) /\ written \in Seq(Data) /\ n <= Len(content)
    BY TextIs DEF WsShape
  <2>8. WsText' = WsText
    BY <2>5 DEF WsText
  <2>9. SubSeq(content, 1, n) = written
    BY <2>4, <2>6, <2>7, PrefixIs
  <2>10. QED
    BY <1>2, <2>5, <2>8, <2>9 DEF WsResult
<1>5. QED
  BY <1>3, <1>4

LEMMA WsClientParts ==
  ASSUME WsParts, SettingsStay, WsClient, "merge" \notin faults
  PROVE  WsParts'
<1>1. WsShape /\ WsStream /\ WsResult
  BY DEF WsParts
<1>2. WsShape'
  <2>1. /\ WsClientQuiet /\ at'.client \in {"upgraded", "frames", "exit"}
        /\ Channels(WsMessages)'
    BY <1>1, WsClientPlaces, WsClientChannels
  <2>2. written' \in Seq(Data)
    <3>1. at.client # "exit"
      BY <1>1, WsClientPlaces
    <3>2. QED
      BY <1>1, <3>1, WsClientWritten DEF WsStream
  <2>3. QED
    BY <1>1, <2>1, <2>2 DEF WsShape, WsClientQuiet, SettingsStay
<1>3. WsStream'
  BY <1>1, WsClientPlaces, WsClientStream DEF WsStream
<1>4. WsResult'
  BY <1>1, WsClientResult
<1>5. QED
  BY <1>2, <1>3, <1>4 DEF WsParts

LEMMA WsNextKeeps == WsInv /\ [Next]_demoVars => WsInv'
<1>. SUFFICES ASSUME WsInv, [Next]_demoVars, protocol' = "websocket-basic"
              PROVE  /\ WsSecret' /\ content' \in Seq(Data) /\ faults' \in StreamFaults
                     /\ "merge" \notin faults' => WsParts'
  BY DEF WsInv
<1>1. SettingsStay /\ protocol = "websocket-basic"
  BY SettingsKept DEF SettingsStay
<1>2. /\ WsSecret /\ content \in Seq(Data) /\ faults \in StreamFaults
      /\ "merge" \notin faults => WsParts
      /\ content' = content /\ faults' = faults
  BY <1>1 DEF WsInv, SettingsStay
<1>3. CASE UNCHANGED demoVars
  <2>1. WsSecret'
    BY <1>2, <1>3 DEF demoVars, WsSecret, Sequences, Pair, Secret
  <2>2. WsText' = WsText /\ Answers' = Answers
    BY <1>3 DEF demoVars, WsText, Answers
  <2>3. WsParts => WsParts'
    BY <1>3, <2>2 DEF demoVars, WsParts, WsShape, Channels, Pair, WsStream, WsPlaces, WsFollows,
                      Follows, WsResult
  <2>4. QED
    BY <1>2, <2>1, <2>3
<1>4. CASE WsServer
  BY <1>1, <1>2, <1>4, WsServerSecret, WsServerParts
<1>5. CASE WsClient
  BY <1>1, <1>2, <1>5, WsClientSecret, WsClientParts
<1>6. WsServer \/ WsClient \/ UNCHANGED demoVars
  BY <1>1, <1>2, StreamsReliable
     DEF Next, Server, Client, Strangers, TcpFamily, WebFamily, Lose, Duplicate
<1>7. QED
  BY <1>3, <1>4, <1>5, <1>6

-----------------------------------------------------------------------------
(***************************************************************************)
(* Nothing without the password.                                           *)
(***************************************************************************)
LEMMA SecretFollows == TcpInv /\ HttpInv /\ WsInv => TransferOnlyWithSecret
<1>. SUFFICES ASSUME TcpInv, HttpInv, WsInv
              PROVE  TransferOnlyWithSecret
  OBVIOUS
<1>1. protocol \in TcpFamily /\ mem.sent > 0 =>
        mem.authed \/ (protocol = "tcp-basic" /\ "server" \in stopped)
  BY DEF TcpInv, SecretInv, LetInInv
<1>2. protocol = "websocket-basic" /\ (at.server \in {"text", "pong"} \/ PrintsOk("server")
                                         \/ written # <<>>)
        => mem.passwords[1]
  BY DEF WsInv, WsSecret, Secret, PrintsOk
<1>3. protocol = "http-basic" /\ (PrintsOk("server") \/ written # <<>>) => mem.passwords[1]
  BY DEF HttpInv, HttpParts, Secret, PrintsOk
<1>4. QED
  BY <1>1, <1>2, <1>3 DEF TransferOnlyWithSecret

\* Whatever signals come, strangers ask for and recv calls join: the servers of tcp-basic and
\* tls-like send nothing of the file, the WebSocket server neither its text nor an OK, and the
\* HTTP server no OK, to a client that has not had the right password; only a stop in the
\* password rounds of tcp-basic lets the file go.
THEOREM NothingWithoutSecret == Spec => []TransferOnlyWithSecret
<1>. DEFINE Inv == TcpInv /\ HttpInv /\ WsInv
<1>1. Init => Inv
  BY TcpInitially, HttpInitially, WsInitially
<1>2. Inv /\ [Next]_demoVars => Inv'
  BY TcpNextKeeps, HttpNextKeeps, WsNextKeeps
<1>3. Inv => TransferOnlyWithSecret
  BY SecretFollows
<1>. HIDE DEF Inv
<1>4. QED
  BY <1>1, <1>2, <1>3, PTL DEF Spec

-----------------------------------------------------------------------------
(***************************************************************************)
(* QuicLike: what is acknowledged, and what the client publishes.          *)
(***************************************************************************)
\* A CLOSE has the digest of the file of the server's start, a STREAM its part of it.
Sound(m) ==
  /\ m.type = "CLOSE" => m.digest = original
  /\ m.type = "STREAM" =>
       \A k \in 1..StreamCount : m.seq = StreamSeq(k) => m.payload \in Payloads(k)

\* The stream with this number is among the chunks, or there is no room left.
Holds(chunks, seq) ==
  \/ Len(chunks) = Capacity
  \/ \E c \in Range(chunks) :
       /\ c.seq = seq
       /\ \A k \in 1..StreamCount : seq = StreamSeq(k) => c.payload \in Payloads(k)
Stored(seq) == Holds(mem.chunks, seq)

QuicShape ==
  /\ Sequences /\ Pair(at) /\ Pair(results)
  /\ \E peer : mem = [peer |-> peer, acked |-> mem.acked, chunks |-> mem.chunks]
  /\ mem.acked \in Nat /\ IsSeq(mem.chunks) /\ Len(mem.chunks) <= Capacity
  /\ at.server \in {"initial", "zero_rtt", "handshake_ack", "ack", "exit"}
  /\ at.server # "exit" => results.server = <<>>
  /\ at.server \in {"initial", "zero_rtt", "handshake_ack"} => mem.acked = 0
  /\ at.server = "ack" => mem.acked < StreamCount
  /\ \A m \in Range(net.client) : Sound(m)

\* As long as no stranger acknowledges for the client.
QuicAcks ==
  /\ \A m \in Range(net.server) : m.type = "ACK" => Stored(m.ack)
  /\ \A k \in 1..mem.acked : Stored(StreamSeq(k))
  /\ PrintsOk("server") => \A k \in 1..StreamCount : Stored(StreamSeq(k))

QuicOutput ==
  /\ at.client # "exit" => committed = <<>> /\ results.client = <<>>
  /\ \/ committed = <<>> /\ (PrintsOk("client") => "rename" \in faults)
     \/ results.client = OK /\ committed = <<written>> /\ written = original

QuicParts == QuicShape /\ ("other" \notin faults => QuicAcks) /\ QuicOutput
QuicInv == protocol = "quic-like" => QuicParts

LEMMA ArrivingIs == \A p : Arriving(p) \subseteq DOMAIN net[p]
BY DEF Arriving

LEMMA StreamsAre ==
  /\ StreamCount \in Int
  /\ \A j, k \in 1..StreamCount : StreamSeq(j) = StreamSeq(k) => j = k
<1>1. StreamCount \in Int
  <2>1. CASE Reordered
    BY <2>1 DEF StreamCount
  <2>2. CASE ~Reordered
    <3>1. Len(original) + MaxPayload - 1 \in Int /\ MaxPayload \in Nat \ {0}
      BY QuicAssumption
    <3>2. QED
      BY <2>2, <3>1 DEF StreamCount
  <2>3. QED
    BY <2>1, <2>2
<1>2. QED
  BY <1>1 DEF StreamSeq

LEMMA StreamsStay ==
  ASSUME SettingsStay
  PROVE  /\ StreamCount' = StreamCount
         /\ \A k : StreamSeq(k)' = StreamSeq(k) /\ Payloads(k)' = Payloads(k)
         /\ \A m : Sound(m)' <=> Sound(m)
         /\ \A chunks, seq : Holds(chunks, seq)' <=> Holds(chunks, seq)
<1>1. Reordered' = Reordered
  BY DEF SettingsStay, Reordered
<1>2. StreamCount' = StreamCount
  BY <1>1 DEF SettingsStay, StreamCount
<1>3. \A k : StreamSeq(k)' = StreamSeq(k) /\ Payloads(k)' = Payloads(k)
  BY <1>1 DEF SettingsStay, StreamSeq, Payloads, Part
<1>4. \A m : Sound(m)' <=> Sound(m)
  BY <1>2, <1>3 DEF Sound, SettingsStay
<1>5. \A chunks, seq : Holds(chunks, seq)' <=> Holds(chunks, seq)
  BY <1>2, <1>3 DEF Holds
<1>6. QED
  BY <1>2, <1>3, <1>4, <1>5

LEMMA QuicInitially == Init => QuicInv
<1>. SUFFICES ASSUME Init, protocol = "quic-like"
              PROVE  QuicParts
  BY DEF QuicInv
<1>1. QuicInit
  BY DEF Init, RadiusInit, SipInit, DnsInit, TcpInit, MqttInit, WebInit, WsInit, Http2Init,
         PacketInit, DigestInit, RequestInit, FramesInit
<1>2. /\ net.server = <<>> /\ net.client = <<>> /\ Pair(net) /\ Pair(at) /\ Pair(results)
      /\ results.server = <<>> /\ results.client = <<>>
      /\ at.server = "initial" /\ at.client = "start" /\ committed = <<>>
      /\ mem = [peer |-> "nobody", acked |-> 0, chunks |-> <<>>]
  BY <1>1, PlacesInit DEF QuicInit, FilesInit
<1>3. Len(<<>>) = 0 /\ Len(<<>>) <= Capacity
  BY EmptySeq, QuicAssumption
<1>4. QuicShape
  BY <1>2, <1>3, ShortSeqs DEF QuicShape, Sequences
<1>5. QuicAcks /\ QuicOutput
  BY <1>2, ShortSeqs DEF QuicAcks, QuicOutput, PrintsOk
<1>6. QED
  BY <1>4, <1>5 DEF QuicParts

\* What the server sends next, and how it goes on.
LEMMA GoesOnIs ==
  ASSUME QuicShape, NEW i \in DOMAIN net.server, NEW k \in Nat, NEW peer,
         QuicGoesOn(i, k, peer)
  PROVE  /\ Sequences' /\ Range(net'.server) \subseteq Range(net.server)
         /\ \A m \in Range(net'.client) : Sound(m)
         /\ \/ k = StreamCount /\ Finish("server", OK)
            \/ k < StreamCount /\ Goto("server", "ack")
            \/ Finish("server", ABORT)
            \/ Killed("server")
<1>1. Sequences /\ \A m \in Range(net.client) : Sound(m)
  BY DEF QuicShape
<1>2. ASSUME NEW msgs, IsSeq(msgs), Exchange("server", i, msgs), \A m \in Range(msgs) : Sound(m)
      PROVE  /\ Sequences' /\ Range(net'.server) \subseteq Range(net.server)
             /\ \A m \in Range(net'.client) : Sound(m)
  BY <1>1, <1>2, ServerTrades
<1>. DEFINE ToPeer(m) == IF peer = "client" THEN <<m>> ELSE <<>>
            close == ClosePacket(original)
            stream(payload) == StreamPacket(IF Reordered /\ k = 0 THEN 3 ELSE 1,
                                            StreamSeq(k + 1), payload)
<1>3. ASSUME NEW m, Sound(m)
      PROVE  IsSeq(ToPeer(m)) /\ \A x \in Range(ToPeer(m)) : Sound(x)
  BY <1>3, ShortSeqs
<1>4. CASE k = StreamCount /\ Exchange("server", i, ToPeer(close)) /\ Finish("server", OK)
  <2>1. Sound(close)
    BY DEF Sound, ClosePacket
  <2>2. IsSeq(ToPeer(close)) /\ \A x \in Range(ToPeer(close)) : Sound(x)
    BY <1>3, <2>1
  <2>. HIDE DEF ToPeer, close
  <2>3. QED
    BY <1>2, <1>4, <2>2
<1>5. CASE /\ k < StreamCount
           /\ \E payload \in Payloads(k + 1) : Exchange("server", i, ToPeer(stream(payload)))
           /\ Goto("server", "ack")
  <2>1. PICK payload \in Payloads(k + 1) : Exchange("server", i, ToPeer(stream(payload)))
    BY <1>5
  <2>2. k + 1 \in 1..StreamCount
    BY <1>5, StreamsAre
  <2>3. Sound(stream(payload))
    <3>. DEFINE m == stream(payload)
    <3>1. m.type = "STREAM" /\ m.seq = StreamSeq(k + 1) /\ m.payload = payload
      BY DEF StreamPacket
    <3>. HIDE DEF m
    <3>2. Sound(m)
      BY <2>2, <3>1, StreamsAre DEF Sound
    <3>3. QED
      BY <3>2 DEF m
  <2>4. IsSeq(ToPeer(stream(payload))) /\ \A x \in Range(ToPeer(stream(payload))) : Sound(x)
    BY <1>3, <2>3
  <2>. HIDE DEF ToPeer, stream
  <2>5. QED
    BY <1>2, <1>5, <2>1, <2>4
<1>6. CASE Exchange("server", i, <<>>) /\ (Finish("server", ABORT) \/ Killed("server"))
  BY <1>2, <1>6, ShortSeqs
<1>7. QED
  BY <1>4, <1>5, <1>6 DEF QuicGoesOn

\* What all steps of the server have in common.
QuicServerStep ==
  /\ Sequences' /\ Range(net'.server) \subseteq Range(net.server)
  /\ \A m \in Range(net'.client) : Sound(m)
  /\ at.server # "exit" /\ written' = written /\ committed' = committed
  /\ \E peer : mem' = [peer |-> peer, acked |-> mem'.acked, chunks |-> mem.chunks]
  /\ \/ mem'.acked = mem.acked
     \/ /\ mem'.acked = mem.acked + 1
        /\ \E m \in Range(net.server) : m.type = "ACK" /\ m.ack = StreamSeq(mem'.acked)
  /\ \/ mem'.acked = 0 /\ \E place \in {"zero_rtt", "handshake_ack"} : Goto("server", place)
     \/ mem'.acked < StreamCount /\ Goto("server", "ack")
     \/ mem'.acked = StreamCount /\ Finish("server", OK)
     \/ Finish("server", ABORT)
     \/ Killed("server")

LEMMA QuicServerDoes ==
  ASSUME QuicShape, QuicServer
  PROVE  QuicServerStep
<1>1. /\ Sequences /\ Pair(at) /\ Pair(results) /\ IsSeq(net.server)
      /\ \A m \in Range(net.client) : Sound(m)
  BY DEF QuicShape, Sequences
<1>2. PICK peer : mem = [peer |-> peer, acked |-> mem.acked, chunks |-> mem.chunks]
  BY DEF QuicShape
<1>3. written' = written /\ committed' = committed /\ at.server # "exit"
  BY DEF QuicServer, QuicServerInitial, QuicServerZeroRtt, QuicServerNoZeroRtt,
         QuicServerHandshakeAck, QuicServerAck, QuicServerFails, quietVars
<1>4. Sound(Packet("HANDSHAKE", "server"))
  BY DEF Sound, Packet
<1>5. ASSUME NEW i \in DOMAIN net.server, NEW msgs, IsSeq(msgs), \A m \in Range(msgs) : Sound(m),
             Exchange("server", i, msgs)
      PROVE  /\ Sequences' /\ Range(net'.server) \subseteq Range(net.server)
             /\ \A m \in Range(net'.client) : Sound(m)
  BY <1>1, <1>5, ServerTrades
<1>6. \A b : /\ IsSeq(IF b THEN <<Packet("HANDSHAKE", "server")>> ELSE <<>>)
             /\ \A m \in Range(IF b THEN <<Packet("HANDSHAKE", "server")>> ELSE <<>>) : Sound(m)
  BY <1>4, ShortSeqs
<1>. DEFINE answer(from) == IF from = "client" THEN <<Packet("HANDSHAKE", "server")>> ELSE <<>>
<1>7. \A from : IsSeq(answer(from)) /\ \A m \in Range(answer(from)) : Sound(m)
  BY <1>6
<1>8. IsSeq(<<>>) /\ \A m \in Range(<<>>) : Sound(m)
  BY ShortSeqs
<1>. HIDE DEF answer
<1>9. CASE QuicServerInitial
  <2>1. PICK i \in DOMAIN net.server :
          /\ at.server = "initial" /\ mem' = [mem EXCEPT !.peer = net.server[i].from]
          /\ \/ Exchange("server", i, <<>>) /\ Finish("server", ABORT)
             \/ Exchange("server", i, <<>>) /\ Goto("server", "zero_rtt")
             \/ Exchange("server", i, answer(net.server[i].from)) /\ Goto("server", "handshake_ack")
    BY <1>9, ArrivingIs DEF QuicServerInitial, answer
  <2>2. mem' = [peer |-> net.server[i].from, acked |-> mem.acked, chunks |-> mem.chunks]
    BY <1>2, <2>1
  <2>3. mem'.acked = mem.acked /\ mem.acked = 0
    BY <2>1, <2>2 DEF QuicShape
  <2>4. /\ Sequences' /\ Range(net'.server) \subseteq Range(net.server)
        /\ \A m \in Range(net'.client) : Sound(m)
    BY <1>5, <1>7, <1>8, <2>1
  <2>5. \/ \E place \in {"zero_rtt", "handshake_ack"} : Goto("server", place)
        \/ Finish("server", ABORT)
    BY <2>1
  <2>6. QED
    BY <1>3, <2>2, <2>3, <2>4, <2>5 DEF QuicServerStep
<1>10. CASE QuicServerZeroRtt
  <2>1. PICK i \in DOMAIN net.server :
          /\ at.server = "zero_rtt" /\ mem' = [mem EXCEPT !.peer = net.server[i].from]
          /\ Exchange("server", i, answer(mem'.peer)) /\ Goto("server", "handshake_ack")
    BY <1>10, ArrivingIs DEF QuicServerZeroRtt, answer
  <2>2. mem' = [peer |-> net.server[i].from, acked |-> mem.acked, chunks |-> mem.chunks]
    BY <1>2, <2>1
  <2>3. mem'.acked = mem.acked /\ mem.acked = 0
    BY <2>1, <2>2 DEF QuicShape
  <2>4. /\ Sequences' /\ Range(net'.server) \subseteq Range(net.server)
        /\ \A m \in Range(net'.client) : Sound(m)
    BY <1>5, <1>7, <2>1
  <2>5. \E place \in {"zero_rtt", "handshake_ack"} : Goto("server", place)
    BY <2>1
  <2>6. QED
    BY <1>3, <2>2, <2>3, <2>4, <2>5 DEF QuicServerStep
<1>11. CASE QuicServerNoZeroRtt
  <2>1. /\ at.server = "zero_rtt" /\ mem' = mem
        /\ Send("server", answer(mem.peer)) /\ Goto("server", "handshake_ack")
    BY <1>11 DEF QuicServerNoZeroRtt, answer
  <2>2. mem'.acked = mem.acked /\ mem.acked = 0
    BY <2>1 DEF QuicShape
  <2>3. /\ Sequences' /\ Range(net'.server) \subseteq Range(net.server)
        /\ \A m \in Range(net'.client) : Sound(m)
    BY <1>1, <1>7, <2>1, ServerAdds
  <2>4. \E place \in {"zero_rtt", "handshake_ack"} : Goto("server", place)
    BY <2>1
  <2>5. QED
    BY <1>2, <1>3, <2>1, <2>2, <2>3, <2>4 DEF QuicServerStep
<1>12. CASE QuicServerHandshakeAck
  <2>1. PICK i \in DOMAIN net.server :
          /\ at.server = "handshake_ack" /\ mem' = [mem EXCEPT !.peer = net.server[i].from]
          /\ \/ QuicGoesOn(i, 0, net.server[i].from)
             \/ Exchange("server", i, <<>>) /\ Finish("server", ABORT)
    BY <1>12, ArrivingIs DEF QuicServerHandshakeAck
  <2>2. mem' = [peer |-> net.server[i].from, acked |-> mem.acked, chunks |-> mem.chunks]
    BY <1>2, <2>1
  <2>3. mem'.acked = mem.acked /\ mem.acked = 0
    BY <2>1, <2>2 DEF QuicShape
  <2>4. CASE QuicGoesOn(i, 0, net.server[i].from)
    BY <1>3, <2>2, <2>3, <2>4, GoesOnIs DEF QuicServerStep
  <2>5. CASE Exchange("server", i, <<>>) /\ Finish("server", ABORT)
    BY <1>3, <1>5, <1>8, <2>2, <2>3, <2>5 DEF QuicServerStep
  <2>6. QED
    BY <2>1, <2>4, <2>5
<1>13. CASE QuicServerAck
  <2>1. PICK i \in DOMAIN net.server :
          /\ at.server = "ack"
          /\ \/ /\ Acknowledges(net.server[i], mem.acked + 1)
                /\ mem' = [mem EXCEPT !.peer = net.server[i].from, !.acked = mem.acked + 1]
                /\ QuicGoesOn(i, mem.acked + 1, net.server[i].from)
             \/ /\ mem' = [mem EXCEPT !.peer = net.server[i].from]
                /\ Exchange("server", i, <<>>) /\ Finish("server", ABORT)
    BY <1>13, ArrivingIs DEF QuicServerAck
  <2>2. CASE /\ Acknowledges(net.server[i], mem.acked + 1)
             /\ mem' = [mem EXCEPT !.peer = net.server[i].from, !.acked = mem.acked + 1]
             /\ QuicGoesOn(i, mem.acked + 1, net.server[i].from)
    <3>. DEFINE k == mem.acked + 1
                m == net.server[i]
    <3>1. k \in Nat
      BY DEF QuicShape
    <3>2. m \in Range(net.server) /\ m.type = "ACK" /\ m.ack = StreamSeq(k)
      BY <2>2 DEF Range, Acknowledges
    <3>3. mem' = [mem EXCEPT !.peer = m.from, !.acked = k] /\ QuicGoesOn(i, k, m.from)
      BY <2>2
    <3>4. k = mem.acked + 1
      OBVIOUS
    <3>. HIDE DEF k, m
    <3>5. mem' = [peer |-> m.from, acked |-> k, chunks |-> mem.chunks]
      BY <1>2, <3>3
    <3>6. mem'.acked = k
      BY <3>5
    <3>7. /\ mem'.acked = mem.acked + 1
          /\ \E x \in Range(net.server) : x.type = "ACK" /\ x.ack = StreamSeq(mem'.acked)
      BY <3>2, <3>4, <3>6
    <3>8. /\ Sequences' /\ Range(net'.server) \subseteq Range(net.server)
          /\ \A x \in Range(net'.client) : Sound(x)
          /\ \/ mem'.acked = StreamCount /\ Finish("server", OK)
             \/ mem'.acked < StreamCount /\ Goto("server", "ack")
             \/ Finish("server", ABORT)
             \/ Killed("server")
      BY <3>1, <3>3, <3>6, GoesOnIs
    <3>9. \E other : mem' = [peer |-> other, acked |-> mem'.acked, chunks |-> mem.chunks]
      BY <3>5, <3>6
    <3>10. QED
      BY <1>3, <3>7, <3>8, <3>9 DEF QuicServerStep
  <2>3. CASE /\ mem' = [mem EXCEPT !.peer = net.server[i].from]
             /\ Exchange("server", i, <<>>) /\ Finish("server", ABORT)
    <3>1. mem' = [peer |-> net.server[i].from, acked |-> mem.acked, chunks |-> mem.chunks]
      BY <1>2, <2>3
    <3>2. mem'.acked = mem.acked
      BY <3>1
    <3>3. QED
      BY <1>3, <1>5, <1>8, <2>3, <3>1, <3>2 DEF QuicServerStep
  <2>4. QED
    BY <2>1, <2>2, <2>3
<1>14. CASE QuicServerFails
  <2>1. net' = net /\ mem' = mem /\ Finish("server", ABORT)
    BY <1>14 DEF QuicServerFails
  <2>2. Sequences'
    BY <1>1, <2>1 DEF Sequences, Pair
  <2>3. QED
    BY <1>1, <1>2, <1>3, <2>1, <2>2 DEF QuicServerStep
<1>15. QED
  BY <1>9, <1>10, <1>11, <1>12, <1>13, <1>14 DEF QuicServer

LEMMA QuicServerNext ==
  ASSUME QuicParts, SettingsStay, QuicServer
  PROVE  QuicParts'
<1>1. QuicShape /\ QuicOutput /\ QuicServerStep
  BY QuicServerDoes DEF QuicParts
<1>2. /\ Pair(at) /\ Pair(results) /\ at.server # "exit" /\ results.server = <<>>
      /\ written' = written /\ committed' = committed /\ StreamCount' = StreamCount
      /\ original' = original /\ faults' = faults /\ mem.acked \in Nat
  BY <1>1, StreamsStay DEF QuicShape, QuicServerStep, SettingsStay
<1>3. PICK peer : mem' = [peer |-> peer, acked |-> mem'.acked, chunks |-> mem.chunks]
  BY <1>1 DEF QuicServerStep
<1>4. mem'.chunks = mem.chunks /\ mem'.acked \in Nat
  BY <1>1, <1>2, <1>3 DEF QuicServerStep
<1>5. /\ Pair(at') /\ Pair(results') /\ at'.client = at.client
      /\ results'.client = results.client
      /\ \/ mem'.acked = 0 /\ at'.server \in {"zero_rtt", "handshake_ack"} /\ results'.server = <<>>
         \/ mem'.acked < StreamCount /\ at'.server = "ack" /\ results'.server = <<>>
         \/ mem'.acked = StreamCount /\ at'.server = "exit"
         \/ at'.server = "exit" /\ "OK" \notin Range(results'.server)
  <2>1. CASE mem'.acked = 0 /\ \E place \in {"zero_rtt", "handshake_ack"} : Goto("server", place)
    BY <1>2, <2>1, Moves
  <2>2. CASE mem'.acked < StreamCount /\ Goto("server", "ack")
    BY <1>2, <2>2, Moves
  <2>3. CASE mem'.acked = StreamCount /\ Finish("server", OK)
    BY <1>2, <2>3, Moves
  <2>4. CASE Finish("server", ABORT)
    BY <1>2, <2>4, Moves, Printed
  <2>5. CASE Killed("server")
    BY <1>2, <2>5, Moves, Printed
  <2>6. QED
    BY <1>1, <2>1, <2>2, <2>3, <2>4, <2>5 DEF QuicServerStep
<1>6. /\ Sequences' /\ Range(net'.server) \subseteq Range(net.server)
      /\ \A m \in Range(net'.client) : Sound(m)'
  BY <1>1, StreamsStay DEF QuicServerStep
<1>7. QuicShape'
  <2>1. IsSeq(mem'.chunks) /\ Len(mem'.chunks) <= Capacity
    BY <1>1, <1>4 DEF QuicShape
  <2>2. /\ at'.server \in {"initial", "zero_rtt", "handshake_ack", "ack", "exit"}
        /\ at'.server # "exit" => results'.server = <<>>
        /\ at'.server \in {"initial", "zero_rtt", "handshake_ack"} => mem'.acked = 0
        /\ at'.server = "ack" => mem'.acked < StreamCount
    BY <1>5
  <2>3. \E other : mem' = [peer |-> other, acked |-> mem'.acked, chunks |-> mem'.chunks]
    BY <1>3, <1>4
  <2>4. QED
    BY <1>2, <1>4, <1>5, <1>6, <2>1, <2>2, <2>3 DEF QuicShape
<1>8. ASSUME QuicAcks
      PROVE  QuicAcks'
  <2>1. \A seq : Stored(seq)' <=> Stored(seq)
    BY <1>2, <1>4, StreamsStay DEF Stored
  <2>2. \A k \in 1..mem'.acked : Stored(StreamSeq(k))
    <3>1. CASE mem'.acked = mem.acked
      BY <1>8, <3>1 DEF QuicAcks
    <3>2. CASE /\ mem'.acked = mem.acked + 1
               /\ \E m \in Range(net.server) : m.type = "ACK" /\ m.ack = StreamSeq(mem'.acked)
      <4>1. Stored(StreamSeq(mem'.acked))
        BY <1>8, <3>2 DEF QuicAcks
      <4>2. \A k \in 1..mem'.acked : k \in 1..mem.acked \/ k = mem'.acked
        BY <1>2, <3>2
      <4>3. QED
        BY <1>8, <4>1, <4>2 DEF QuicAcks
    <3>3. QED
      BY <1>1, <3>1, <3>2 DEF QuicServerStep
  <2>3. \A m \in Range(net'.server) : m.type = "ACK" => Stored(m.ack)'
    BY <1>6, <1>8, <2>1 DEF QuicAcks
  <2>4. \A k \in 1..mem'.acked : Stored(StreamSeq(k))'
    BY <2>1, <2>2, StreamsStay
  <2>5. "OK" \in Range(results'.server) => \A k \in 1..StreamCount' : Stored(StreamSeq(k))'
    <3>1. "OK" \in Range(results'.server) => mem'.acked = StreamCount
      BY <1>5, Printed
    <3>2. QED
      BY <1>2, <2>4, <3>1
  <2>6. QED
    BY <2>3, <2>4, <2>5 DEF QuicAcks, PrintsOk
<1>9. QuicOutput'
  BY <1>1, <1>2, <1>5 DEF QuicOutput, PrintsOk
<1>10. QED
  BY <1>2, <1>7, <1>8, <1>9 DEF QuicParts

\* The client keeps a stream for which it has room.
LEMMA StoreIs ==
  ASSUME QuicShape, SettingsStay, NEW m, m.type = "STREAM", Sound(m),
         mem' = [mem EXCEPT !.chunks = QuicStore(mem.chunks, m)]
  PROVE  /\ \E peer : mem' = [peer |-> peer, acked |-> mem.acked, chunks |-> mem'.chunks]
         /\ IsSeq(mem'.chunks) /\ Len(mem'.chunks) <= Capacity
         /\ \A seq : Stored(seq) => Stored(seq)'
         /\ Stored(m.seq)'
<1>. DEFINE c == [id |-> m.id, seq |-> m.seq, payload |-> m.payload]
            old == mem.chunks
            new == QuicStore(mem.chunks, m)
<1>1. PICK peer : mem = [peer |-> peer, acked |-> mem.acked, chunks |-> mem.chunks]
  BY DEF QuicShape
<1>2. IsSeq(old) /\ Len(old) \in Nat /\ Len(old) <= Capacity /\ Capacity \in Nat
  BY SeqIs, QuicAssumption DEF QuicShape
<1>3. c.seq = m.seq /\ \A k \in 1..StreamCount : m.seq = StreamSeq(k) => c.payload \in Payloads(k)
  BY DEF Sound
<1>4. new = IF Len(old) < Capacity THEN Append(old, c) ELSE old
  BY DEF QuicStore
<1>5. mem' = [mem EXCEPT !.chunks = new]
  OBVIOUS
<1>. HIDE DEF c, new
<1>6. mem' = [peer |-> peer, acked |-> mem.acked, chunks |-> new]
  BY <1>1, <1>5
<1>7. mem'.chunks = new
  BY <1>6
<1>. HIDE DEF old
<1>8. CASE Len(old) < Capacity
  <2>1. IsSeq(new) /\ Range(new) = Range(old) \cup {c} /\ Len(new) = Len(old) + 1
    BY <1>2, <1>4, <1>8, Extended, AppendProperties DEF IsSeq
  <2>2. Len(new) <= Capacity /\ Len(old) # Capacity
    BY <1>2, <1>8, <2>1
  <2>3. Holds(new, m.seq) /\ \A seq : Holds(old, seq) => Holds(new, seq)
    BY <1>3, <2>1, <2>2 DEF Holds
  <2>4. QED
    BY <1>6, <1>7, <2>1, <2>2, <2>3, StreamsStay DEF Stored, old
<1>9. CASE ~(Len(old) < Capacity)
  <2>1. new = old /\ Len(new) = Capacity
    BY <1>2, <1>4, <1>9
  <2>2. \A seq : Holds(new, seq)
    BY <2>1 DEF Holds
  <2>3. QED
    BY <1>2, <1>6, <1>7, <2>1, <2>2, StreamsStay DEF Stored
<1>10. QED
  BY <1>8, <1>9

\* What all steps of the client have in common.
QuicClientStep ==
  /\ Sequences' /\ Range(net'.client) \subseteq Range(net.client)
  /\ \A m \in Range(net'.server) : m \in Range(net.server) \/ (m.type = "ACK" => Stored(m.ack)')
  /\ \E peer : mem' = [peer |-> peer, acked |-> mem.acked, chunks |-> mem'.chunks]
  /\ IsSeq(mem'.chunks) /\ Len(mem'.chunks) <= Capacity
  /\ \A seq : Stored(seq) => Stored(seq)'
  /\ at'.server = at.server /\ results'.server = results.server
  /\ Pair(at') /\ Pair(results')

\* A step that stores nothing.
LEMMA StoresNothing ==
  ASSUME QuicShape, SettingsStay, mem' = mem
  PROVE  /\ \E peer : mem' = [peer |-> peer, acked |-> mem.acked, chunks |-> mem'.chunks]
         /\ IsSeq(mem'.chunks) /\ Len(mem'.chunks) <= Capacity
         /\ \A seq : Stored(seq) => Stored(seq)'
<1>1. \A seq : Stored(seq) => Stored(seq)'
  BY StreamsStay DEF Stored
<1>2. QED
  BY <1>1 DEF QuicShape

LEMMA QuicClientDoes ==
  ASSUME QuicShape, SettingsStay, QuicClient
  PROVE  QuicClientStep
<1>1. /\ Sequences /\ Pair(at) /\ Pair(results) /\ IsSeq(net.client)
      /\ \A m \in Range(net.client) : Sound(m)
  BY DEF QuicShape, Sequences
<1>2. /\ at'.server = at.server /\ results'.server = results.server
      /\ Pair(at') /\ Pair(results')
  <2>1. \/ \E place : Goto("client", place)
        \/ \E printed : Finish("client", printed)
        \/ at' = at /\ results' = results
    BY DEF QuicClient, QuicClientStart, QuicClientHandshake, QuicClientStream, QuicClientClose,
           QuicClientIgnores, QuicClientFails
  <2>2. QED
    BY <1>1, <2>1, Moves DEF Pair
<1>3. CASE QuicClientStart
  <2>. DEFINE first == <<Packet("INITIAL", "client")>>
              more == IF scenario = "zero-rtt-replay-risk" THEN <<Packet("ZERO_RTT", "client")>>
                      ELSE <<>>
              msgs == first \o more
  <2>1. /\ IsSeq(first) /\ \A m \in Range(first) : m.type # "ACK"
        /\ IsSeq(more) /\ \A m \in Range(more) : m.type # "ACK"
    BY ShortSeqs DEF Packet
  <2>2. Send("client", msgs) /\ mem' = mem
    BY <1>3 DEF QuicClientStart
  <2>. HIDE DEF first, more
  <2>3. IsSeq(msgs) /\ \A m \in Range(msgs) : m.type # "ACK"
    BY <2>1, Joined
  <2>. HIDE DEF msgs
  <2>4. /\ Sequences' /\ net'.client = net.client
        /\ Range(net'.server) = Range(net.server) \cup Range(msgs)
    BY <1>1, <2>2, <2>3, ClientAdds
  <2>5. QED
    BY <1>2, <2>2, <2>3, <2>4, StoresNothing DEF QuicClientStep
<1>4. CASE QuicClientHandshake \/ QuicClientClose \/ QuicClientIgnores
  <2>. DEFINE ack == <<Packet("HANDSHAKE_ACK", "client")>>
  <2>1. /\ IsSeq(ack) /\ \A m \in Range(ack) : m.type # "ACK"
        /\ IsSeq(<<>>) /\ Range(<<>>) = {}
    BY ShortSeqs DEF Packet
  <2>2. PICK i \in DOMAIN net.client :
          mem' = mem /\ (Exchange("client", i, ack) \/ Exchange("client", i, <<>>))
    BY <1>4, ArrivingIs DEF QuicClientHandshake, QuicClientClose, QuicClientIgnores
  <2>. HIDE DEF ack
  <2>3. PICK msgs :
          /\ Exchange("client", i, msgs) /\ IsSeq(msgs)
          /\ \A m \in Range(msgs) : m.type # "ACK"
    BY <2>1, <2>2
  <2>4. /\ Sequences' /\ Range(net'.client) \subseteq Range(net.client)
        /\ Range(net'.server) = Range(net.server) \cup Range(msgs)
    BY <1>1, <2>3, ClientTrades
  <2>5. QED
    BY <1>2, <2>2, <2>3, <2>4, StoresNothing DEF QuicClientStep
<1>5. CASE QuicClientStream
  <2>0. PICK i \in DOMAIN net.client :
          /\ net.client[i].type = "STREAM"
          /\ mem' = [mem EXCEPT !.chunks = QuicStore(mem.chunks, net.client[i])]
          /\ Exchange("client", i, <<AckPacket("client", net.client[i].seq)>>)
    BY <1>5, ArrivingIs DEF QuicClientStream
  <2>1. PICK m :
          /\ m = net.client[i] /\ m.type = "STREAM"
          /\ mem' = [mem EXCEPT !.chunks = QuicStore(mem.chunks, m)]
          /\ Exchange("client", i, <<AckPacket("client", m.seq)>>)
    BY <2>0
  <2>. DEFINE ack == AckPacket("client", m.seq)
              msgs == <<ack>>
  <2>2. Sound(m) /\ m.type = "STREAM"
    BY <1>1, <2>1 DEF Range
  <2>3. ack.type = "ACK" /\ ack.ack = m.seq
    BY DEF AckPacket
  <2>4. IsSeq(msgs) /\ Range(msgs) = {ack}
    BY ShortSeqs
  <2>5. Exchange("client", i, msgs) /\ mem' = [mem EXCEPT !.chunks = QuicStore(mem.chunks, m)]
    BY <2>1
  <2>. HIDE DEF ack, msgs
  <2>6. /\ Sequences' /\ Range(net'.client) \subseteq Range(net.client)
        /\ Range(net'.server) = Range(net.server) \cup Range(msgs)
    BY <1>1, <2>4, <2>5, ClientTrades
  <2>7. /\ \E peer : mem' = [peer |-> peer, acked |-> mem.acked, chunks |-> mem'.chunks]
        /\ IsSeq(mem'.chunks) /\ Len(mem'.chunks) <= Capacity
        /\ \A seq : Stored(seq) => Stored(seq)'
        /\ Stored(m.seq)'
    BY <2>2, <2>5, StoreIs
  <2>8. \A x \in Range(net'.server) : x \in Range(net.server) \/ (x.type = "ACK" => Stored(x.ack)')
    <3>1. Stored(ack.ack)'
      BY <2>3, <2>7
    <3>2. QED
      BY <2>4, <2>6, <3>1
  <2>9. QED
    BY <1>2, <2>6, <2>7, <2>8 DEF QuicClientStep
<1>6. CASE QuicClientFails
  <2>1. net' = net /\ mem' = mem
    BY <1>6 DEF QuicClientFails
  <2>2. Sequences'
    BY <1>1, <2>1 DEF Sequences, Pair
  <2>3. QED
    BY <1>2, <2>1, <2>2, StoresNothing DEF QuicClientStep
<1>7. QED
  BY <1>3, <1>4, <1>5, <1>6 DEF QuicClient

\* The client publishes what the CLOSE has the digest of.
LEMMA QuicClientOutput ==
  ASSUME QuicShape, QuicOutput, SettingsStay, QuicClient
  PROVE  QuicOutput'
<1>1. /\ Pair(at) /\ Pair(results) /\ original' = original /\ faults' = faults
      /\ at.client # "exit" /\ committed = <<>> /\ results.client = <<>>
  BY DEF QuicShape, QuicOutput, SettingsStay, QuicClient, QuicClientStart, QuicClientHandshake,
         QuicClientStream, QuicClientClose, QuicClientIgnores, QuicClientFails
<1>2. CASE ~QuicClientClose
  <2>1. committed' = committed
    BY <1>2 DEF QuicClient, QuicClientStart, QuicClientHandshake, QuicClientStream,
                QuicClientIgnores, QuicClientFails, quietVars
  <2>2. \/ \E place \in {"handshake", "streams"} : Goto("client", place)
        \/ Finish("client", ABORT)
        \/ at' = at /\ results' = results
    BY <1>2 DEF QuicClient, QuicClientStart, QuicClientHandshake, QuicClientStream,
                QuicClientIgnores, QuicClientFails
  <2>3. results'.client \in {<<>>, ABORT} /\ (at'.client # "exit" => results'.client = <<>>)
    BY <1>1, <2>2, Moves, Printed
  <2>4. "OK" \notin Range(results'.client)
    BY <2>3, Printed
  <2>5. QED
    BY <1>1, <2>1, <2>3, <2>4 DEF QuicOutput, PrintsOk
<1>3. CASE QuicClientClose
  <2>1. PICK i \in DOMAIN net.client :
          /\ net.client[i].type = "CLOSE"
          /\ \/ written' = net.client[i].digest /\ Publish(written') /\ Finish("client", OK)
             \/ committed' = committed /\ Finish("client", ABORT)
    BY <1>3, ArrivingIs DEF QuicClientClose
  <2>2. net.client[i].digest = original
    BY <2>1 DEF QuicShape, Sound, Range
  <2>3. CASE written' = net.client[i].digest /\ Publish(written') /\ Finish("client", OK)
    <3>1. written' = original
      BY <2>2, <2>3
    <3>2. committed' = <<written'>> \/ ("rename" \in faults /\ committed' = <<>>)
      BY <1>1, <2>3 DEF Publish
    <3>3. at'.client = "exit" /\ results'.client = OK
      BY <1>1, <2>3, Moves, Printed
    <3>4. QED
      BY <1>1, <3>1, <3>2, <3>3 DEF QuicOutput, PrintsOk
  <2>4. CASE committed' = committed /\ Finish("client", ABORT)
    <3>1. at'.client = "exit" /\ results'.client = ABORT
      BY <1>1, <2>4, Moves, Printed
    <3>2. QED
      BY <1>1, <2>4, <3>1, Printed DEF QuicOutput, PrintsOk
  <2>5. QED
    BY <2>1, <2>3, <2>4
<1>4. QED
  BY <1>2, <1>3

LEMMA QuicClientNext ==
  ASSUME QuicParts, SettingsStay, QuicClient
  PROVE  QuicParts'
<1>1. QuicShape /\ QuicOutput /\ QuicClientStep
  BY QuicClientDoes DEF QuicParts
<1>2. /\ StreamCount' = StreamCount /\ faults' = faults
      /\ \A k : StreamSeq(k)' = StreamSeq(k)
      /\ \A m : Sound(m)' <=> Sound(m)
  BY StreamsStay DEF SettingsStay
<1>3. PICK peer : mem' = [peer |-> peer, acked |-> mem.acked, chunks |-> mem'.chunks]
  BY <1>1 DEF QuicClientStep
<1>4. mem'.acked = mem.acked
  BY <1>3
<1>5. QuicShape'
  <2>1. \E other : mem' = [peer |-> other, acked |-> mem'.acked, chunks |-> mem'.chunks]
    BY <1>3, <1>4
  <2>2. \A m \in Range(net'.client) : Sound(m)'
    BY <1>1, <1>2 DEF QuicShape, QuicClientStep
  <2>3. Sequences' /\ Pair(at') /\ Pair(results') /\ IsSeq(mem'.chunks)
        /\ Len(mem'.chunks) <= Capacity
    BY <1>1 DEF QuicClientStep
  <2>4. /\ mem'.acked \in Nat
        /\ at'.server \in {"initial", "zero_rtt", "handshake_ack", "ack", "exit"}
        /\ at'.server # "exit" => results'.server = <<>>
        /\ at'.server \in {"initial", "zero_rtt", "handshake_ack"} => mem'.acked = 0
        /\ at'.server = "ack" => mem'.acked < StreamCount'
    BY <1>1, <1>2, <1>4 DEF QuicShape, QuicClientStep
  <2>5. QED
    BY <2>1, <2>2, <2>3, <2>4 DEF QuicShape
<1>6. ASSUME QuicAcks
      PROVE  QuicAcks'
  <2>1. \A m \in Range(net'.server) : m.type = "ACK" => Stored(m.ack)'
    BY <1>1, <1>6 DEF QuicAcks, QuicClientStep
  <2>2. \A k \in 1..mem'.acked : Stored(StreamSeq(k))'
    BY <1>1, <1>2, <1>4, <1>6 DEF QuicAcks, QuicClientStep
  <2>3. "OK" \in Range(results'.server) => \A k \in 1..StreamCount' : Stored(StreamSeq(k))'
    BY <1>1, <1>2, <1>6 DEF QuicAcks, QuicClientStep, PrintsOk
  <2>4. QED
    BY <2>1, <2>2, <2>3 DEF QuicAcks, PrintsOk
<1>7. QuicOutput'
  BY <1>1, QuicClientOutput
<1>8. QED
  BY <1>2, <1>5, <1>6, <1>7 DEF QuicParts

LEMMA QuicNextKeeps == QuicInv /\ [Next]_demoVars => QuicInv'
<1>. SUFFICES ASSUME QuicInv, [Next]_demoVars, protocol' = "quic-like"
              PROVE  QuicParts'
  BY DEF QuicInv
<1>1. SettingsStay /\ protocol = "quic-like" /\ faults' = faults
  BY SettingsKept DEF SettingsStay
<1>2. QuicParts /\ QuicShape /\ QuicOutput /\ Sequences /\ Pair(at) /\ Pair(results)
  BY <1>1 DEF QuicInv, QuicParts, QuicShape
<1>3. CASE UNCHANGED demoVars \/ Lose \/ Duplicate \/ OtherSends(QuicOtherMessages)
  <2>1. UNCHANGED <<at, results, mem, written, committed>>
    BY <1>3 DEF demoVars, Lose, Duplicate, OtherSends, settingVars, fileVars
  <2>2. /\ Sequences' /\ Range(net'.client) \subseteq Range(net.client)
        /\ \/ Range(net'.server) \subseteq Range(net.server)
           \/ "other" \in faults
    <3>1. CASE UNCHANGED demoVars
      BY <1>2, <3>1 DEF demoVars, Sequences, Pair
    <3>2. CASE Lose \/ Duplicate
      BY <1>2, <3>2, Disturbed
    <3>3. CASE OtherSends(QuicOtherMessages)
      BY <1>2, <3>3, Disturbed
    <3>4. QED
      BY <1>3, <3>1, <3>2, <3>3
  <2>3. /\ StreamCount' = StreamCount
        /\ \A k : StreamSeq(k)' = StreamSeq(k)
        /\ \A m : Sound(m)' <=> Sound(m)
    BY <1>1, StreamsStay
  <2>4. QuicShape'
    BY <1>2, <2>1, <2>2, <2>3 DEF QuicShape, Pair
  <2>5. \A seq : Stored(seq)' <=> Stored(seq)
    BY <1>1, <2>1, StreamsStay DEF Stored
  <2>6. "other" \notin faults' => QuicAcks'
    BY <1>1, <1>2, <2>1, <2>2, <2>3, <2>5 DEF QuicParts, QuicAcks, PrintsOk
  <2>7. QuicOutput'
    BY <1>1, <1>2, <2>1 DEF QuicOutput, PrintsOk, SettingsStay
  <2>8. QED
    BY <2>4, <2>6, <2>7 DEF QuicParts
<1>4. QuicServer \/ QuicClient \/ UNCHANGED demoVars \/ Lose \/ Duplicate
        \/ OtherSends(QuicOtherMessages)
  BY <1>1 DEF Next, Server, Client, Strangers, TcpFamily, WebFamily
<1>5. QED
  BY <1>1, <1>2, <1>3, <1>4, QuicServerNext, QuicClientNext

LEMMA StreamsFollow == QuicInv => StreamsKept
<1>. SUFFICES ASSUME QuicInv, protocol = "quic-like", "other" \notin faults, PrintsOk("server"),
                     Len(mem.chunks) # Capacity, NEW k \in 1..StreamCount
              PROVE  \E c \in Range(mem.chunks) :
                       c.seq = StreamSeq(k) /\ c.payload \in Payloads(k)
  BY DEF StreamsKept
<1>1. Stored(StreamSeq(k))
  BY DEF QuicInv, QuicParts, QuicAcks
<1>2. QED
  BY <1>1 DEF Stored, Holds

\* The QUIC-like server reports OK only when the client has stored every stream, with what it
\* may carry, or has no room left, however datagrams are lost, repeated, delayed and reordered
\* and whatever the length of the file, unless another client has sent to the server.
THEOREM AcknowledgedIsStored == Spec => []StreamsKept
<1>1. QuicInv /\ [Next]_demoVars => QuicInv'
  BY QuicNextKeeps
<1>2. QED
  BY QuicInitially, <1>1, StreamsFollow, PTL DEF Spec

-----------------------------------------------------------------------------
(***************************************************************************)
(* What the clients publish.                                               *)
(***************************************************************************)
UnpublishedInv == protocol \notin FileProtocols => committed = <<>>

LEMMA UnpublishedInitially == Init => UnpublishedInv
BY DEF Init, QuicInit, RadiusInit, SipInit, DnsInit, TcpInit, MqttInit, WebInit, WsInit, Http2Init,
       PacketInit, DigestInit, RequestInit, FramesInit, FilesInit, NoFiles, UnpublishedInv

LEMMA UnpublishedKept == UnpublishedInv /\ [Next]_demoVars => UnpublishedInv'
<1>. SUFFICES ASSUME [Next]_demoVars, protocol \notin FileProtocols, committed = <<>>
              PROVE  committed' = <<>>
  BY SettingsKept DEF UnpublishedInv, SettingsStay
<1>1. protocol \notin TcpFamily /\ protocol # "quic-like"
  BY DEF FileProtocols
<1>2. WsServer \/ WsClient => committed' = committed
  BY DEF WsServer, WsServerUpgrade, WsServerSendsText, WsServerSendBreaks, WsServerPong,
         WsServerFails, WsClient, WsClientStart, WsClientUpgraded, WsClientText, WsClientPing,
         WsClientClose, WsClientFails, quietVars, fileVars
<1>3. Server \/ Client => FilesStay \/ committed' = committed
  BY <1>1, <1>2, RadiusKeeps, SipKeeps, DnsKeeps, MqttKeeps, WebKeeps, H2Keeps, PacketKeeps,
     DigestKeeps, RequestKeeps, FrameKeeps DEF Server, Client
<1>4. QED
  BY <1>3, NetworkKeeps DEF Next, demoVars, FilesStay

LEMMA OutputFollows == TcpInv /\ QuicInv /\ WsInv /\ UnpublishedInv => OutputIsWholeFile
<1>. SUFFICES ASSUME TcpInv, QuicInv, WsInv, UnpublishedInv
              PROVE  OutputIsWholeFile
  OBVIOUS
<1>1. ASSUME protocol \in FileProtocols
      PROVE  \/ committed = <<>> /\ (PrintsOk("client") => "rename" \in faults)
             \/ results.client = OK /\ committed = <<written>> /\ written = Announced
  <2>1. CASE protocol \in TcpFamily
    BY <2>1 DEF TcpInv, OutputInv
  <2>2. CASE protocol = "quic-like"
    BY <2>2 DEF QuicInv, QuicParts, QuicOutput, Announced
  <2>3. QED
    BY <1>1, <2>1, <2>2 DEF FileProtocols
<1>2. ASSUME protocol = "websocket-basic", "merge" \notin faults, PrintsOk("client")
      PROVE  written = SubSeq(content, 1, Len(WsText))
  BY <1>2 DEF WsInv, WsParts, WsResult, PrintsOk
<1>3. DOMAIN <<>> = {} /\ Len(<<>>) = 0
  OBVIOUS
<1>4. DOMAIN <<written>> = {1} /\ Len(<<written>>) = 1 /\ <<written>>[1] = written
  OBVIOUS
<1>5. CASE committed = <<>> /\ (protocol \in FileProtocols /\ PrintsOk("client") => "rename" \in faults)
  BY <1>2, <1>3, <1>5 DEF OutputIsWholeFile
<1>6. CASE /\ protocol \in FileProtocols /\ results.client = OK
           /\ committed = <<written>> /\ written = Announced
  <2>1. PrintsOk("client")
    BY <1>6, Printed DEF PrintsOk
  <2>2. protocol # "websocket-basic"
    BY <1>6 DEF FileProtocols, TcpFamily
  <2>3. DOMAIN committed = {1} /\ Len(committed) = 1 /\ committed[1] = Announced
    BY <1>4, <1>6
  <2>4. QED
    BY <1>6, <2>1, <2>2, <2>3 DEF OutputIsWholeFile, Announced
<1>7. QED
  BY <1>1, <1>5, <1>6 DEF UnpublishedInv

\* Whatever is lost, repeated, reordered, interrupted or reset: the clients of tcp-basic,
\* tls-like and the QUIC-like protocol rename their .part file at most once, only when they
\* then report OK, and only if it is the whole file that the server has announced the digest
\* of; and a WebSocket client that reports OK has all the text, unless some of it came with
\* the 101.
THEOREM PublishedIsWhole == Spec => []OutputIsWholeFile
<1>. DEFINE Inv == TcpInv /\ QuicInv /\ WsInv /\ UnpublishedInv
<1>1. Init => Inv
  BY TcpInitially, QuicInitially, WsInitially, UnpublishedInitially
<1>2. Inv /\ [Next]_demoVars => Inv'
  BY TcpNextKeeps, QuicNextKeeps, WsNextKeeps, UnpublishedKept
<1>3. Inv => OutputIsWholeFile
  BY OutputFollows
<1>. HIDE DEF Inv
<1>4. QED
  BY <1>1, <1>2, <1>3, PTL DEF Spec
=============================================================================
