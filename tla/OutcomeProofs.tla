--------------------------- MODULE OutcomeProofs ----------------------------
(***************************************************************************)
(* Proofs about undisturbed runs: what test/run_tests.py expects of a      *)
(* scenario is what becomes of it.  Calm says that nothing disturbs, Runs  *)
(* has the stages that the two programs of each protocol go through, and   *)
(* Foretold what those that have ended have reported.  The general lemmas  *)
(* about channels, web exchanges and streams come with the protocols that  *)
(* need them.                                                              *)
(***************************************************************************)
EXTENDS ResultsProofs

-----------------------------------------------------------------------------
(***************************************************************************)
(* What is expected.                                                       *)
(***************************************************************************)
\* Nothing disturbs, and what is transferred is what a test has in mind.
Calm ==
  /\ faults = {} /\ original = content /\ ~TooLong /\ ~NothingToSpoil
  /\ scenario # "replay-invite" /\ protocol \notin Shared

\* Both programs are to report OK.
Fortunate == LetIn /\ scenario \in ExpectedOk(protocol)

BothGone == at.server = "exit" /\ at.client = "exit"

\* p goes on, or ends with the report that is expected of it.
GoesWell(p) ==
  \/ UNCHANGED <<at, results>>
  \/ \E place : place # "exit" /\ Goto(p, place)
  \/ Fortunate /\ Finish(p, OK)
  \/ ~Fortunate /\ (Finish(p, ABORT) \/ Finish(p, ABORT \o ABORT))
  \/ ~Fortunate /\ p = "server" /\ scenario = "tampered-app-data" /\ Killed(p)

\* The reports of the programs that have ended.
Foretold ==
  \A p \in Programs : Ended(p) =>
    \/ Fortunate /\ results[p] = OK
    \/ ~Fortunate /\ results[p] \in {ABORT, ABORT \o ABORT}
    \/ ~Fortunate /\ p = "server" /\ scenario = "tampered-app-data" /\ results[p] = <<>>

LEMMA ForetoldKept ==
  ASSUME ReportedOnce, Foretold, SettingsStay, Fortunate' <=> Fortunate,
         NEW p \in Programs, at[p] # "exit", GoesWell(p)
  PROVE  Foretold'
<1>1. Pair(at) /\ Pair(results) /\ scenario' = scenario
  BY DEF ReportedOnce, SettingsStay
<1>2. /\ <<>> \o OK = OK /\ <<>> \o ABORT = ABORT /\ <<>> \o (ABORT \o ABORT) = ABORT \o ABORT
  BY DEF OK, ABORT
<1>3. results[p] = <<>>
  BY DEF ReportedOnce, Programs
<1>4. CASE UNCHANGED <<at, results>>
  BY <1>1, <1>4 DEF Foretold, Ended
<1>5. CASE p = "server"
  <2>1. ASSUME NEW place, place # "exit", Goto("server", place)
        PROVE  Foretold'
    <3>1. at'.server # "exit" /\ at'.client = at.client /\ results' = results
      BY <1>1, <2>1, Moves
    <3>2. QED
      BY <1>1, <3>1 DEF Foretold, Ended, Programs
  <2>2. ASSUME NEW printed, Finish("server", printed),
               \/ Fortunate /\ printed = OK
               \/ ~Fortunate /\ printed \in {ABORT, ABORT \o ABORT}
        PROVE  Foretold'
    <3>1. /\ at'.client = at.client /\ results'.client = results.client
          /\ results'.server = results.server \o printed
      BY <1>1, <2>2, Moves
    <3>2. results'.server = printed
      BY <1>2, <1>3, <1>5, <2>2, <3>1
    <3>3. QED
      BY <1>1, <2>2, <3>1, <3>2 DEF Foretold, Ended, Programs
  <2>3. ASSUME ~Fortunate, scenario = "tampered-app-data", Killed("server")
        PROVE  Foretold'
    <3>1. /\ at'.client = at.client /\ results' = results
      BY <1>1, <2>3, Moves
    <3>2. QED
      BY <1>1, <1>3, <1>5, <2>3, <3>1 DEF Foretold, Ended, Programs
  <2>4. QED
    BY <1>4, <1>5, <2>1, <2>2, <2>3 DEF GoesWell
<1>6. CASE p = "client"
  <2>1. ASSUME NEW place, place # "exit", Goto("client", place)
        PROVE  Foretold'
    <3>1. at'.client # "exit" /\ at'.server = at.server /\ results' = results
      BY <1>1, <2>1, Moves
    <3>2. QED
      BY <1>1, <3>1 DEF Foretold, Ended, Programs
  <2>2. ASSUME NEW printed, Finish("client", printed),
               \/ Fortunate /\ printed = OK
               \/ ~Fortunate /\ printed \in {ABORT, ABORT \o ABORT}
        PROVE  Foretold'
    <3>1. /\ at'.server = at.server /\ results'.server = results.server
          /\ results'.client = results.client \o printed
      BY <1>1, <2>2, Moves
    <3>2. results'.client = printed
      BY <1>2, <1>3, <1>6, <2>2, <3>1
    <3>3. QED
      BY <1>1, <2>2, <3>1, <3>2 DEF Foretold, Ended, Programs
  <2>3. QED
    BY <1>4, <1>6, <2>1, <2>2 DEF GoesWell
<1>7. QED
  BY <1>5, <1>6 DEF Programs

\* What an undisturbed receive does.
LEMMA CalmReceives ==
  ASSUME faults = {}, Pair(net)
  PROVE  /\ ReceiveFails("server") <=> at.client = "exit" /\ net.server = <<>>
         /\ ReceiveFails("client") <=> at.server = "exit" /\ net.client = <<>>
         /\ TimesOut("server") => net.server = <<>>
              /\ (at.client = "exit" \/ (net.client = <<>> /\ at.client # "start"))
         /\ TimesOut("client") => net.client = <<>>
              /\ (at.server = "exit" \/ (net.server = <<>> /\ at.server # "start"))
         /\ \A p, i : i \in Arriving(p) => i = 1 /\ 1 \in DOMAIN net[p]
         /\ \A p : SignalWhileBusy(p) => stopped' = stopped
BY OtherIs DEF ReceiveFails, TimesOut, NothingComing, Arriving, Ended, SignalWhileBusy

\* The few datagrams there are.
LEMMA ShortRemoved ==
  /\ DOMAIN <<>> = {}
  /\ \A x : RemoveAt(<<x>>, 1) = <<>> /\ <<x>>[1] = x
  /\ \A x, y : RemoveAt(<<x, y>>, 1) = <<y>> /\ <<x, y>>[1] = x
<1>1. ASSUME NEW x
      PROVE  RemoveAt(<<x>>, 1) = <<>> /\ <<x>>[1] = x
  <2>1. <<x>> \in Seq({x}) /\ <<x>> # <<>>
    OBVIOUS
  <2>2. RemoveAt(<<x>>, 1) = SubSeq(<<x>>, 2, Len(<<x>>))
    BY <2>1, FirstRemoved
  <2>3. QED
    BY <2>2, ShortChannels
<1>2. ASSUME NEW x, NEW y
      PROVE  RemoveAt(<<x, y>>, 1) = <<y>> /\ <<x, y>>[1] = x
  <2>1. <<x, y>> \in Seq({x, y}) /\ <<x, y>> # <<>>
    OBVIOUS
  <2>2. RemoveAt(<<x, y>>, 1) = SubSeq(<<x, y>>, 2, Len(<<x, y>>))
    BY <2>1, FirstRemoved
  <2>3. QED
    BY <2>2, ShortChannels
<1>3. QED
  BY <1>1, <1>2

-----------------------------------------------------------------------------
(***************************************************************************)
(* DnsDemo, undisturbed.                                                   *)
(***************************************************************************)
DnsRun ==
  /\ scenario \in DnsScenarios /\ mem = [lines |-> mem.lines]
  /\ \/ Stage("query", "start", <<>>, <<>>)
     \/ Stage("query", "response", <<DnsQuery("client")>>, <<>>)
     \/ Stage("exit", "response", <<>>, DnsAnswers)
     \/ BothGone /\ mem.lines = <<DnsLine>>

LEMMA DnsFortunate == protocol = "dns" => (Fortunate <=> scenario \in DnsScenarios)
BY DEF Fortunate, LetIn, TcpFamily, ExpectedOk

LEMMA DnsSummarized == scenario \in DnsScenarios => DnsSummary(DnsAnswers[1]) = DnsLine
BY DEF DnsSummary, DnsAnswers, DnsAnswer, DnsLine, DnsScenarios

LEMMA DnsServerRuns ==
  ASSUME faults = {}, protocol = "dns", SettingsStay, ReportedOnce, Pair(net), DnsRun, DnsServer
  PROVE  GoesWell("server") /\ DnsRun' /\ Pair(net')
<1>1. /\ scenario \in DnsScenarios /\ mem = [lines |-> mem.lines] /\ scenario' = scenario
      /\ Fortunate
  BY DnsFortunate DEF DnsRun, SettingsStay
<1>2. at.server = "query" /\ mem' = mem /\ DnsAnswers' = DnsAnswers
  BY <1>1 DEF DnsServer, DnsServerQuery, DnsServerFails, DnsAnswers, DnsAnswer
<1>3. ~DnsServerFails /\ Stage("query", "response", <<DnsQuery("client")>>, <<>>)
  <2>1. TimesOut("server") => net.server = <<>> /\ (at.client = "exit" \/ at.client # "start")
    BY CalmReceives
  <2>2. \A i \in Arriving("server") : 1 \in DOMAIN net["server"]
    BY CalmReceives
  <2>3. <<DnsQuery("client")>> # <<>>
    OBVIOUS
  <2>4. QED
    BY <1>2, <2>1, <2>2, <2>3, ShortRemoved DEF DnsRun, Stage, BothGone, DnsServer, DnsServerQuery, DnsServerFails
<1>4. Exchange("server", 1, DnsAnswers) /\ Finish("server", OK)
  <2>1. PICK i \in Arriving("server") :
          Exchange("server", i, IF net.server[i].from = "client" THEN DnsAnswers ELSE <<>>)
    BY <1>3 DEF DnsServer, DnsServerQuery
  <2>2. i = 1
    BY CalmReceives
  <2>3. net.server[1].from = "client"
    BY <1>3 DEF Stage, DnsQuery
  <2>4. QED
    BY <1>3, <2>1, <2>2, <2>3 DEF DnsServer, DnsServerQuery
<1>5. net' = [server |-> <<>>, client |-> DnsAnswers]
  <2>1. net' = [server |-> RemoveAt(net.server, 1), client |-> net.client \o DnsAnswers]
    BY <1>4, ExchangeIs
  <2>2. <<>> \o DnsAnswers = DnsAnswers
    BY DEF DnsAnswers
  <2>3. QED
    BY <1>3, <2>1, <2>2, ShortRemoved DEF Stage
<1>6. at'.server = "exit" /\ at'.client = at.client
  BY <1>4, Moves DEF ReportedOnce
<1>7. DnsRun'
  BY <1>1, <1>2, <1>3, <1>5, <1>6 DEF DnsRun, Stage
<1>8. QED
  BY <1>1, <1>4, <1>5, <1>7 DEF GoesWell, Pair

LEMMA DnsClientRuns ==
  ASSUME faults = {}, protocol = "dns", SettingsStay, ReportedOnce, Pair(net), DnsRun, DnsClient
  PROVE  GoesWell("client") /\ DnsRun' /\ Pair(net')
<1>1. /\ scenario \in DnsScenarios /\ mem = [lines |-> mem.lines] /\ scenario' = scenario
      /\ Fortunate /\ Pair(at) /\ Pair(results)
  BY DnsFortunate DEF DnsRun, SettingsStay, ReportedOnce
<1>2. DnsAnswers' = DnsAnswers /\ DnsAnswers # <<>>
  BY <1>1 DEF DnsAnswers, DnsAnswer
<1>3. ~DnsClientFails
  <2>1. TimesOut("client") => net.client = <<>> /\ (at.server = "exit" \/ net.server = <<>>)
    BY CalmReceives
  <2>2. <<DnsQuery("client")>> # <<>>
    OBVIOUS
  <2>4. QED
    BY <1>2, <2>1, <2>2 DEF DnsRun, Stage, BothGone, DnsClientFails
<1>4. CASE DnsClientStart
  <2>1. Stage("query", "start", <<>>, <<>>) /\ mem' = mem
    BY <1>4 DEF DnsClientStart, DnsRun, Stage, BothGone
  <2>2. net' = [server |-> net.server \o <<DnsQuery("client")>>, client |-> net.client]
    BY <1>4, SendIs DEF DnsClientStart
  <2>3. net' = [server |-> <<DnsQuery("client")>>, client |-> <<>>]
    BY <2>1, <2>2, ShortChannels DEF Stage
  <2>4. at'.server = at.server /\ at'.client = "response"
    BY <1>1, <1>4, Moves DEF DnsClientStart
  <2>5. DnsRun'
    BY <1>1, <2>1, <2>3, <2>4 DEF DnsRun, Stage
  <2>6. QED
    BY <1>4, <2>3, <2>5 DEF GoesWell, Pair, DnsClientStart
<1>5. CASE DnsClientResponse
  <2>1. PICK i \in Arriving("client") :
          mem' = [mem EXCEPT !.lines = <<DnsSummary(net.client[i])>>]
          /\ Exchange("client", i, <<>>)
    BY <1>5 DEF DnsClientResponse
  <2>2. i = 1 /\ 1 \in DOMAIN net.client
    BY CalmReceives
  <2>3. Stage("exit", "response", <<>>, DnsAnswers)
    BY <1>5, <2>2, ShortRemoved DEF DnsClientResponse, DnsRun, Stage, BothGone
  <2>4. mem' = [lines |-> <<DnsLine>>] /\ DnsLine' = DnsLine
    BY <1>1, <2>1, <2>2, <2>3, DnsSummarized DEF Stage, DnsLine
  <2>5. at'.server = at.server /\ at'.client = "exit" /\ Finish("client", OK)
    BY <1>1, <1>5, Moves DEF DnsClientResponse
  <2>6. Pair(net')
    BY <2>1, ExchangeIs DEF Pair
  <2>7. DnsRun'
    BY <1>1, <1>2, <2>3, <2>4, <2>5 DEF DnsRun, BothGone, Stage
  <2>8. QED
    BY <1>1, <2>5, <2>6, <2>7 DEF GoesWell
<1>6. QED
  BY <1>3, <1>4, <1>5 DEF DnsClient

-----------------------------------------------------------------------------
(***************************************************************************)
(* MqttDemo, undisturbed.                                                  *)
(***************************************************************************)
MqttGreeting ==
  \/ Stage("CONNECT", "start", <<>>, <<>>)
  \/ Stage("CONNECT", "CONNACK", <<"CONNECT">>, <<>>)
  \/ Stage("SUBSCRIBE", "CONNACK", <<>>, <<"CONNACK">>)
  \/ Stage("SUBSCRIBE", "SUBACK", <<"SUBSCRIBE">>, <<>>)
MqttSubscribed == scenario # "unauth-subscribe" /\ Stage("PUBLISH", "SUBACK", <<>>, <<"SUBACK">>)
MqttRefused ==
  scenario = "unauth-subscribe" /\ Stage("exit", "SUBACK", <<>>, <<"SUBACK 0x80">>)
MqttReplayed == scenario = "qos2-replay" /\ MqttReplay
MqttPublished ==
  /\ scenario \in {"normal", "cleartext-eavesdrop"}
  /\ \/ Stage("PUBLISH", "exit", <<"PUBLISH", "DISCONNECT">>, <<>>)
     \/ Stage("DISCONNECT", "exit", <<"DISCONNECT">>, <<>>)
MqttRun ==
  /\ scenario \in MqttScenarios
  /\ \/ MqttGreeting \/ MqttSubscribed \/ MqttRefused \/ MqttReplayed \/ MqttPublished \/ BothGone

LEMMA MqttFortunate ==
  protocol = "mqtt" => (Fortunate <=> scenario \in {"normal", "cleartext-eavesdrop"})
BY DEF Fortunate, LetIn, TcpFamily, ExpectedOk

LEMMA MqttServerRuns ==
  ASSUME faults = {}, protocol = "mqtt", SettingsStay, ReportedOnce, Pair(net), MqttRun, MqttServer
  PROVE  GoesWell("server") /\ MqttRun' /\ Pair(net')
<1>1. /\ scenario \in MqttScenarios /\ scenario' = scenario /\ Pair(at) /\ Pair(results)
      /\ (Fortunate <=> scenario \in {"normal", "cleartext-eavesdrop"})
      /\ "merge" \notin faults
  BY MqttFortunate DEF MqttRun, SettingsStay, ReportedOnce
<1>2. \A packet, msgs : MqttTakes("server", packet, msgs) =>
        /\ net.server # <<>> /\ Head(net.server) = packet
        /\ net' = [server |-> SubSeq(net.server, 2, Len(net.server)),
                   client |-> net.client \o msgs]
  BY <1>1, MqttTakesIs
<1>3. ReceiveFails("server") <=> at.client = "exit" /\ net.server = <<>>
  BY CalmReceives
<1>4. /\ \A place : Goto("server", place) => at'.server = place /\ at'.client = at.client
      /\ \A printed : Finish("server", printed) => at'.server = "exit" /\ at'.client = at.client
  BY <1>1, Moves
<1>5. \A place : place # "exit" /\ Goto("server", place) => GoesWell("server")
  BY DEF GoesWell
<1>6. \/ MqttGreeting \/ MqttSubscribed \/ MqttRefused \/ MqttReplayed \/ MqttPublished \/ BothGone
  BY DEF MqttRun
<1>7. CASE MqttServerConnect
  <2>1. /\ at.server = "CONNECT" /\ net.server # <<>> /\ Goto("server", "SUBSCRIBE")
        /\ net' = [server |-> SubSeq(net.server, 2, Len(net.server)),
                   client |-> net.client \o <<"CONNACK">>]
    BY <1>2, <1>7 DEF MqttServerConnect
  <2>2. Stage("CONNECT", "CONNACK", <<"CONNECT">>, <<>>)
    BY <1>6, <2>1 DEF MqttGreeting, MqttSubscribed, MqttRefused, MqttReplayed, MqttReplay,
       MqttPublished, BothGone, Stage
  <2>3. net' = [server |-> <<>>, client |-> <<"CONNACK">>]
    BY <2>1, <2>2, ShortChannels DEF Stage
  <2>4. QED
    BY <1>1, <1>4, <1>5, <2>1, <2>2, <2>3 DEF MqttRun, MqttGreeting, Stage, Pair
<1>8. CASE MqttServerSubscribe
  <2>1. /\ at.server = "SUBSCRIBE" /\ net.server # <<>>
        /\ \/ /\ scenario # "unauth-subscribe" /\ Goto("server", "PUBLISH")
              /\ net' = [server |-> SubSeq(net.server, 2, Len(net.server)),
                         client |-> net.client \o <<"SUBACK">>]
           \/ /\ scenario = "unauth-subscribe" /\ Finish("server", ABORT)
              /\ net' = [server |-> SubSeq(net.server, 2, Len(net.server)),
                         client |-> net.client \o <<"SUBACK 0x80">>]
    BY Zenon, <1>2, <1>8 DEF MqttServerSubscribe, MqttAllowed, MqttTopic
  <2>2. Stage("SUBSCRIBE", "SUBACK", <<"SUBSCRIBE">>, <<>>)
    BY Zenon, <1>6, <2>1 DEF MqttGreeting, MqttSubscribed, MqttRefused, MqttReplayed, MqttReplay,
       MqttPublished, BothGone, Stage
  <2>3. /\ SubSeq(net.server, 2, Len(net.server)) = <<>>
        /\ net.client \o <<"SUBACK">> = <<"SUBACK">>
        /\ net.client \o <<"SUBACK 0x80">> = <<"SUBACK 0x80">>
    BY <2>2, ShortChannels DEF Stage
  <2>4. CASE scenario # "unauth-subscribe"
    <3>1. net' = [server |-> <<>>, client |-> <<"SUBACK">>] /\ Goto("server", "PUBLISH")
      BY Zenon, <2>1, <2>3, <2>4
    <3>2. QED
      BY <1>1, <1>4, <1>5, <2>2, <2>4, <3>1 DEF MqttRun, MqttSubscribed, Stage, Pair
  <2>5. CASE scenario = "unauth-subscribe"
    <3>1. net' = [server |-> <<>>, client |-> <<"SUBACK 0x80">>] /\ Finish("server", ABORT)
      BY Zenon, <2>1, <2>3, <2>5
    <3>2. QED
      BY Zenon, <1>1, <1>4, <2>2, <2>5, <3>1 DEF MqttRun, MqttRefused, Stage, Pair, GoesWell
  <2>6. QED
    BY <2>4, <2>5
<1>9. CASE MqttServerPublish
  <2>1. /\ at.server = "PUBLISH" /\ net.server # <<>>
        /\ \/ /\ scenario = "qos2-replay" /\ Goto("server", "pause")
              /\ net' = [server |-> SubSeq(net.server, 2, Len(net.server)),
                         client |-> net.client \o <<"PUBREC">>]
           \/ /\ scenario # "qos2-replay" /\ Goto("server", "DISCONNECT")
              /\ net' = [server |-> SubSeq(net.server, 2, Len(net.server)),
                         client |-> net.client \o <<>>]
    BY <1>2, <1>9 DEF MqttServerPublish
  <2>2. CASE scenario = "qos2-replay"
    <3>1. Stage("PUBLISH", "PUBREC", <<"PUBLISH">>, <<>>)
      BY <1>6, <2>1, <2>2 DEF MqttGreeting, MqttSubscribed, MqttRefused, MqttReplayed, MqttReplay,
         MqttPublished, BothGone, Stage
    <3>2. net' = [server |-> <<>>, client |-> <<"PUBREC">>] /\ Goto("server", "pause")
      BY <2>1, <2>2, <3>1, ShortChannels DEF Stage
    <3>3. QED
      BY Zenon, <1>1, <1>4, <1>5, <2>2, <3>1, <3>2 DEF MqttRun, MqttReplayed, MqttReplay, Stage, Pair
  <2>3. CASE scenario # "qos2-replay"
    <3>1. /\ scenario \in {"normal", "cleartext-eavesdrop"}
          /\ Stage("PUBLISH", "exit", <<"PUBLISH", "DISCONNECT">>, <<>>)
      BY <1>6, <2>1, <2>3 DEF MqttGreeting, MqttSubscribed, MqttRefused, MqttReplayed, MqttReplay,
         MqttPublished, BothGone, Stage
    <3>2. net' = [server |-> <<"DISCONNECT">>, client |-> <<>>] /\ Goto("server", "DISCONNECT")
      BY <2>1, <2>3, <3>1, ShortChannels DEF Stage
    <3>3. QED
      BY <1>1, <1>4, <1>5, <3>1, <3>2 DEF MqttRun, MqttPublished, Stage, Pair
  <2>4. QED
    BY <2>2, <2>3
<1>10. CASE MqttServerRepeats \/ MqttServerBreaks
  <2>1. at.server = "pause"
    BY <1>10 DEF MqttServerRepeats, MqttServerBreaks
  <2>2. /\ scenario = "qos2-replay"
        /\ \/ Stage("pause", "PUBREC", <<>>, <<"PUBREC">>)
           \/ Stage("pause", "PUBREC again", <<>>, <<>>)
    BY Zenon, <1>6, <2>1 DEF MqttGreeting, MqttSubscribed, MqttRefused, MqttReplayed, MqttReplay,
       MqttPublished, BothGone, Stage
  <2>3. Send("server", <<"PUBREC">>) /\ Finish("server", ABORT)
    BY Zenon, <1>10, <2>2 DEF MqttServerRepeats, MqttServerBreaks, Ended, Stage
  <2>4. net' = [server |-> net.server, client |-> net.client \o <<"PUBREC">>]
    BY <2>3, SendIs
  <2>5. CASE Stage("pause", "PUBREC", <<>>, <<"PUBREC">>)
    <3>1. net' = [server |-> <<>>, client |-> <<"PUBREC", "PUBREC">>]
      BY <2>4, <2>5, ShortChannels DEF Stage
    <3>2. QED
      BY Zenon, <1>1, <1>4, <2>2, <2>3, <2>5, <3>1 DEF MqttRun, MqttReplayed, MqttReplay, Stage, Pair,
         GoesWell
  <2>6. CASE Stage("pause", "PUBREC again", <<>>, <<>>)
    <3>1. net' = [server |-> <<>>, client |-> <<"PUBREC">>]
      BY Zenon, <2>4, <2>6, ShortChannels DEF Stage
    <3>2. QED
      BY Zenon, <1>1, <1>4, <2>2, <2>3, <2>6, <3>1 DEF MqttRun, MqttReplayed, MqttReplay, Stage, Pair,
         GoesWell
  <2>7. QED
    BY Zenon, <2>2, <2>5, <2>6
<1>11. CASE MqttServerDisconnect
  <2>1. at.server = "DISCONNECT" /\ Finish("server", OK)
    BY <1>11 DEF MqttServerDisconnect
  <2>2. /\ scenario \in {"normal", "cleartext-eavesdrop"}
        /\ Stage("DISCONNECT", "exit", <<"DISCONNECT">>, <<>>)
    BY <1>6, <2>1 DEF MqttGreeting, MqttSubscribed, MqttRefused, MqttReplayed, MqttReplay,
       MqttPublished, BothGone, Stage
  <2>3. Pair(net')
    BY <1>2, <1>11 DEF MqttServerDisconnect, Pair
  <2>4. QED
    BY <1>1, <1>4, <2>1, <2>2, <2>3 DEF MqttRun, BothGone, Stage, GoesWell
<1>12. ~MqttServerFails
  <2>1. <<"PUBLISH", "DISCONNECT">> # <<>>
    OBVIOUS
  <2>2. QED
    BY Zenon, <1>3, <1>6, <2>1 DEF MqttServerFails, MqttGreeting, MqttSubscribed, MqttRefused, MqttReplayed,
       MqttReplay, MqttPublished, BothGone, Stage
<1>13. QED
  BY <1>7, <1>8, <1>9, <1>10, <1>11, <1>12 DEF MqttServer

LEMMA MqttClientRuns ==
  ASSUME faults = {}, protocol = "mqtt", SettingsStay, ReportedOnce, Pair(net), MqttRun, MqttClient
  PROVE  GoesWell("client") /\ MqttRun' /\ Pair(net')
<1>1. /\ scenario \in MqttScenarios /\ scenario' = scenario /\ Pair(at) /\ Pair(results)
      /\ (Fortunate <=> scenario \in {"normal", "cleartext-eavesdrop"})
      /\ "merge" \notin faults
  BY MqttFortunate DEF MqttRun, SettingsStay, ReportedOnce
<1>2. \A packet, msgs : MqttTakes("client", packet, msgs) =>
        /\ net.client # <<>> /\ Head(net.client) = packet
        /\ net' = [server |-> net.server \o msgs,
                   client |-> SubSeq(net.client, 2, Len(net.client))]
  BY <1>1, MqttTakesIs
<1>3. ReceiveFails("client") <=> at.server = "exit" /\ net.client = <<>>
  BY CalmReceives
<1>4. /\ \A place : Goto("client", place) => at'.client = place /\ at'.server = at.server
      /\ \A printed : Finish("client", printed) => at'.client = "exit" /\ at'.server = at.server
  BY <1>1, Moves
<1>5. \A place : place # "exit" /\ Goto("client", place) => GoesWell("client")
  BY DEF GoesWell
<1>6. \/ MqttGreeting \/ MqttSubscribed \/ MqttRefused \/ MqttReplayed \/ MqttPublished \/ BothGone
  BY DEF MqttRun
<1>7. CASE MqttClientStart
  <2>1. Stage("CONNECT", "start", <<>>, <<>>)
    BY <1>6, <1>7 DEF MqttClientStart, MqttGreeting, MqttSubscribed, MqttRefused, MqttReplayed,
       MqttReplay, MqttPublished, BothGone, Stage
  <2>2. Send("client", <<"CONNECT">>) /\ Goto("client", "CONNACK")
    BY <1>7, <2>1 DEF MqttClientStart, Ended, Stage
  <2>3. net' = [server |-> net.server \o <<"CONNECT">>, client |-> net.client]
    BY <2>2, SendIs
  <2>4. net' = [server |-> <<"CONNECT">>, client |-> <<>>]
    BY <2>1, <2>3, ShortChannels DEF Stage
  <2>5. QED
    BY <1>1, <1>4, <1>5, <2>1, <2>2, <2>4 DEF MqttRun, MqttGreeting, Stage, Pair
<1>8. CASE MqttClientConnack
  <2>1. /\ at.client = "CONNACK" /\ net.client # <<>> /\ Goto("client", "SUBACK")
        /\ net' = [server |-> net.server \o <<"SUBSCRIBE">>,
                   client |-> SubSeq(net.client, 2, Len(net.client))]
    BY <1>2, <1>8 DEF MqttClientConnack
  <2>2. Stage("SUBSCRIBE", "CONNACK", <<>>, <<"CONNACK">>)
    BY <1>6, <2>1 DEF MqttGreeting, MqttSubscribed, MqttRefused, MqttReplayed, MqttReplay,
       MqttPublished, BothGone, Stage
  <2>3. net' = [server |-> <<"SUBSCRIBE">>, client |-> <<>>]
    BY <2>1, <2>2, ShortChannels DEF Stage
  <2>4. QED
    BY <1>1, <1>4, <1>5, <2>1, <2>2, <2>3 DEF MqttRun, MqttGreeting, Stage, Pair
<1>9. CASE MqttClientSuback
  <2>1. /\ at.client = "SUBACK"
        /\ \E packet, msgs : MqttTakes("client", packet, msgs)
    BY Zenon, <1>9 DEF MqttClientSuback
  <2>5. net.client # <<>> /\ Pair(net')
    BY <1>2, <2>1 DEF Pair
  <2>2. CASE MqttRefused
    <3>1. scenario = "unauth-subscribe" /\ Stage("exit", "SUBACK", <<>>, <<"SUBACK 0x80">>)
      BY Zenon, <2>2 DEF MqttRefused
    <3>2. ASSUME NEW msgs, MqttTakes("client", "SUBACK", msgs)
          PROVE  FALSE
      <4>1. Head(net.client) = "SUBACK 0x80"
        BY Zenon, <3>1, ShortChannels DEF Stage
      <4>2. Head(net.client) = "SUBACK"
        BY <1>2, <3>2
      <4>3. QED
        BY Zenon, <4>1, <4>2
    <3>3. Finish("client", ABORT)
      BY Zenon, <1>9, <3>2 DEF MqttClientSuback
    <3>4. QED
      BY Zenon, <1>1, <1>4, <2>5, <3>1, <3>3 DEF MqttRun, BothGone, Stage, GoesWell
  <2>3. CASE MqttSubscribed
    <3>1. scenario # "unauth-subscribe" /\ Stage("PUBLISH", "SUBACK", <<>>, <<"SUBACK">>)
      BY <2>3 DEF MqttSubscribed
    <3>2. ASSUME NEW msgs, MqttTakes("client", "SUBACK 0x80", msgs)
          PROVE  FALSE
      <4>1. Head(net.client) = "SUBACK"
        BY <3>1, ShortChannels DEF Stage
      <4>2. Head(net.client) = "SUBACK 0x80"
        BY Zenon, <1>2, <3>2
      <4>3. QED
        BY Zenon, <4>1, <4>2
    <3>3. ~Ended("server")
      BY <3>1 DEF Stage, Ended
    <3>4. CASE scenario = "qos2-replay"
      <4>1. MqttTakes("client", "SUBACK", <<"PUBLISH">>) /\ Goto("client", "PUBREC")
        BY Zenon, <1>9, <3>2, <3>4 DEF MqttClientSuback
      <4>2. net' = [server |-> net.server \o <<"PUBLISH">>,
                    client |-> SubSeq(net.client, 2, Len(net.client))]
        BY <1>2, <4>1
      <4>3. net' = [server |-> <<"PUBLISH">>, client |-> <<>>]
        BY <3>1, <4>2, ShortChannels DEF Stage
      <4>4. QED
        BY <1>1, <1>4, <1>5, <3>1, <3>4, <4>1, <4>3 DEF MqttRun, MqttReplayed, MqttReplay, Stage,
           Pair
    <3>5. CASE scenario # "qos2-replay"
      <4>1. MqttTakes("client", "SUBACK", <<"PUBLISH", "DISCONNECT">>) /\ Finish("client", OK)
        BY Zenon, <1>9, <3>2, <3>3, <3>5 DEF MqttClientSuback
      <4>2. net' = [server |-> net.server \o <<"PUBLISH", "DISCONNECT">>,
                    client |-> SubSeq(net.client, 2, Len(net.client))]
        BY <1>2, <4>1
      <4>3. net' = [server |-> <<"PUBLISH", "DISCONNECT">>, client |-> <<>>]
        BY <3>1, <4>2, ShortChannels DEF Stage
      <4>4. scenario \in {"normal", "cleartext-eavesdrop"}
        BY <1>1, <3>1, <3>5 DEF MqttScenarios
      <4>5. QED
        BY <1>1, <1>4, <3>1, <4>1, <4>3, <4>4 DEF MqttRun, MqttPublished, Stage, Pair, GoesWell
    <3>6. QED
      BY <3>4, <3>5
  <2>4. QED
    BY <1>6, <2>1, <2>2, <2>3, <2>5 DEF MqttGreeting, MqttReplayed, MqttReplay, MqttPublished,
       BothGone, Stage
<1>10. CASE MqttClientPubrec
  <2>1. /\ at.client = "PUBREC" /\ net.client # <<>> /\ Goto("client", "PUBREC again")
        /\ net' = [server |-> net.server \o <<>>,
                   client |-> SubSeq(net.client, 2, Len(net.client))]
    BY Zenon, <1>2, <1>10 DEF MqttClientPubrec
  <2>2. /\ scenario = "qos2-replay"
        /\ \/ Stage("pause", "PUBREC", <<>>, <<"PUBREC">>)
           \/ Stage("exit", "PUBREC", <<>>, <<"PUBREC", "PUBREC">>)
    BY Zenon, <1>6, <2>1 DEF MqttGreeting, MqttSubscribed, MqttRefused, MqttReplayed, MqttReplay,
       MqttPublished, BothGone, Stage
  <2>3. CASE Stage("pause", "PUBREC", <<>>, <<"PUBREC">>)
    <3>1. net' = [server |-> <<>>, client |-> <<>>]
      BY Zenon, <2>1, <2>3, ShortChannels DEF Stage
    <3>2. MqttReplay'
      <4>1. at'.server = "pause" /\ at'.client = "PUBREC again"
        BY Zenon, <1>4, <2>1, <2>3 DEF Stage
      <4>2. net'.server = <<>> /\ net'.client = <<>>
        BY <3>1
      <4>3. QED
        BY Zenon, <4>1, <4>2 DEF MqttReplay, Stage
    <3>3. QED
      BY Zenon, <1>1, <1>5, <2>1, <2>2, <3>1, <3>2 DEF MqttRun, MqttReplayed, Pair
  <2>4. CASE Stage("exit", "PUBREC", <<>>, <<"PUBREC", "PUBREC">>)
    <3>1. /\ SubSeq(<<"PUBREC", "PUBREC">>, 2, Len(<<"PUBREC", "PUBREC">>)) = <<"PUBREC">>
          /\ <<>> \o <<>> = <<>>
          /\ net.server = <<>> /\ net.client = <<"PUBREC", "PUBREC">> /\ at.server = "exit"
      BY <2>4, ShortChannels DEF Stage
    <3>2. net' = [server |-> <<>>, client |-> <<"PUBREC">>]
      BY ZenonT(60), <2>1, <3>1
    <3>3. MqttReplay'
      <4>1. at'.server = "exit" /\ at'.client = "PUBREC again"
        BY Zenon, <1>4, <2>1, <3>1
      <4>2. net'.server = <<>> /\ net'.client = <<"PUBREC">>
        BY <3>2
      <4>3. QED
        BY Zenon, <4>1, <4>2 DEF MqttReplay, Stage
    <3>4. QED
      BY Zenon, <1>1, <1>5, <2>1, <2>2, <3>2, <3>3 DEF MqttRun, MqttReplayed, Pair
  <2>5. QED
    BY <2>2, <2>3, <2>4
<1>11. CASE MqttClientPubrecAgain
  <2>1. at.client = "PUBREC again" /\ net.client # <<>>
    BY Zenon, <1>11 DEF MqttClientPubrecAgain
  <2>2. scenario = "qos2-replay" /\ Stage("exit", "PUBREC again", <<>>, <<"PUBREC">>)
    BY Zenon, <1>6, <2>1 DEF MqttGreeting, MqttSubscribed, MqttRefused, MqttReplayed, MqttReplay,
       MqttPublished, BothGone, Stage
  <2>3. MqttReplaySeen(Head(net.client))
    BY Zenon, <2>2, ShortChannels DEF Stage, MqttReplaySeen
  <2>4. Exchange("client", 1, <<>>) /\ Finish("client", ABORT)
    BY Zenon, <1>11, <2>3 DEF MqttClientPubrecAgain
  <2>5. Pair(net')
    BY <2>4, ExchangeIs DEF Pair
  <2>6. QED
    BY Zenon, <1>1, <1>4, <2>2, <2>4, <2>5 DEF MqttRun, BothGone, Stage, GoesWell
<1>12. ~MqttClientNoReplay /\ ~MqttClientFails
  <2>1. <<"PUBREC", "PUBREC">> # <<>>
    OBVIOUS
  <2>2. QED
    BY Zenon, <1>3, <1>6, <2>1, ShortChannels DEF MqttClientNoReplay, MqttClientFails, MqttGreeting,
       MqttSubscribed, MqttRefused, MqttReplayed, MqttReplay, MqttPublished, BothGone, Stage
<1>13. QED
  BY <1>7, <1>8, <1>9, <1>10, <1>11, <1>12 DEF MqttClient

-----------------------------------------------------------------------------
(***************************************************************************)
(* RadiusDemo, undisturbed.                                                *)
(***************************************************************************)
RadiusOpening ==
  /\ mem.accepted = "nobody" /\ mem.last = "none"
  /\ \/ Stage("request", "start", <<>>, <<>>)
     \/ Stage("request", "response", <<RadiusClientRequest>>, <<>>)
RadiusRefused ==
  /\ scenario = "shared-secret-leak" /\ mem.accepted = "nobody"
  /\ \/ Stage("request", "response", <<>>, <<AccessResponse(FALSE, mem.nonce)>>)
     \/ Stage("request", "exit", <<>>, <<>>)
RadiusAccepted ==
  /\ scenario # "shared-secret-leak" /\ mem.accepted = "client"
  /\ \/ Stage("accounting", "response", <<>>, <<AccessResponse(TRUE, mem.nonce)>>)
     \/ scenario # "replay-attack"
        /\ Stage("accounting", "accounted", <<AccountingRequest("client")>>, <<>>)
     \/ scenario = "replay-attack"
        /\ Stage("accounting", "replayed", <<RadiusClientRequest>>, <<>>)
RadiusClosing ==
  \/ scenario = "replay-attack" /\ Stage("exit", "replayed", <<>>, <<ReplayReject>>)
  \/ scenario \in {"normal", "chap-vs-pap"}
     /\ Stage("exit", "accounted", <<>>, <<AccountingResponse>>)
  \/ BothGone
RadiusRun ==
  /\ scenario \in RadiusScenarios
  /\ mem = [nonce |-> mem.nonce, last |-> mem.last, accepted |-> mem.accepted]
  /\ RadiusOpening \/ RadiusRefused \/ RadiusAccepted \/ RadiusClosing

LEMMA RadiusFortunate ==
  protocol = "radius" => (Fortunate <=> scenario \in {"normal", "chap-vs-pap"})
BY DEF Fortunate, LetIn, TcpFamily, ExpectedOk

\* One message is exchanged for one.
LEMMA OneForOne ==
  ASSUME Pair(net), NEW m, NEW x
  PROVE  /\ net.server = <<m>> /\ net.client = <<>> =>
              /\ Exchange("server", 1, <<x>>) => net' = [server |-> <<>>, client |-> <<x>>]
              /\ Exchange("server", 1, <<>>) => net' = [server |-> <<>>, client |-> <<>>]
         /\ net.client = <<m>> /\ net.server = <<>> =>
              /\ Exchange("client", 1, <<x>>) => net' = [server |-> <<x>>, client |-> <<>>]
              /\ Exchange("client", 1, <<>>) => net' = [server |-> <<>>, client |-> <<>>]
         /\ net.server = <<>> /\ net.client = <<>> =>
              /\ Send("client", <<x>>) => net' = [server |-> <<x>>, client |-> <<>>]
              /\ Send("server", <<x>>) => net' = [server |-> <<>>, client |-> <<x>>]
<1>1. /\ RemoveAt(<<m>>, 1) = <<>> /\ <<>> \o <<x>> = <<x>> /\ <<>> \o <<>> = <<>>
  BY ShortRemoved, ShortChannels
<1>2. \A i, msgs :
        /\ Exchange("server", i, msgs) =>
             net' = [server |-> RemoveAt(net.server, i), client |-> net.client \o msgs]
        /\ Exchange("client", i, msgs) =>
             net' = [server |-> net.server \o msgs, client |-> RemoveAt(net.client, i)]
        /\ Send("server", msgs) => net' = [server |-> net.server, client |-> net.client \o msgs]
        /\ Send("client", msgs) => net' = [server |-> net.server \o msgs, client |-> net.client]
  BY ExchangeIs, SendIs
<1>3. ASSUME net.server = <<m>>, net.client = <<>>
      PROVE  /\ Exchange("server", 1, <<x>>) => net' = [server |-> <<>>, client |-> <<x>>]
             /\ Exchange("server", 1, <<>>) => net' = [server |-> <<>>, client |-> <<>>]
  BY ZenonT(30), <1>1, <1>2, <1>3
<1>4. ASSUME net.client = <<m>>, net.server = <<>>
      PROVE  /\ Exchange("client", 1, <<x>>) => net' = [server |-> <<x>>, client |-> <<>>]
             /\ Exchange("client", 1, <<>>) => net' = [server |-> <<>>, client |-> <<>>]
  BY ZenonT(30), <1>1, <1>2, <1>4
<1>5. ASSUME net.client = <<>>, net.server = <<>>
      PROVE  /\ Send("client", <<x>>) => net' = [server |-> <<x>>, client |-> <<>>]
             /\ Send("server", <<x>>) => net' = [server |-> <<>>, client |-> <<x>>]
  BY ZenonT(30), <1>1, <1>2, <1>5
<1>6. QED
  BY <1>3, <1>4, <1>5

LEMMA RadiusMessages ==
  /\ RadiusClientRequest.type = "request" /\ RadiusClientRequest.from = "client"
  /\ RadiusClientRequest.auth = mem.nonce /\ RadiusClientRequest.proves = TRUE
  /\ AccountingRequest("client").type = "accounting" /\ AccountingRequest("client").from = "client"
  /\ \A x : RadiusReply(RadiusClientRequest, x) = <<x>>
  /\ \A x : RadiusReply(AccountingRequest("client"), x) = <<x>>
  /\ AccessResponse(FALSE, mem.nonce).type = "reject"
  /\ AccessResponse(TRUE, mem.nonce).type = "accept" /\ AccessResponse(TRUE, mem.nonce).of = mem.nonce
BY DEF RadiusClientRequest, AccessRequest, AccountingRequest, RadiusReply, AccessResponse

LEMMA RadiusServerRuns ==
  ASSUME faults = {}, protocol = "radius", SettingsStay, ReportedOnce, Pair(net), RadiusRun,
         RadiusServer
  PROVE  GoesWell("server") /\ RadiusRun' /\ Pair(net')
<1>1. /\ scenario \in RadiusScenarios /\ scenario' = scenario /\ Pair(at) /\ Pair(results)
      /\ (Fortunate <=> scenario \in {"normal", "chap-vs-pap"})
      /\ mem = [nonce |-> mem.nonce, last |-> mem.last, accepted |-> mem.accepted]
  BY RadiusFortunate DEF RadiusRun, SettingsStay, ReportedOnce
<1>2. /\ TimesOut("server") => net.server = <<>>
           /\ (at.client = "exit" \/ (net.client = <<>> /\ at.client # "start"))
      /\ \A i : i \in Arriving("server") => i = 1 /\ net.server # <<>>
  BY CalmReceives, ShortRemoved
<1>3. /\ \A place : Goto("server", place) => at'.server = place /\ at'.client = at.client
      /\ \A printed : Finish("server", printed) => at'.server = "exit" /\ at'.client = at.client
  BY <1>1, Moves
<1>4. RadiusOpening \/ RadiusRefused \/ RadiusAccepted \/ RadiusClosing
  BY DEF RadiusRun
<1>5. \A x : <<x>> # <<>> /\ <<x>>[1] = x
  BY ShortRemoved
<1>6. CASE RadiusServerRequest
  <2>1. at.server = "request" /\ net.server # <<>>
    BY <1>2, <1>6 DEF RadiusServerRequest
  <2>2. /\ Stage("request", "response", <<RadiusClientRequest>>, <<>>)
        /\ mem.accepted = "nobody" /\ mem.last = "none"
    BY <1>4, <2>1 DEF RadiusOpening, RadiusRefused, RadiusAccepted, RadiusClosing, BothGone, Stage
  <2>3. PICK m : /\ m = RadiusClientRequest
                 /\ \/ RadiusReplayed(m)
                    \/ /\ RadiusAccepts(m)
                       /\ Exchange("server", 1, RadiusReply(m, AccessResponse(TRUE, m.auth)))
                       /\ Goto("server", "accounting")
                       /\ mem' = [mem EXCEPT !.last = m.auth, !.accepted = m.from]
                    \/ /\ ~RadiusAccepts(m)
                       /\ Exchange("server", 1, RadiusReply(m, AccessResponse(FALSE, m.auth)))
                       /\ Goto("server", "request")
                       /\ mem' = [mem EXCEPT !.last = m.auth]
    <3>1. net.server[1] = RadiusClientRequest
      BY <1>5, <2>2 DEF Stage
    <3>2. PICK i \in Arriving("server") :
            \/ RadiusReplayed(net.server[i])
            \/ /\ RadiusAccepts(net.server[i])
               /\ Exchange("server", i,
                    RadiusReply(net.server[i], AccessResponse(TRUE, net.server[i].auth)))
               /\ Goto("server", "accounting")
               /\ mem' = [mem EXCEPT !.last = net.server[i].auth, !.accepted = net.server[i].from]
            \/ /\ ~RadiusAccepts(net.server[i])
               /\ Exchange("server", i,
                    RadiusReply(net.server[i], AccessResponse(FALSE, net.server[i].auth)))
               /\ Goto("server", "request")
               /\ mem' = [mem EXCEPT !.last = net.server[i].auth]
      BY Zenon, <1>6 DEF RadiusServerRequest
    <3>3. i = 1
      BY <1>2
    <3>4. QED
      BY Zenon, <3>1, <3>2, <3>3
  <2>4. /\ m.auth = mem.nonce /\ m.from = "client" /\ m.proves
        /\ \A x : RadiusReply(m, x) = <<x>>
    BY <2>3, RadiusMessages
  <2>5. ~RadiusReplayed(m) /\ (RadiusAccepts(m) <=> scenario # "shared-secret-leak")
    BY <2>2, <2>4 DEF RadiusReplayed, RadiusAccepts
  <2>6. CASE scenario # "shared-secret-leak"
    <3>1. /\ Exchange("server", 1, <<AccessResponse(TRUE, mem.nonce)>>)
          /\ Goto("server", "accounting")
          /\ mem' = [mem EXCEPT !.last = m.auth, !.accepted = m.from]
      BY <2>3, <2>4, <2>5, <2>6
    <3>2. mem' = [nonce |-> mem.nonce, last |-> mem.nonce, accepted |-> "client"]
      BY <1>1, <2>4, <3>1
    <3>3. net' = [server |-> <<>>, client |-> <<AccessResponse(TRUE, mem.nonce)>>]
      BY <2>2, <3>1, OneForOne DEF Stage
    <3>4. at'.server = "accounting" /\ at'.client = "response"
      BY <1>3, <2>2, <3>1 DEF Stage
    <3>5. RadiusAccepted'
      BY <1>1, <2>6, <3>2, <3>3, <3>4 DEF RadiusAccepted, Stage
    <3>6. QED
      BY <1>1, <3>1, <3>2, <3>3, <3>5 DEF RadiusRun, GoesWell, Pair
  <2>7. CASE scenario = "shared-secret-leak"
    <3>1. /\ Exchange("server", 1, <<AccessResponse(FALSE, mem.nonce)>>)
          /\ Goto("server", "request")
          /\ mem' = [mem EXCEPT !.last = m.auth]
      BY <2>3, <2>4, <2>5, <2>7
    <3>2. mem' = [nonce |-> mem.nonce, last |-> mem.nonce, accepted |-> "nobody"]
      BY <1>1, <2>2, <2>4, <3>1
    <3>3. net' = [server |-> <<>>, client |-> <<AccessResponse(FALSE, mem.nonce)>>]
      BY <2>2, <3>1, OneForOne DEF Stage
    <3>4. at'.server = "request" /\ at'.client = "response"
      BY <1>3, <2>2, <3>1 DEF Stage
    <3>5. RadiusRefused'
      BY <1>1, <2>7, <3>2, <3>3, <3>4 DEF RadiusRefused, Stage
    <3>6. QED
      BY <1>1, <3>1, <3>2, <3>3, <3>5 DEF RadiusRun, GoesWell, Pair
  <2>8. QED
    BY <2>6, <2>7
<1>7. ~RadiusServerIgnores
  <2>1. SUFFICES ASSUME RadiusServerIgnores
                 PROVE  FALSE
    OBVIOUS
  <2>2. at.server = "request" /\ net.server # <<>> /\ net.server[1].type # "request"
    BY <1>2, <2>1 DEF RadiusServerIgnores
  <2>3. Stage("request", "response", <<RadiusClientRequest>>, <<>>)
    BY <1>4, <2>2 DEF RadiusOpening, RadiusRefused, RadiusAccepted, RadiusClosing, BothGone, Stage
  <2>4. QED
    BY <1>5, <2>2, <2>3, RadiusMessages DEF Stage
<1>8. CASE RadiusServerAccounting
  <2>1. PICK m : /\ m = net.server[1] /\ net.server # <<>> /\ at.server = "accounting"
                 /\ \/ /\ m.type = "accounting" /\ mem' = mem
                       /\ Exchange("server", 1, RadiusReply(m, AccountingResponse))
                       /\ Finish("server", RadiusEnd(mem.accepted))
                    \/ /\ RadiusReplaysAccepted(m)
                       /\ Exchange("server", 1, RadiusReply(m, ReplayReject))
                       /\ mem' = [mem EXCEPT !.accepted = "nobody"]
                       /\ Finish("server", RadiusEnd(mem'.accepted))
                    \/ m.type = "request" /\ ~RadiusReplaysAccepted(m)
    BY <1>2, <1>8 DEF RadiusServerAccounting
  <2>2. /\ mem.accepted = "client"
        /\ \/ /\ scenario \in {"normal", "chap-vs-pap"} /\ m = AccountingRequest("client")
              /\ Stage("accounting", "accounted", <<AccountingRequest("client")>>, <<>>)
           \/ /\ scenario = "replay-attack" /\ m = RadiusClientRequest
              /\ Stage("accounting", "replayed", <<RadiusClientRequest>>, <<>>)
    BY <1>1, <1>4, <1>5, <2>1 DEF RadiusOpening, RadiusRefused, RadiusAccepted, RadiusClosing,
       BothGone, Stage, RadiusScenarios
  <2>3. CASE scenario = "replay-attack"
    <3>1. /\ m.type = "request" /\ RadiusReplaysAccepted(m) /\ RadiusReply(m, ReplayReject) = <<ReplayReject>>
          /\ Stage("accounting", "replayed", <<RadiusClientRequest>>, <<>>)
      BY <2>2, <2>3, RadiusMessages DEF RadiusReplaysAccepted
    <3>2. /\ Exchange("server", 1, <<ReplayReject>>)
          /\ mem' = [mem EXCEPT !.accepted = "nobody"]
          /\ Finish("server", RadiusEnd(mem'.accepted))
      BY <2>1, <3>1
    <3>3. mem' = [nonce |-> mem.nonce, last |-> mem.last, accepted |-> "nobody"]
      BY <1>1, <3>2
    <3>4. Finish("server", ABORT)
      BY <3>2, <3>3 DEF RadiusEnd
    <3>5. net' = [server |-> <<>>, client |-> <<ReplayReject>>]
      BY <3>1, <3>2, OneForOne DEF Stage
    <3>6. at'.server = "exit" /\ at'.client = "replayed"
      BY <1>3, <3>1, <3>4 DEF Stage
    <3>7. RadiusClosing'
      BY <1>1, <2>3, <3>5, <3>6 DEF RadiusClosing, Stage
    <3>8. QED
      BY <1>1, <2>3, <3>3, <3>4, <3>5, <3>7 DEF RadiusRun, GoesWell, Pair
  <2>4. CASE scenario \in {"normal", "chap-vs-pap"}
    <3>1. /\ m.type = "accounting" /\ RadiusReply(m, AccountingResponse) = <<AccountingResponse>>
          /\ Stage("accounting", "accounted", <<AccountingRequest("client")>>, <<>>)
      BY <2>2, <2>4, RadiusMessages
    <3>2. /\ Exchange("server", 1, <<AccountingResponse>>) /\ mem' = mem
          /\ Finish("server", RadiusEnd(mem.accepted))
      BY <2>1, <2>4, <3>1 DEF RadiusReplaysAccepted
    <3>4. Finish("server", OK)
      BY <2>2, <3>2 DEF RadiusEnd
    <3>5. net' = [server |-> <<>>, client |-> <<AccountingResponse>>]
      BY <3>1, <3>2, OneForOne DEF Stage
    <3>6. at'.server = "exit" /\ at'.client = "accounted"
      BY <1>3, <3>1, <3>4 DEF Stage
    <3>7. RadiusClosing'
      BY <1>1, <2>4, <3>5, <3>6 DEF RadiusClosing, Stage
    <3>8. QED
      BY <1>1, <2>4, <3>2, <3>4, <3>5, <3>7 DEF RadiusRun, GoesWell, Pair
  <2>5. QED
    BY <2>2, <2>3, <2>4
<1>9. CASE RadiusServerFails
  <2>1. /\ at.server \in {"request", "accounting"} /\ net.server = <<>>
        /\ at.client = "exit" \/ (net.client = <<>> /\ at.client # "start")
        /\ Finish("server", RadiusEnd(mem.accepted)) /\ net' = net /\ mem' = mem
    BY <1>2, <1>9 DEF RadiusServerFails
  <2>2. scenario = "shared-secret-leak" /\ mem.accepted = "nobody" /\ at.client = "exit"
    BY <1>4, <1>5, <2>1 DEF RadiusOpening, RadiusRefused, RadiusAccepted, RadiusClosing, BothGone,
       Stage
  <2>3. Finish("server", ABORT)
    BY <2>1, <2>2 DEF RadiusEnd
  <2>4. RadiusClosing'
    BY <1>3, <2>2, <2>3 DEF RadiusClosing, BothGone
  <2>5. QED
    BY <1>1, <2>1, <2>2, <2>3, <2>4 DEF RadiusRun, GoesWell, Pair
<1>10. QED
  BY <1>6, <1>7, <1>8, <1>9 DEF RadiusServer

LEMMA RadiusClientRuns ==
  ASSUME faults = {}, protocol = "radius", SettingsStay, ReportedOnce, Pair(net), RadiusRun,
         RadiusClient
  PROVE  GoesWell("client") /\ RadiusRun' /\ Pair(net')
<1>1. /\ scenario \in RadiusScenarios /\ scenario' = scenario /\ Pair(at) /\ Pair(results)
      /\ (Fortunate <=> scenario \in {"normal", "chap-vs-pap"})
      /\ mem = [nonce |-> mem.nonce, last |-> mem.last, accepted |-> mem.accepted]
      /\ mem' = mem
  BY RadiusFortunate DEF RadiusRun, SettingsStay, ReportedOnce, RadiusClient, RadiusClientStart,
     RadiusClientResponse, RadiusClientNoResponse, RadiusClientEnd
<1>2. /\ TimesOut("client") => net.client = <<>> /\ (at.server = "exit" \/ net.server = <<>>)
      /\ \A i : i \in Arriving("client") => i = 1 /\ net.client # <<>>
  BY CalmReceives, ShortRemoved
<1>3. /\ \A place : Goto("client", place) => at'.client = place /\ at'.server = at.server
      /\ \A printed : Finish("client", printed) => at'.client = "exit" /\ at'.server = at.server
  BY <1>1, Moves
<1>4. RadiusOpening \/ RadiusRefused \/ RadiusAccepted \/ RadiusClosing
  BY DEF RadiusRun
<1>5. \A x : <<x>> # <<>> /\ <<x>>[1] = x
  BY ShortRemoved
<1>6. RadiusClientRequest' = RadiusClientRequest
  BY <1>1 DEF RadiusClientRequest
<1>7. CASE RadiusClientStart
  <2>1. at.client = "start" /\ Send("client", <<RadiusClientRequest>>) /\ Goto("client", "response")
    BY <1>7 DEF RadiusClientStart
  <2>2. mem.accepted = "nobody" /\ mem.last = "none" /\ Stage("request", "start", <<>>, <<>>)
    BY <1>4, <2>1 DEF RadiusOpening, RadiusRefused, RadiusAccepted, RadiusClosing, BothGone, Stage
  <2>3. net' = [server |-> <<RadiusClientRequest>>, client |-> <<>>]
    BY <2>1, <2>2, OneForOne DEF Stage
  <2>4. at'.server = "request" /\ at'.client = "response"
    BY <1>3, <2>1, <2>2 DEF Stage
  <2>5. RadiusOpening'
    BY <1>1, <1>6, <2>2, <2>3, <2>4 DEF RadiusOpening, Stage
  <2>6. QED
    BY <1>1, <2>1, <2>3, <2>5 DEF RadiusRun, GoesWell, Pair
<1>8. CASE RadiusClientResponse
  <2>1. PICK m : /\ m = net.client[1] /\ net.client # <<>> /\ at.client = "response"
                 /\ \/ /\ ~(m.type = "accept" /\ m.of = mem.nonce)
                       /\ Exchange("client", 1, <<>>) /\ Finish("client", ABORT)
                    \/ /\ m.type = "accept" /\ m.of = mem.nonce
                       /\ \/ /\ scenario = "replay-attack" /\ Goto("client", "replayed")
                             /\ Exchange("client", 1, <<RadiusClientRequest>>)
                          \/ /\ scenario # "replay-attack" /\ Goto("client", "accounted")
                             /\ Exchange("client", 1, <<AccountingRequest("client")>>)
    BY <1>2, <1>8 DEF RadiusClientResponse
  <2>2. \/ /\ scenario = "shared-secret-leak" /\ mem.accepted = "nobody"
           /\ Stage("request", "response", <<>>, <<AccessResponse(FALSE, mem.nonce)>>)
        \/ /\ scenario # "shared-secret-leak" /\ mem.accepted = "client"
           /\ Stage("accounting", "response", <<>>, <<AccessResponse(TRUE, mem.nonce)>>)
    BY <1>4, <2>1 DEF RadiusOpening, RadiusRefused, RadiusAccepted, RadiusClosing, BothGone, Stage
  <2>3. CASE scenario = "shared-secret-leak"
    <3>1. /\ Stage("request", "response", <<>>, <<AccessResponse(FALSE, mem.nonce)>>)
          /\ m.type = "reject"
      BY Zenon, <1>5, <2>1, <2>2, <2>3, RadiusMessages DEF Stage
    <3>2. Exchange("client", 1, <<>>) /\ Finish("client", ABORT)
      BY <2>1, <3>1
    <3>3. net' = [server |-> <<>>, client |-> <<>>]
      BY <3>1, <3>2, OneForOne DEF Stage
    <3>4. at'.server = "request" /\ at'.client = "exit"
      BY <1>3, <3>1, <3>2 DEF Stage
    <3>5. RadiusRefused'
      BY <1>1, <2>2, <2>3, <3>3, <3>4 DEF RadiusRefused, Stage
    <3>6. QED
      BY <1>1, <2>3, <3>2, <3>3, <3>5 DEF RadiusRun, GoesWell, Pair
  <2>4. CASE scenario # "shared-secret-leak"
    <3>1. /\ Stage("accounting", "response", <<>>, <<AccessResponse(TRUE, mem.nonce)>>)
          /\ m.type = "accept" /\ m.of = mem.nonce
      BY <1>5, <2>1, <2>2, <2>4, RadiusMessages DEF Stage
    <3>2. CASE scenario = "replay-attack"
      <4>1. Exchange("client", 1, <<RadiusClientRequest>>) /\ Goto("client", "replayed")
        BY <2>1, <3>1, <3>2
      <4>2. net' = [server |-> <<RadiusClientRequest>>, client |-> <<>>]
        BY <3>1, <4>1, OneForOne DEF Stage
      <4>3. at'.server = "accounting" /\ at'.client = "replayed"
        BY <1>3, <3>1, <4>1 DEF Stage
      <4>4. RadiusAccepted'
        BY <1>1, <1>6, <2>2, <3>2, <4>2, <4>3 DEF RadiusAccepted, Stage
      <4>5. QED
        BY <1>1, <4>1, <4>2, <4>4 DEF RadiusRun, GoesWell, Pair
    <3>3. CASE scenario # "replay-attack"
      <4>1. Exchange("client", 1, <<AccountingRequest("client")>>) /\ Goto("client", "accounted")
        BY <2>1, <3>1, <3>3
      <4>2. net' = [server |-> <<AccountingRequest("client")>>, client |-> <<>>]
        BY <3>1, <4>1, OneForOne DEF Stage
      <4>3. at'.server = "accounting" /\ at'.client = "accounted"
        BY <1>3, <3>1, <4>1 DEF Stage
      <4>4. RadiusAccepted'
        BY <1>1, <2>2, <2>4, <3>3, <4>2, <4>3 DEF RadiusAccepted, Stage
      <4>5. QED
        BY <1>1, <4>1, <4>2, <4>4 DEF RadiusRun, GoesWell, Pair
    <3>4. QED
      BY <3>2, <3>3
  <2>5. QED
    BY <2>3, <2>4
<1>9. ~RadiusClientNoResponse
  BY <1>2, <1>4, <1>5 DEF RadiusClientNoResponse, RadiusOpening, RadiusRefused, RadiusAccepted,
     RadiusClosing, BothGone, Stage
<1>10. CASE RadiusClientEnd
  <2>1. /\ at.client \in {"replayed", "accounted"}
        /\ Finish("client", IF at.client = "replayed" THEN ABORT ELSE OK)
        /\ \/ net.client = <<>> /\ (at.server = "exit" \/ net.server = <<>>)
           \/ net.client # <<>> /\ Exchange("client", 1, <<>>)
    BY <1>2, <1>10 DEF RadiusClientEnd
  <2>2. \/ /\ scenario = "replay-attack"
           /\ Stage("exit", "replayed", <<>>, <<ReplayReject>>)
        \/ /\ scenario \in {"normal", "chap-vs-pap"}
           /\ Stage("exit", "accounted", <<>>, <<AccountingResponse>>)
    BY <1>4, <1>5, <2>1 DEF RadiusOpening, RadiusRefused, RadiusAccepted, RadiusClosing, BothGone,
       Stage
  <2>3. Exchange("client", 1, <<>>) /\ at.server = "exit"
    BY <1>5, <2>1, <2>2 DEF Stage
  <2>4. Pair(net')
    BY <2>3, ExchangeIs DEF Pair
  <2>5. RadiusClosing'
    BY <1>3, <2>1, <2>3 DEF RadiusClosing, BothGone
  <2>6. GoesWell("client")
    BY <1>1, <2>1, <2>2 DEF GoesWell, Stage
  <2>7. QED
    BY <1>1, <2>4, <2>5, <2>6 DEF RadiusRun
<1>11. QED
  BY <1>7, <1>8, <1>9, <1>10 DEF RadiusClient

-----------------------------------------------------------------------------
(***************************************************************************)
(* SipDemo, undisturbed.                                                   *)
(***************************************************************************)
SipRegistering ==
  /\ mem.call = "none" /\ mem.saw = {} /\ mem.left = 3
  /\ \/ Stage("request", "start", <<>>, <<>>)
     \/ Stage("request", "registered", <<SipRequest("REGISTER", "client")>>, <<>>)
SipRegisteredOnly ==
  scenario # "invite-bye" /\ Stage("exit", "registered", <<>>, <<SipStatus(200)>>)
SipInviting ==
  /\ mem.call = "none" /\ mem.saw = {} /\ mem.left = 3
  /\ \/ Stage("request", "registered", <<>>, <<SipStatus(200)>>)
     \/ Stage("request", "invited", <<SipRequest("INVITE", "client")>>, <<>>)
SipInvited ==
  /\ mem.saw = {"INVITE"}
  /\ \/ mem.left = 3
        /\ Stage("request", "invited", <<>>, <<SipStatus(100), SipStatus(180), SipStatus(200)>>)
     \/ mem.left = 2 /\ Stage("request", "invited", <<>>, <<SipStatus(180), SipStatus(200)>>)
     \/ mem.left = 1 /\ Stage("request", "invited", <<>>, <<SipStatus(200)>>)
SipLeaving ==
  \/ mem.saw = {"INVITE"}
     /\ Stage("request", "bye", <<SipRequest("ACK", "client"), SipRequest("BYE", "client")>>, <<>>)
  \/ mem.saw = {"INVITE", "ACK"} /\ Stage("request", "bye", <<SipRequest("BYE", "client")>>, <<>>)
  \/ Stage("exit", "bye", <<>>, <<SipStatus(200)>>)
SipRun ==
  /\ scenario \in SipScenarios \ {"replay-invite"}
  /\ mem = [call |-> mem.call, saw |-> mem.saw, left |-> mem.left]
  /\ \/ SipRegistering \/ SipRegisteredOnly \/ BothGone
     \/ scenario = "invite-bye" /\ (SipInviting \/ SipInvited \/ SipLeaving)

LEMMA SipFortunate ==
  protocol = "sip" => (Fortunate <=> scenario \in SipScenarios \ {"replay-invite"})
BY DEF Fortunate, LetIn, TcpFamily, ExpectedOk

LEMMA SipMessages ==
  /\ \A method : SipRequest(method, "client").method = method
  /\ \A method : SipReply(SipRequest(method, "client"), <<200>>) = <<SipStatus(200)>>
  /\ \A method : SipReply(SipRequest(method, "client"), <<100, 180, 200>>)
                   = <<SipStatus(100), SipStatus(180), SipStatus(200)>>
  /\ \A method : SipRequest(method, "client").from = "client"
<1>1. \A method, from : /\ SipRequest(method, from).method = method
                        /\ SipRequest(method, from).from = from
  BY DEF SipRequest
<1>2. [i \in DOMAIN <<200>> |-> SipStatus(<<200>>[i])] = <<SipStatus(200)>>
  OBVIOUS
<1>3. [i \in DOMAIN <<100, 180, 200>> |-> SipStatus(<<100, 180, 200>>[i])]
        = <<SipStatus(100), SipStatus(180), SipStatus(200)>>
  OBVIOUS
<1>4. \A m, codes : m.from = "client" =>
        SipReply(m, codes) = [i \in DOMAIN codes |-> SipStatus(codes[i])]
  BY DEF SipReply
<1>5. QED
  BY <1>1, <1>2, <1>3, <1>4

LEMMA ThreeRemoved ==
  ASSUME NEW x, NEW y, NEW z
  PROVE  /\ RemoveAt(<<x, y, z>>, 1) = <<y, z>> /\ <<x, y, z>>[1] = x /\ <<x, y, z>> # <<>>
         /\ <<>> \o <<x, y, z>> = <<x, y, z>>
<1>1. PICK s : s = <<x, y, z>>
  OBVIOUS
<1>2. s \in Seq({x, y, z}) /\ s # <<>> /\ Len(s) = 3 /\ s[2] = y /\ s[3] = z
  BY <1>1
<1>3. /\ RemoveAt(s, 1) = SubSeq(s, 2, Len(s)) /\ SubSeq(s, 2, Len(s)) \in Seq({x, y, z})
      /\ Shrinks(s, SubSeq(s, 2, Len(s)))
  BY <1>2, FirstRemoved
<1>4. PICK t : t = SubSeq(s, 2, Len(s))
  OBVIOUS
<1>5. t \in Seq({x, y, z}) /\ Len(t) = 2 /\ t[1] = y /\ t[2] = z
  BY <1>2, <1>3, <1>4 DEF Shrinks
<1>6. <<y, z>> \in Seq({x, y, z}) /\ Len(<<y, z>>) = 2 /\ <<y, z>>[1] = y /\ <<y, z>>[2] = z
  OBVIOUS
<1>7. \A i \in 1..2 : t[i] = <<y, z>>[i]
  BY <1>5, <1>6
<1>8. t = <<y, z>>
  BY <1>5, <1>6, <1>7, SeqEqual
<1>9. <<x, y, z>>[1] = x /\ <<x, y, z>> # <<>> /\ <<>> \o <<x, y, z>> = <<x, y, z>>
  OBVIOUS
<1>10. QED
  BY <1>1, <1>3, <1>4, <1>8, <1>9

LEMMA SipServerRuns ==
  ASSUME faults = {}, protocol = "sip", SettingsStay, ReportedOnce, Pair(net), SipRun, SipServer
  PROVE  GoesWell("server") /\ SipRun' /\ Pair(net')
<1>1. /\ scenario \in SipScenarios \ {"replay-invite"} /\ scenario' = scenario
      /\ Pair(at) /\ Pair(results) /\ Fortunate
      /\ mem = [call |-> mem.call, saw |-> mem.saw, left |-> mem.left]
  BY SipFortunate DEF SipRun, SettingsStay, ReportedOnce
<1>2. /\ TimesOut("server") => net.server = <<>>
           /\ (at.client = "exit" \/ (net.client = <<>> /\ at.client # "start"))
      /\ \A i : i \in Arriving("server") => i = 1 /\ net.server # <<>>
  BY CalmReceives, ShortRemoved
<1>3. /\ \A place : Goto("server", place) => at'.server = place /\ at'.client = at.client
      /\ \A printed : Finish("server", printed) => at'.server = "exit" /\ at'.client = at.client
  BY <1>1, Moves
<1>4. \/ SipRegistering \/ SipRegisteredOnly \/ BothGone
      \/ scenario = "invite-bye" /\ (SipInviting \/ SipInvited \/ SipLeaving)
  BY DEF SipRun
<1>5. /\ \A x : <<x>> # <<>> /\ <<x>>[1] = x
      /\ \A x, y : <<x, y>> # <<>> /\ <<x, y>>[1] = x
      /\ \A x, y, z : <<x, y, z>> # <<>>
  BY ShortRemoved, ThreeRemoved, ShortChannels
<1>6. ASSUME at.server = "request", net.server # <<>>
      PROVE  \/ /\ SipRegistering
                /\ Stage("request", "registered", <<SipRequest("REGISTER", "client")>>, <<>>)
                /\ net.server[1] = SipRequest("REGISTER", "client")
             \/ /\ SipInviting /\ scenario = "invite-bye"
                /\ Stage("request", "invited", <<SipRequest("INVITE", "client")>>, <<>>)
                /\ net.server[1] = SipRequest("INVITE", "client")
             \/ /\ mem.saw = {"INVITE"} /\ scenario = "invite-bye"
                /\ Stage("request", "bye",
                         <<SipRequest("ACK", "client"), SipRequest("BYE", "client")>>, <<>>)
                /\ net.server[1] = SipRequest("ACK", "client")
             \/ /\ mem.saw = {"INVITE", "ACK"} /\ scenario = "invite-bye"
                /\ Stage("request", "bye", <<SipRequest("BYE", "client")>>, <<>>)
                /\ net.server[1] = SipRequest("BYE", "client")
  <2>1. CASE SipRegistering
    BY <1>5, <1>6, <2>1 DEF SipRegistering, Stage
  <2>2. CASE SipInviting /\ scenario = "invite-bye"
    BY <1>5, <1>6, <2>2 DEF SipInviting, Stage
  <2>3. CASE SipLeaving /\ scenario = "invite-bye"
    BY <1>5, <1>6, <2>3 DEF SipLeaving, Stage
  <2>4. QED
    BY <1>4, <1>6, <2>1, <2>2, <2>3 DEF SipRegisteredOnly, BothGone, SipInvited, Stage
<1>7. CASE SipServerRegister
  <2>1. PICK i \in Arriving("server") :
          /\ net.server[i].method = "REGISTER"
          /\ Exchange("server", i, SipReply(net.server[i], <<200>>))
    BY <1>7 DEF SipServerRegister
  <2>2. /\ at.server = "request" /\ net.server # <<>> /\ net.server[1].method = "REGISTER"
        /\ Exchange("server", 1, SipReply(net.server[1], <<200>>)) /\ mem' = mem
    BY <1>2, <1>7, <2>1 DEF SipServerRegister
  <2>3. /\ SipRegistering
        /\ Stage("request", "registered", <<SipRequest("REGISTER", "client")>>, <<>>)
        /\ net.server[1] = SipRequest("REGISTER", "client")
    BY <1>6, <2>2, SipMessages
  <2>4. Exchange("server", 1, <<SipStatus(200)>>)
    BY <2>2, <2>3, SipMessages
  <2>5. net' = [server |-> <<>>, client |-> <<SipStatus(200)>>]
    BY <2>3, <2>4, OneForOne DEF Stage
  <2>6. CASE scenario = "invite-bye"
    <3>1. Goto("server", "request")
      BY <1>7, <2>6 DEF SipServerRegister
    <3>2. SipInviting'
      BY <1>3, <2>2, <2>3, <2>5, <3>1 DEF SipRegistering, SipInviting, Stage
    <3>3. QED
      BY <1>1, <2>2, <2>5, <2>6, <3>1, <3>2 DEF SipRun, GoesWell, Pair
  <2>7. CASE scenario # "invite-bye"
    <3>1. Finish("server", OK)
      BY <1>7, <2>7 DEF SipServerRegister
    <3>2. SipRegisteredOnly'
      BY <1>1, <1>3, <2>3, <2>5, <2>7, <3>1 DEF SipRegisteredOnly, Stage
    <3>3. QED
      BY <1>1, <2>2, <2>5, <2>7, <3>1, <3>2 DEF SipRun, GoesWell, Pair
  <2>8. QED
    BY <2>6, <2>7
<1>8. CASE SipServerInvite
  <2>1. PICK i \in Arriving("server") :
          /\ net.server[i].method = "INVITE"
          /\ \/ /\ net.server[i].from # mem.call
                /\ Exchange("server", i, SipReply(net.server[i], <<100, 180, 200>>))
                /\ mem' = [mem EXCEPT !.call = net.server[i].from, !.saw = @ \cup {"INVITE"}]
                /\ Goto("server", "request")
             \/ net.server[i].from = mem.call
    BY Zenon, <1>8 DEF SipServerInvite
  <2>2. at.server = "request" /\ net.server # <<>> /\ i = 1
    BY <1>2, <1>8 DEF SipServerInvite
  <2>3. /\ SipInviting /\ scenario = "invite-bye"
        /\ Stage("request", "invited", <<SipRequest("INVITE", "client")>>, <<>>)
        /\ net.server[1] = SipRequest("INVITE", "client")
    BY <1>6, <2>1, <2>2, SipMessages
  <2>4. net.server[1].from = "client" /\ mem.call = "none" /\ mem.saw = {} /\ mem.left = 3
    BY <2>3, SipMessages DEF SipInviting
  <2>5. /\ Exchange("server", 1, SipReply(net.server[1], <<100, 180, 200>>))
        /\ mem' = [mem EXCEPT !.call = net.server[1].from, !.saw = @ \cup {"INVITE"}]
        /\ Goto("server", "request")
    BY <2>1, <2>2, <2>4
  <2>6. mem' = [call |-> "client", saw |-> {"INVITE"}, left |-> 3]
    BY <1>1, <2>4, <2>5
  <2>7. Exchange("server", 1, <<SipStatus(100), SipStatus(180), SipStatus(200)>>)
    BY <2>3, <2>5, SipMessages
  <2>8. net' = [server |-> RemoveAt(net.server, 1),
                client |-> net.client \o <<SipStatus(100), SipStatus(180), SipStatus(200)>>]
    BY Zenon, <2>7, ExchangeIs
  <2>9. net' = [server |-> <<>>, client |-> <<SipStatus(100), SipStatus(180), SipStatus(200)>>]
    BY <2>3, <2>8, ShortRemoved, ThreeRemoved DEF Stage
  <2>10. SipInvited'
    <3>1. at'.server = "request" /\ at'.client = "invited"
      BY <1>3, <2>3, <2>5 DEF Stage
    <3>2. /\ net'.server = <<>>
          /\ net'.client = <<SipStatus(100), SipStatus(180), SipStatus(200)>>
      BY <2>9
    <3>3. mem'.saw = {"INVITE"} /\ mem'.left = 3
      BY <2>6
    <3>4. QED
      BY <3>1, <3>2, <3>3 DEF SipInvited, Stage
  <2>11. QED
    BY <1>1, <2>3, <2>5, <2>6, <2>9, <2>10 DEF SipRun, GoesWell, Pair
<1>9. CASE SipServerAckOrBye
  <2>1. PICK i \in Arriving("server") :
          /\ net.server[i].method \in {"ACK", "BYE"}
          /\ mem' = [mem EXCEPT !.saw = @ \cup {net.server[i].method}]
          /\ Exchange("server", i, IF net.server[i].method = "BYE"
                                   THEN SipReply(net.server[i], <<200>>) ELSE <<>>)
          /\ \/ SipEnds(mem.saw, net.server[i].method) /\ Finish("server", OK)
             \/ ~SipEnds(mem.saw, net.server[i].method) /\ Goto("server", "request")
    BY <1>9 DEF SipServerAckOrBye
  <2>2. at.server = "request" /\ net.server # <<>> /\ i = 1
    BY <1>2, <1>9 DEF SipServerAckOrBye
  <2>3. \/ /\ mem.saw = {"INVITE"} /\ scenario = "invite-bye"
           /\ Stage("request", "bye",
                    <<SipRequest("ACK", "client"), SipRequest("BYE", "client")>>, <<>>)
           /\ net.server[1] = SipRequest("ACK", "client")
        \/ /\ mem.saw = {"INVITE", "ACK"} /\ scenario = "invite-bye"
           /\ Stage("request", "bye", <<SipRequest("BYE", "client")>>, <<>>)
           /\ net.server[1] = SipRequest("BYE", "client")
    BY <1>6, <2>1, <2>2, SipMessages
  <2>4. CASE /\ mem.saw = {"INVITE"} /\ scenario = "invite-bye"
             /\ Stage("request", "bye",
                      <<SipRequest("ACK", "client"), SipRequest("BYE", "client")>>, <<>>)
             /\ net.server[1] = SipRequest("ACK", "client")
    <3>1. net.server[1].method = "ACK" /\ ~SipEnds(mem.saw, "ACK")
      BY <2>4, SipMessages DEF SipEnds
    <3>2. /\ Goto("server", "request") /\ Exchange("server", 1, <<>>)
          /\ mem' = [mem EXCEPT !.saw = @ \cup {"ACK"}]
      BY <2>1, <2>2, <3>1
    <3>3. mem' = [call |-> mem.call, saw |-> {"INVITE", "ACK"}, left |-> mem.left]
      <4>1. {"INVITE"} \cup {"ACK"} = {"INVITE", "ACK"}
        OBVIOUS
      <4>2. QED
        BY <1>1, <2>4, <3>2, <4>1
    <3>4. net' = [server |-> RemoveAt(net.server, 1), client |-> net.client \o <<>>]
      BY <3>2, ExchangeIs
    <3>5. net' = [server |-> <<SipRequest("BYE", "client")>>, client |-> <<>>]
      BY <2>4, <3>4, ShortRemoved, ShortChannels DEF Stage
    <3>6. SipLeaving'
      BY <1>3, <2>4, <3>2, <3>3, <3>5 DEF SipLeaving, Stage
    <3>7. QED
      BY <1>1, <2>4, <3>2, <3>3, <3>5, <3>6 DEF SipRun, GoesWell, Pair
  <2>5. CASE /\ mem.saw = {"INVITE", "ACK"} /\ scenario = "invite-bye"
             /\ Stage("request", "bye", <<SipRequest("BYE", "client")>>, <<>>)
             /\ net.server[1] = SipRequest("BYE", "client")
    <3>1. net.server[1].method = "BYE" /\ SipEnds(mem.saw, "BYE")
      BY <2>5, SipMessages DEF SipEnds
    <3>2. /\ Finish("server", OK) /\ Exchange("server", 1, <<SipStatus(200)>>)
          /\ mem' = [mem EXCEPT !.saw = @ \cup {"BYE"}]
      <4>1. SipReply(net.server[1], <<200>>) = <<SipStatus(200)>>
        BY <2>5, SipMessages
      <4>2. /\ Exchange("server", 1, SipReply(net.server[1], <<200>>)) /\ Finish("server", OK)
            /\ mem' = [mem EXCEPT !.saw = @ \cup {"BYE"}]
        BY <2>1, <2>2, <3>1
      <4>3. QED
        BY <4>1, <4>2
    <3>3. mem' = [call |-> mem.call, saw |-> mem'.saw, left |-> mem.left]
      BY <1>1, <3>2
    <3>4. net' = [server |-> <<>>, client |-> <<SipStatus(200)>>]
      BY <2>5, <3>2, OneForOne DEF Stage
    <3>5. SipLeaving'
      BY <1>3, <2>5, <3>2, <3>4 DEF SipLeaving, Stage
    <3>6. QED
      BY <1>1, <2>5, <3>2, <3>3, <3>4, <3>5 DEF SipRun, GoesWell, Pair
  <2>6. QED
    BY <2>3, <2>4, <2>5
<1>10. ~SipServerFails
  BY <1>2, <1>4, <1>5 DEF SipServerFails, SipRegistering, SipRegisteredOnly, BothGone, SipInviting,
     SipInvited, SipLeaving, Stage
<1>11. QED
  BY <1>7, <1>8, <1>9, <1>10 DEF SipServer

LEMMA SipClientRuns ==
  ASSUME faults = {}, protocol = "sip", SettingsStay, ReportedOnce, Pair(net), SipRun, SipClient
  PROVE  GoesWell("client") /\ SipRun' /\ Pair(net')
<1>1. /\ scenario \in SipScenarios \ {"replay-invite"} /\ scenario' = scenario
      /\ Pair(at) /\ Pair(results) /\ Fortunate
      /\ mem = [call |-> mem.call, saw |-> mem.saw, left |-> mem.left]
  BY SipFortunate DEF SipRun, SettingsStay, ReportedOnce
<1>2. /\ TimesOut("client") => net.client = <<>> /\ (at.server = "exit" \/ net.server = <<>>)
      /\ \A i : i \in Arriving("client") => i = 1 /\ net.client # <<>>
  BY CalmReceives, ShortRemoved
<1>3. /\ \A place : Goto("client", place) => at'.client = place /\ at'.server = at.server
      /\ \A printed : Finish("client", printed) => at'.client = "exit" /\ at'.server = at.server
  BY <1>1, Moves
<1>4. \/ SipRegistering \/ SipRegisteredOnly \/ BothGone
      \/ scenario = "invite-bye" /\ (SipInviting \/ SipInvited \/ SipLeaving)
  BY DEF SipRun
<1>5. /\ \A x : <<x>> # <<>> /\ <<x>>[1] = x
      /\ \A x, y : <<x, y>> # <<>> /\ <<x, y>>[1] = x
      /\ \A x, y, z : <<x, y, z>> # <<>>
  BY ShortRemoved, ThreeRemoved, ShortChannels
<1>6. CASE SipClientStart
  <2>1. /\ at.client = "start" /\ Send("client", <<SipRequest("REGISTER", "client")>>)
        /\ Goto("client", "registered") /\ mem' = mem
    BY <1>6 DEF SipClientStart
  <2>2. SipRegistering /\ Stage("request", "start", <<>>, <<>>)
    BY <1>4, <2>1 DEF SipRegistering, SipRegisteredOnly, BothGone, SipInviting, SipInvited,
       SipLeaving, Stage
  <2>3. net' = [server |-> <<SipRequest("REGISTER", "client")>>, client |-> <<>>]
    BY <2>1, <2>2, OneForOne DEF Stage
  <2>4. SipRegistering'
    BY <1>3, <2>1, <2>2, <2>3 DEF SipRegistering, Stage
  <2>5. QED
    BY <1>1, <2>1, <2>3, <2>4 DEF SipRun, GoesWell, Pair
<1>7. CASE SipClientRegistered
  <2>1. /\ at.client = "registered" /\ net.client # <<>> /\ mem' = mem
        /\ \/ /\ scenario = "invite-bye" /\ Goto("client", "invited")
              /\ Exchange("client", 1, <<SipRequest("INVITE", "client")>>)
           \/ /\ scenario # "invite-bye" /\ Exchange("client", 1, <<>>) /\ Finish("client", OK)
    BY <1>1, <1>2, <1>7 DEF SipClientRegistered
  <2>2. CASE scenario = "invite-bye"
    <3>1. SipInviting /\ Stage("request", "registered", <<>>, <<SipStatus(200)>>)
      BY <1>4, <2>1, <2>2 DEF SipRegistering, SipRegisteredOnly, BothGone, SipInviting, SipInvited,
         SipLeaving, Stage
    <3>2. net' = [server |-> <<SipRequest("INVITE", "client")>>, client |-> <<>>]
      BY <2>1, <2>2, <3>1, OneForOne DEF Stage
    <3>3. SipInviting'
      BY <1>3, <2>1, <2>2, <3>1, <3>2 DEF SipInviting, Stage
    <3>4. QED
      BY <1>1, <2>1, <2>2, <3>2, <3>3 DEF SipRun, GoesWell, Pair
  <2>3. CASE scenario # "invite-bye"
    <3>1. Stage("exit", "registered", <<>>, <<SipStatus(200)>>)
      BY <1>4, <2>1, <2>3 DEF SipRegistering, SipRegisteredOnly, BothGone, Stage
    <3>2. Pair(net')
      BY <2>1, <2>3, ExchangeIs DEF Pair
    <3>3. BothGone'
      BY <1>3, <2>1, <2>3, <3>1 DEF BothGone, Stage
    <3>4. QED
      BY <1>1, <2>1, <2>3, <3>2, <3>3 DEF SipRun, GoesWell
  <2>4. QED
    BY <2>2, <2>3
<1>8. ~SipClientNotRegistered /\ ~SipClientInviteFails
  <2>1. ~(at.client \in {"registered", "invited"} /\ net.client = <<>>
            /\ (at.server = "exit" \/ net.server = <<>>))
    <3>1. CASE SipRegistering \/ SipRegisteredOnly \/ SipInviting \/ BothGone
      BY <1>5, <3>1 DEF SipRegistering, SipRegisteredOnly, BothGone, SipInviting, Stage
    <3>2. CASE SipLeaving
      BY <3>2 DEF SipLeaving, Stage
    <3>3. CASE SipInvited
      BY <1>5, <3>3 DEF SipInvited, Stage
    <3>4. QED
      BY <1>4, <3>1, <3>2, <3>3
  <2>2. QED
    BY <1>2, <2>1 DEF SipClientNotRegistered, SipClientInviteFails
<1>9. CASE SipClientInvited
  <2>1. /\ at.client = "invited" /\ net.client # <<>> /\ mem' = [mem EXCEPT !.left = @ - 1]
        /\ \/ mem.left > 1 /\ Exchange("client", 1, <<>>) /\ Goto("client", "invited")
           \/ mem.left = 1 /\ Exchange("client", 1, SipMessagesAfterInvite) /\ SipAfterInvite
    BY <1>2, <1>9 DEF SipClientInvited
  <2>2. scenario = "invite-bye" /\ SipInvited /\ mem.saw = {"INVITE"}
    BY <1>4, <2>1 DEF SipRegistering, SipRegisteredOnly, BothGone, SipInviting, SipInvited,
       SipLeaving, Stage
  <2>3. mem' = [call |-> mem.call, saw |-> {"INVITE"}, left |-> mem.left - 1]
    BY <1>1, <2>1, <2>2
  <2>4. CASE /\ mem.left = 3
             /\ Stage("request", "invited", <<>>, <<SipStatus(100), SipStatus(180), SipStatus(200)>>)
    <3>1. Exchange("client", 1, <<>>) /\ Goto("client", "invited") /\ 3 - 1 = 2
      BY <2>1, <2>4
    <3>2. net' = [server |-> net.server \o <<>>, client |-> RemoveAt(net.client, 1)]
      BY <3>1, ExchangeIs
    <3>3. net' = [server |-> <<>>, client |-> <<SipStatus(180), SipStatus(200)>>]
      BY <2>4, <3>2, ThreeRemoved, ShortChannels DEF Stage
    <3>4. SipInvited'
      BY <1>3, <2>3, <2>4, <3>1, <3>3 DEF SipInvited, Stage
    <3>5. QED
      BY <1>1, <2>2, <2>3, <3>1, <3>3, <3>4 DEF SipRun, GoesWell, Pair
  <2>5. CASE mem.left = 2 /\ Stage("request", "invited", <<>>, <<SipStatus(180), SipStatus(200)>>)
    <3>1. Exchange("client", 1, <<>>) /\ Goto("client", "invited") /\ 2 - 1 = 1
      BY <2>1, <2>5
    <3>2. net' = [server |-> net.server \o <<>>, client |-> RemoveAt(net.client, 1)]
      BY <3>1, ExchangeIs
    <3>3. net' = [server |-> <<>>, client |-> <<SipStatus(200)>>]
      BY <2>5, <3>2, ShortRemoved, ShortChannels DEF Stage
    <3>4. SipInvited'
      BY <1>3, <2>3, <2>5, <3>1, <3>3 DEF SipInvited, Stage
    <3>5. QED
      BY <1>1, <2>2, <2>3, <3>1, <3>3, <3>4 DEF SipRun, GoesWell, Pair
  <2>6. CASE mem.left = 1 /\ Stage("request", "invited", <<>>, <<SipStatus(200)>>)
    <3>1. /\ Exchange("client", 1, <<SipRequest("ACK", "client"), SipRequest("BYE", "client")>>)
          /\ Goto("client", "bye")
      BY <2>1, <2>2, <2>6 DEF SipMessagesAfterInvite, SipAfterInvite
    <3>2. net' = [server |-> net.server \o <<SipRequest("ACK", "client"), SipRequest("BYE", "client")>>,
                  client |-> RemoveAt(net.client, 1)]
      BY <3>1, ExchangeIs
    <3>3. net' = [server |-> <<SipRequest("ACK", "client"), SipRequest("BYE", "client")>>,
                  client |-> <<>>]
      BY <2>6, <3>2, ShortRemoved, ShortChannels DEF Stage
    <3>4. SipLeaving'
      BY <1>3, <2>3, <2>6, <3>1, <3>3 DEF SipLeaving, Stage
    <3>5. QED
      BY <1>1, <2>2, <2>3, <3>1, <3>3, <3>4 DEF SipRun, GoesWell, Pair
  <2>7. QED
    BY <2>2, <2>4, <2>5, <2>6 DEF SipInvited
<1>10. CASE SipClientBye
  <2>1. /\ at.client = "bye" /\ Finish("client", OK) /\ mem' = mem
        /\ \/ net.client = <<>> /\ (at.server = "exit" \/ net.server = <<>>)
           \/ Exchange("client", 1, <<>>) /\ net.client # <<>>
    BY <1>2, <1>10 DEF SipClientBye
  <2>2. Stage("exit", "bye", <<>>, <<SipStatus(200)>>)
    BY <1>4, <1>5, <2>1 DEF SipRegistering, SipRegisteredOnly, BothGone, SipInviting, SipInvited,
       SipLeaving, Stage
  <2>3. Pair(net')
    BY <1>5, <2>1, <2>2, ExchangeIs DEF Pair, Stage
  <2>4. BothGone'
    BY <1>3, <2>1, <2>2 DEF BothGone, Stage
  <2>5. QED
    BY <1>1, <2>1, <2>3, <2>4 DEF SipRun, GoesWell
<1>11. QED
  BY <1>6, <1>7, <1>8, <1>9, <1>10 DEF SipClient

-----------------------------------------------------------------------------
(***************************************************************************)
(* WebDemo, undisturbed.                                                   *)
(***************************************************************************)
WebScenario ==
  \/ protocol = "http-basic" /\ scenario \in HttpScenarios
  \/ protocol = "oauth2" /\ scenario \in OauthScenarios

\* The password is right, where one is needed to go on.
Admitted == protocol = "http-basic" /\ scenario \in {"normal", "payload-too-large"} => Secret

\* What the client is answered at its k-th request, and whether it asks for more.
WebAnswer(k) == IF k = 2 /\ ~Admitted THEN 403 ELSE Script[k].status
WebMore(k) == k < Len(Script) /\ ~(k = 2 /\ ~Admitted)

\* The server's variables when it has served the first n requests of the script.
WebServedSoFar(n) ==
  /\ protocol = "http-basic" => (mem.authed <=> n = 2) /\ mem.step = 0
  /\ protocol = "oauth2" => /\ mem.step = n
                            /\ mem.last = IF n < 2 THEN "none" ELSE Script[2].request.code

WebFirst == Stage("accept", "start", <<>>, <<>>) /\ mem.asked = 0 /\ WebServedSoFar(0)
WebAsking(k) ==
  WebServedSoFar(k - 1) /\ Stage("accept", "response", <<Script[k].request>>, <<>>)
WebAnswered(k) ==
  WebMore(k) /\ WebServedSoFar(k) /\ Stage("accept", "response", <<>>, <<WebAnswer(k)>>)
WebLast(k) == ~WebMore(k) /\ Stage("exit", "response", <<>>, <<WebAnswer(k)>>)

WebRun ==
  /\ WebScenario /\ (protocol = "http-basic" => Secret \in BOOLEAN)
  /\ \/ WebFirst
     \/ \E k \in 1..Len(Script) :
          /\ mem.asked = k /\ (k = 3 => Admitted)
          /\ WebAsking(k) \/ WebAnswered(k) \/ WebLast(k)
     \/ BothGone

LEMMA WebFortunate ==
  ASSUME protocol \in WebFamily
  PROVE  Fortunate <=> \/ protocol = "http-basic" /\ scenario = "normal" /\ Secret
                       \/ protocol = "oauth2" /\ scenario \in OauthScenarios \ {"token-replay"}
BY DEF Fortunate, LetIn, TcpFamily, WebFamily, ExpectedOk, Secret

\* The k-th request, and the status that lets the client go on.
Asks(k, request, status) == Script[k].request = request /\ Script[k].status = status

LEMMA HttpScriptIs ==
  ASSUME protocol = "http-basic", scenario \in HttpScenarios, Secret \in BOOLEAN
  PROVE  /\ Len(Script) = ScriptLength
         /\ scenario = "bad-method" => Asks(1, HttpRequest("status", FALSE, "client"), 405)
         /\ scenario # "bad-method" => Asks(1, HttpRequest("status", TRUE, "client"), 200)
         /\ scenario = "bad-auth" => Asks(2, HttpRequest("auth", FALSE, "client"), 403)
         /\ scenario \in {"normal", "payload-too-large"} =>
              \/ Secret /\ Asks(2, HttpRequest("auth", TRUE, "client"), 200)
              \/ ~Secret /\ Asks(2, HttpRequest("auth", FALSE, "client"), 200)
         /\ scenario = "normal" => Asks(3, HttpRequest("upload", TRUE, "client"), 201)
         /\ scenario = "payload-too-large" => Asks(3, HttpRequest("upload", FALSE, "client"), 413)
<1>1. Script = HttpScript /\ Len(Script) = ScriptLength
  BY ScriptLengthIs DEF Script
<1>2. Secret = TRUE \/ Secret = FALSE
  OBVIOUS
<1>3. CASE scenario = "bad-method"
  BY <1>1, <1>3 DEF HttpScript, Asks
<1>4. CASE scenario = "bad-auth"
  BY <1>1, <1>4 DEF HttpScript, Asks
<1>5. CASE scenario = "payload-too-large"
  <2>1. Script = <<[request |-> HttpRequest("status", TRUE, "client"), status |-> 200],
                   [request |-> HttpRequest("auth", Secret, "client"), status |-> 200],
                   [request |-> HttpRequest("upload", FALSE, "client"), status |-> 413]>>
    BY Zenon, <1>1, <1>5 DEF HttpScript, Secret
  <2>2. /\ Asks(1, HttpRequest("status", TRUE, "client"), 200)
        /\ Asks(2, HttpRequest("auth", Secret, "client"), 200)
        /\ Asks(3, HttpRequest("upload", FALSE, "client"), 413)
    BY <2>1 DEF Asks
  <2>3. \/ Secret /\ Asks(2, HttpRequest("auth", TRUE, "client"), 200)
        \/ ~Secret /\ Asks(2, HttpRequest("auth", FALSE, "client"), 200)
    <3>1. CASE Secret = TRUE
      <4>1. Asks(2, HttpRequest("auth", TRUE, "client"), 200)
        BY <2>2, <3>1, Zenon
      <4>2. QED
        BY <3>1, <4>1
    <3>2. CASE Secret = FALSE
      <4>1. Asks(2, HttpRequest("auth", FALSE, "client"), 200)
        BY <2>2, <3>2, Zenon
      <4>2. QED
        BY <3>2, <4>1
    <3>3. QED
      BY <1>2, <3>1, <3>2
  <2>4. QED
    BY <1>1, <1>5, <2>2, <2>3
<1>6. CASE scenario = "normal"
  <2>1. Script = <<[request |-> HttpRequest("status", TRUE, "client"), status |-> 200],
                   [request |-> HttpRequest("auth", Secret, "client"), status |-> 200],
                   [request |-> HttpRequest("upload", TRUE, "client"), status |-> 201]>>
    BY <1>1, <1>6 DEF HttpScript, Secret
  <2>2. /\ Asks(1, HttpRequest("status", TRUE, "client"), 200)
        /\ Asks(2, HttpRequest("auth", Secret, "client"), 200)
        /\ Asks(3, HttpRequest("upload", TRUE, "client"), 201)
    BY <2>1 DEF Asks
  <2>3. \/ Secret /\ Asks(2, HttpRequest("auth", TRUE, "client"), 200)
        \/ ~Secret /\ Asks(2, HttpRequest("auth", FALSE, "client"), 200)
    <3>1. CASE Secret = TRUE
      <4>1. Asks(2, HttpRequest("auth", TRUE, "client"), 200)
        BY <2>2, <3>1, Zenon
      <4>2. QED
        BY <3>1, <4>1
    <3>2. CASE Secret = FALSE
      <4>1. Asks(2, HttpRequest("auth", FALSE, "client"), 200)
        BY <2>2, <3>2, Zenon
      <4>2. QED
        BY <3>2, <4>1
    <3>3. QED
      BY <1>2, <3>1, <3>2
  <2>4. QED
    BY <1>1, <1>6, <2>2, <2>3
<1>7. QED
  BY <1>3, <1>4, <1>5, <1>6 DEF HttpScenarios

LEMMA OauthScriptIs ==
  ASSUME protocol = "oauth2", scenario \in OauthScenarios
  PROVE  LET code == IF scenario = "token-replay" THEN "AUTH_CODE_REPLAY_42" ELSE "AUTH_CODE_42"
         IN  /\ Len(Script) = ScriptLength /\ code # "none"
             /\ Asks(1, OauthRequest("authorize", "none", TRUE, "client"), 302)
             /\ Asks(2, OauthRequest("token", code, TRUE, "client"), 200)
             /\ scenario = "token-replay" =>
                  Asks(3, OauthRequest("token", code, TRUE, "client"), 400)
             /\ scenario # "token-replay" =>
                  /\ Asks(3, OauthRequest("resource", "none", TRUE, "client"), 200)
                  /\ Asks(4, OauthRequest("refresh", "none", TRUE, "client"), 200)
<1>1. Script = OauthScript /\ Len(Script) = ScriptLength
  BY ScriptLengthIs DEF Script
<1>2. CASE scenario = "token-replay"
  BY <1>1, <1>2 DEF OauthScript, Asks
<1>3. CASE scenario # "token-replay"
  BY <1>1, <1>3 DEF OauthScript, Asks
<1>4. QED
  BY <1>2, <1>3

\* What the server does with the k-th request.
WebGoesOn(k, n) ==
  /\ n.passwords = mem.passwords /\ n.asked = mem.asked
  /\ protocol = "http-basic" => (n.authed <=> k = 2) /\ n.step = 0
  /\ protocol = "oauth2" => n.step = k /\ n.last = IF k < 2 THEN "none" ELSE Script[2].request.code
WebServes(k, m) ==
  /\ m.from = "client" /\ WebStatus(m) = WebAnswer(k) /\ WebAnswer(k) \in Nat
  /\ WebMore(k) =>
       WebAnswer(k) < 400 /\ WebServed(m).step # LastStep /\ WebGoesOn(k, WebServed(m))
  /\ ~WebMore(k) =>
       \/ WebAnswer(k) >= 400 /\ WebResult(mem.step) = IF Fortunate THEN OK ELSE ABORT
       \/ /\ WebAnswer(k) < 400 /\ Fortunate /\ WebServed(m).step = LastStep
          /\ WebServed(m).passwords = mem.passwords /\ WebServed(m).asked = mem.asked

LEMMA HttpServes ==
  ASSUME protocol = "http-basic", scenario \in HttpScenarios, Secret \in BOOLEAN, WebCounts,
         NEW k \in 1..Len(Script), WebServedSoFar(k - 1), k = 3 => Admitted,
         NEW m, m = Script[k].request
  PROVE  WebServes(k, m)
<1>0. mem.authed <=> k = 3
  <2>1. k - 1 = 2 <=> k = 3
    BY HttpScriptIs, ScriptLengthIs
  <2>2. QED
    BY <2>1 DEF WebServedSoFar
<1>1. /\ mem.step = 0 /\ LastStep = 3
      /\ mem = [passwords |-> mem.passwords, asked |-> mem.asked, authed |-> mem.authed,
                last |-> mem.last, step |-> mem.step]
  BY DEF WebServedSoFar, WebCounts, LastStep
<1>2. /\ WebStatus(m) = HttpStatus(m) /\ WebServed(m) = HttpServed(m)
      /\ Fortunate <=> scenario = "normal" /\ Secret
      /\ Admitted <=> (scenario \in {"normal", "payload-too-large"} => Secret)
      /\ WebResult(mem.step) = ABORT
  BY <1>1, WebFortunate DEF WebStatus, WebServed, WebFamily, Admitted, WebResult
<1>3. k \in 1..ScriptLength /\ (WebMore(k) <=> k < ScriptLength /\ ~(k = 2 /\ ~Admitted))
  BY HttpScriptIs DEF WebMore
<1>4. Secret = TRUE \/ Secret = FALSE
  OBVIOUS
<1>5. CASE k = 1 /\ scenario = "bad-method"
  <2>1. Asks(k, HttpRequest("status", FALSE, "client"), 405)
    BY <1>5, HttpScriptIs
  <2>2. WebAnswer(k) = 405
    BY <2>1, <1>5 DEF Asks, WebAnswer
  <2>3. m = HttpRequest("status", FALSE, "client")
    BY <2>1 DEF Asks
  <2>4. m.path = "status" /\ m.from = "client"
    BY <2>3 DEF HttpRequest
  <2>5. m.good = FALSE
    BY <2>3 DEF HttpRequest
  <2>6. HttpStatus(m) = 405 /\ ~WebMore(k)
    BY <1>3, <1>5, <2>2, <2>4, <2>5 DEF HttpStatus, ScriptLength
  <2>7. ~Fortunate
    BY <1>2, <1>5
  <2>8. QED
    BY <1>2, <2>2, <2>4, <2>6, <2>7 DEF WebServes
<1>6. CASE k = 1 /\ scenario # "bad-method"
  <2>1. Asks(k, HttpRequest("status", TRUE, "client"), 200)
    BY <1>6, HttpScriptIs
  <2>2. WebAnswer(k) = 200
    BY <2>1, <1>6 DEF Asks, WebAnswer
  <2>3. m = HttpRequest("status", TRUE, "client")
    BY <2>1 DEF Asks
  <2>4. m.path = "status" /\ m.from = "client"
    BY <2>3 DEF HttpRequest
  <2>5. m.good = TRUE
    BY <2>3 DEF HttpRequest
  <2>6. HttpStatus(m) = 200 /\ HttpServed(m) = mem
    BY <2>2, <2>4, <2>5 DEF HttpStatus, HttpServed
  <2>7. WebMore(k)
    BY <1>3, <1>6 DEF HttpScenarios, ScriptLength
  <2>8. WebGoesOn(k, mem)
    BY <1>0, <1>1, <1>6 DEF WebGoesOn
  <2>9. QED
    BY <1>1, <1>2, <2>2, <2>4, <2>6, <2>7, <2>8 DEF WebServes
<1>7. CASE k = 2 /\ scenario = "bad-auth"
  <2>1. Asks(k, HttpRequest("auth", FALSE, "client"), 403)
    BY <1>2, <1>7, HttpScriptIs
  <2>2. WebAnswer(k) = 403
    BY <2>1, <1>2, <1>7 DEF Asks, WebAnswer
  <2>3. m = HttpRequest("auth", FALSE, "client")
    BY <2>1 DEF Asks
  <2>4. m.path = "auth" /\ m.from = "client"
    BY <2>3 DEF HttpRequest
  <2>5. m.good = FALSE
    BY <2>3 DEF HttpRequest
  <2>6. HttpStatus(m) = 403 /\ ~WebMore(k)
    BY <1>3, <1>7, <2>2, <2>4, <2>5 DEF HttpStatus, ScriptLength
  <2>7. ~Fortunate
    BY <1>2, <1>7
  <2>8. QED
    BY <1>2, <2>2, <2>4, <2>6, <2>7 DEF WebServes
<1>8. CASE k = 2 /\ scenario \in {"normal", "payload-too-large"} /\ Secret
  <2>1. Asks(k, HttpRequest("auth", TRUE, "client"), 200)
    BY <1>2, <1>8, HttpScriptIs
  <2>2. WebAnswer(k) = 200
    BY <2>1, <1>2, <1>8 DEF Asks, WebAnswer
  <2>3. m = HttpRequest("auth", TRUE, "client")
    BY <2>1 DEF Asks
  <2>4. m.path = "auth" /\ m.from = "client"
    BY <2>3 DEF HttpRequest
  <2>5. m.good = TRUE
    BY <2>3 DEF HttpRequest
  <2>6. HttpStatus(m) = 200 /\ HttpServed(m) = [mem EXCEPT !.authed = TRUE]
    BY <2>2, <2>4, <2>5 DEF HttpStatus, HttpServed
  <2>7. /\ HttpServed(m).passwords = mem.passwords /\ HttpServed(m).asked = mem.asked
        /\ HttpServed(m).step = 0 /\ HttpServed(m).authed = TRUE
    <3>1. PICK n : n = [mem EXCEPT !.authed = TRUE]
      OBVIOUS
    <3>2. n.passwords = mem.passwords /\ n.asked = mem.asked /\ n.step = mem.step
      BY <1>1, <3>1
    <3>3. n.authed = TRUE
      BY <1>1, <3>1
    <3>4. HttpServed(m) = n
      BY <2>6, <3>1
    <3>5. QED
      BY <1>1, <3>2, <3>3, <3>4
  <2>8. WebMore(k)
    BY <1>2, <1>3, <1>8 DEF ScriptLength
  <2>9. WebGoesOn(k, HttpServed(m)) /\ HttpServed(m).step = 0
    BY <1>1, <1>8, <2>7 DEF WebGoesOn
  <2>10. QED
    BY <1>1, <1>2, <2>2, <2>4, <2>6, <2>8, <2>9 DEF WebServes
<1>9. CASE k = 2 /\ scenario \in {"normal", "payload-too-large"} /\ ~Secret
  <2>1. Asks(k, HttpRequest("auth", FALSE, "client"), 200)
    BY <1>2, <1>9, HttpScriptIs
  <2>2. WebAnswer(k) = 403
    BY <2>1, <1>2, <1>9 DEF Asks, WebAnswer
  <2>3. m = HttpRequest("auth", FALSE, "client")
    BY <2>1 DEF Asks
  <2>4. m.path = "auth" /\ m.from = "client"
    BY <2>3 DEF HttpRequest
  <2>5. m.good = FALSE
    BY <2>3 DEF HttpRequest
  <2>6. HttpStatus(m) = 403 /\ ~WebMore(k)
    BY <1>2, <1>3, <1>9, <2>2, <2>4, <2>5 DEF HttpStatus
  <2>7. ~Fortunate
    BY <1>2, <1>9
  <2>8. QED
    BY <1>2, <2>2, <2>4, <2>6, <2>7 DEF WebServes
<1>10. CASE k = 3
  <2>1. scenario \in {"normal", "payload-too-large"} /\ Secret /\ ~WebMore(k)
    BY <1>2, <1>3, <1>10 DEF ScriptLength, HttpScenarios
  <2>2. CASE scenario = "normal"
    <3>1. Asks(k, HttpRequest("upload", TRUE, "client"), 201)
      BY <1>10, <2>2, HttpScriptIs
    <3>2. WebAnswer(k) = 201
      BY <3>1, <1>10, <2>2 DEF Asks, WebAnswer
    <3>3. m = HttpRequest("upload", TRUE, "client")
      BY <3>1 DEF Asks
    <3>4. m.path = "upload" /\ m.from = "client"
      BY <3>3 DEF HttpRequest
    <3>5. m.good = TRUE
      BY <3>3 DEF HttpRequest
    <3>6. HttpStatus(m) = 201 /\ HttpServed(m) = [mem EXCEPT !.step = 3]
      BY <1>0, <1>1, <1>10, <3>2, <3>4, <3>5 DEF HttpStatus, HttpServed
    <3>7. HttpServed(m).step = 3
      BY <1>1, <3>6
    <3>8. Fortunate
      BY <1>2, <2>1, <2>2
    <3>9. QED
      BY <1>1, <1>2, <2>1, <3>2, <3>4, <3>6, <3>7, <3>8 DEF WebServes
  <2>3. CASE scenario = "payload-too-large"
    <3>1. Asks(k, HttpRequest("upload", FALSE, "client"), 413)
      BY <1>10, <2>3, HttpScriptIs
    <3>2. WebAnswer(k) = 413
      BY <3>1, <1>10, <2>3 DEF Asks, WebAnswer
    <3>3. m = HttpRequest("upload", FALSE, "client")
      BY <3>1 DEF Asks
    <3>4. m.path = "upload" /\ m.from = "client"
      BY <3>3 DEF HttpRequest
    <3>5. m.good = FALSE
      BY <3>3 DEF HttpRequest
    <3>6. HttpStatus(m) = 413
      BY <1>0, <1>1, <1>10, <3>2, <3>4, <3>5 DEF HttpStatus
    <3>7. ~Fortunate
      BY <1>2, <2>3
    <3>8. QED
      BY <1>2, <2>1, <3>2, <3>4, <3>6, <3>7 DEF WebServes
  <2>4. QED
    BY <2>1, <2>2, <2>3
<1>11. k = 1 \/ (k = 2 /\ scenario \in {"bad-auth", "normal", "payload-too-large"}) \/ k = 3
  BY <1>3 DEF ScriptLength, HttpScenarios
<1>12. QED
  BY <1>5, <1>6, <1>7, <1>8, <1>9, <1>10, <1>11

LEMMA OauthServes ==
  ASSUME protocol = "oauth2", scenario \in OauthScenarios, WebCounts,
         NEW k \in 1..Len(Script), WebServedSoFar(k - 1), NEW m, m = Script[k].request
  PROVE  WebServes(k, m)
<1>. PICK code : code = IF scenario = "token-replay" THEN "AUTH_CODE_REPLAY_42" ELSE "AUTH_CODE_42"
  OBVIOUS
<1>0. /\ Len(Script) = ScriptLength /\ code # "none"
      /\ Asks(1, OauthRequest("authorize", "none", TRUE, "client"), 302)
      /\ Asks(2, OauthRequest("token", code, TRUE, "client"), 200)
      /\ scenario = "token-replay" => Asks(3, OauthRequest("token", code, TRUE, "client"), 400)
      /\ scenario # "token-replay" =>
           /\ Asks(3, OauthRequest("resource", "none", TRUE, "client"), 200)
           /\ Asks(4, OauthRequest("refresh", "none", TRUE, "client"), 200)
  BY OauthScriptIs
<1>1. /\ mem.step = k - 1 /\ LastStep = 4 /\ k \in 1..ScriptLength
      /\ Script[2].request.code = code
      /\ mem.last = IF k < 3 THEN "none" ELSE code
      /\ mem = [passwords |-> mem.passwords, asked |-> mem.asked, authed |-> mem.authed,
                last |-> mem.last, step |-> mem.step]
  <2>1. Script[2].request.code = code
    BY <1>0 DEF Asks, OauthRequest
  <2>2. k \in 1..ScriptLength /\ ScriptLength \in Nat
    BY <1>0, ScriptLengthIs
  <2>3. QED
    BY <2>1, <2>2 DEF WebServedSoFar, WebCounts, LastStep
<1>2. /\ WebStatus(m) = OauthStatus(m) /\ WebServed(m) = OauthServed(m)
      /\ Fortunate <=> scenario # "token-replay"
      /\ Admitted /\ WebResult(2) = ABORT
  BY WebFortunate DEF WebStatus, WebServed, WebFamily, Admitted, WebResult
<1>3. WebAnswer(k) = Script[k].status /\ (WebMore(k) <=> k < ScriptLength)
  BY <1>0, <1>2 DEF WebAnswer, WebMore
<1>4. ScriptLength = IF scenario = "token-replay" THEN 3 ELSE 4
  BY DEF ScriptLength
<1>. HIDE DEF WebAnswer, WebMore, WebServes, WebGoesOn
<1>6. CASE k = 1
  <2>1. Asks(k, OauthRequest("authorize", "none", TRUE, "client"), 302)
    BY <1>0, <1>6
  <2>2. WebAnswer(k) = 302
    BY <2>1, <1>3 DEF Asks
  <2>3. m = OauthRequest("authorize", "none", TRUE, "client")
    BY <2>1 DEF Asks
  <2>4. m.path = "authorize" /\ m.from = "client"
    BY <2>3 DEF OauthRequest
  <2>5. m.good = TRUE
    BY <2>3 DEF OauthRequest
  <2>6. OauthStatus(m) = 302 /\ OauthServed(m) = [mem EXCEPT !.step = 1]
    BY <2>2, <2>4, <2>5 DEF OauthStatus, OauthServed
  <2>7. OauthServed(m) = [passwords |-> mem.passwords, asked |-> mem.asked,
                          authed |-> mem.authed, last |-> mem.last, step |-> 1]
    BY <1>1, <2>6
  <2>8. WebGoesOn(k, OauthServed(m)) /\ OauthServed(m).step = 1 /\ WebMore(k)
    BY <1>1, <1>3, <1>4, <1>6, <2>7 DEF WebGoesOn
  <2>9. QED
    BY <1>1, <1>2, <2>2, <2>4, <2>6, <2>8 DEF WebServes
<1>7. CASE k = 2
  <2>1. Asks(k, OauthRequest("token", code, TRUE, "client"), 200)
    BY <1>0, <1>7
  <2>2. WebAnswer(k) = 200
    BY <2>1, <1>3 DEF Asks
  <2>3. m = OauthRequest("token", code, TRUE, "client")
    BY <2>1 DEF Asks
  <2>4. m.path = "token" /\ m.code = code /\ m.from = "client"
    BY <2>3 DEF OauthRequest
  <2>5. m.good = TRUE
    BY <2>3 DEF OauthRequest
  <2>6. OauthStatus(m) = 200 /\ OauthServed(m) = [mem EXCEPT !.step = 2, !.last = m.code]
    BY <1>0, <1>1, <1>7, <2>2, <2>4, <2>5 DEF OauthStatus, OauthServed
  <2>7. OauthServed(m) = [passwords |-> mem.passwords, asked |-> mem.asked,
                          authed |-> mem.authed, last |-> code, step |-> 2]
    BY Zenon, <1>1, <2>2, <2>4, <2>6
  <2>8. WebGoesOn(k, OauthServed(m)) /\ OauthServed(m).step = 2 /\ WebMore(k)
    BY <1>1, <1>3, <1>4, <1>7, <2>7 DEF WebGoesOn
  <2>9. QED
    BY <1>1, <1>2, <2>2, <2>4, <2>6, <2>8 DEF WebServes
<1>8. CASE k = 3 /\ scenario = "token-replay"
  <2>1. Asks(k, OauthRequest("token", code, TRUE, "client"), 400)
    BY <1>0, <1>8
  <2>2. WebAnswer(k) = 400
    BY <2>1, <1>3 DEF Asks
  <2>3. m = OauthRequest("token", code, TRUE, "client")
    BY <2>1 DEF Asks
  <2>4. m.path = "token" /\ m.code = code /\ m.from = "client"
    BY <2>3 DEF OauthRequest
  <2>5. m.good = TRUE
    BY <2>3 DEF OauthRequest
  <2>6. OauthStatus(m) = 400 /\ mem.step = 2 /\ ~WebMore(k)
    BY <1>1, <1>3, <1>4, <1>8, <2>2, <2>4, <2>5 DEF OauthStatus
  <2>7. QED
    BY <1>2, <1>8, <2>2, <2>4, <2>6 DEF WebServes
<1>9. CASE k = 3 /\ scenario # "token-replay"
  <2>1. Asks(k, OauthRequest("resource", "none", TRUE, "client"), 200)
    BY <1>0, <1>9
  <2>2. WebAnswer(k) = 200
    BY <2>1, <1>3 DEF Asks
  <2>3. m = OauthRequest("resource", "none", TRUE, "client")
    BY <2>1 DEF Asks
  <2>4. m.path = "resource" /\ m.from = "client"
    BY <2>3 DEF OauthRequest
  <2>5. m.good = TRUE
    BY <2>3 DEF OauthRequest
  <2>6. OauthStatus(m) = 200 /\ OauthServed(m) = [mem EXCEPT !.step = 3]
    BY <2>2, <2>4, <2>5 DEF OauthStatus, OauthServed
  <2>7. OauthServed(m) = [passwords |-> mem.passwords, asked |-> mem.asked,
                          authed |-> mem.authed, last |-> mem.last, step |-> 3]
    BY <1>1, <2>6
  <2>8. WebGoesOn(k, OauthServed(m)) /\ OauthServed(m).step = 3 /\ WebMore(k)
    BY <1>1, <1>3, <1>4, <1>9, <2>7 DEF WebGoesOn
  <2>9. QED
    BY <1>1, <1>2, <2>2, <2>4, <2>6, <2>8 DEF WebServes
<1>10. CASE k = 4 /\ scenario # "token-replay"
  <2>1. Asks(k, OauthRequest("refresh", "none", TRUE, "client"), 200)
    BY <1>0, <1>10
  <2>2. WebAnswer(k) = 200
    BY <2>1, <1>3 DEF Asks
  <2>3. m = OauthRequest("refresh", "none", TRUE, "client")
    BY <2>1 DEF Asks
  <2>4. m.path = "refresh" /\ m.from = "client"
    BY <2>3 DEF OauthRequest
  <2>5. OauthStatus(m) = 200 /\ OauthServed(m) = [mem EXCEPT !.step = 4]
    BY <2>2, <2>4 DEF OauthStatus, OauthServed
  <2>6. OauthServed(m).step = 4 /\ ~WebMore(k)
    BY <1>1, <1>3, <1>4, <1>10, <2>5
  <2>7. QED
    BY <1>1, <1>2, <1>10, <2>2, <2>4, <2>5, <2>6 DEF WebServes
<1>11. k = 1 \/ k = 2 \/ k = 3 \/ (k = 4 /\ scenario # "token-replay")
  BY <1>1, <1>4
<1>12. QED
  BY <1>6, <1>7, <1>8, <1>9, <1>10, <1>11
LEMMA WebServesEach ==
  ASSUME protocol \in WebFamily, WebScenario, protocol = "http-basic" => Secret \in BOOLEAN,
         WebCounts, NEW k \in 1..Len(Script), WebServedSoFar(k - 1), k = 3 => Admitted,
         NEW m, m = Script[k].request
  PROVE  WebServes(k, m)
BY HttpServes, OauthServes DEF WebScenario

\* When the client is done.
LEMMA WebEnds ==
  ASSUME protocol \in WebFamily, WebScenario, protocol = "http-basic" => Secret \in BOOLEAN,
         NEW k \in 1..Len(Script), k = 3 => Admitted, ~WebMore(k)
  PROVE  /\ WebAnswer(k) = Script[k].status => k = Len(Script) /\ (Fortunate <=> ScriptEndsOk)
         /\ WebAnswer(k) # Script[k].status => ~Fortunate
<1>1. CASE protocol = "http-basic"
  <2>1. /\ scenario \in HttpScenarios /\ Len(Script) = ScriptLength
        /\ scenario \in {"normal", "payload-too-large"} => Script[2].status = 200
    BY <1>1, HttpScriptIs DEF WebScenario, Asks
  <2>2. /\ Fortunate <=> scenario = "normal" /\ Secret
        /\ Admitted <=> (scenario \in {"normal", "payload-too-large"} => Secret)
        /\ ScriptEndsOk <=> scenario = "normal"
    BY <1>1, <2>1, WebFortunate DEF Admitted, ScriptEndsOk, HttpScenarios
  <2>3. CASE k = 2 /\ ~Admitted
    BY <2>1, <2>2, <2>3 DEF WebAnswer
  <2>4. CASE ~(k = 2 /\ ~Admitted)
    <3>1. k = ScriptLength /\ WebAnswer(k) = Script[k].status
      BY <2>1, <2>4 DEF WebMore, WebAnswer
    <3>2. scenario = "normal" => k = 3
      BY <1>1, <3>1 DEF ScriptLength
    <3>3. QED
      BY <2>1, <2>2, <3>1, <3>2
  <2>5. QED
    BY <2>3, <2>4
<1>2. CASE protocol = "oauth2"
  <2>1. scenario \in OauthScenarios /\ Admitted
    BY <1>2 DEF WebScenario, Admitted
  <2>2. Fortunate <=> ScriptEndsOk
    BY <1>2, <2>1, WebFortunate DEF ScriptEndsOk, OauthScenarios
  <2>3. Len(Script) \in Nat
    BY <1>2, <2>1, ScriptLengthIs
  <2>4. k = Len(Script) /\ WebAnswer(k) = Script[k].status
    BY <2>1, <2>3 DEF WebMore, WebAnswer
  <2>5. QED
    BY <2>2, <2>4
<1>3. QED
  BY <1>1, <1>2 DEF WebFamily

LEMMA WebFormulasStay ==
  ASSUME protocol \in WebFamily, WebScenario, SettingsStay, mem'.passwords = mem.passwords
  PROVE  /\ Script' = Script /\ (Admitted' <=> Admitted) /\ WebScenario' /\ Secret' = Secret
         /\ LastStep' = LastStep /\ protocol' = protocol
         /\ \A k : (WebMore(k)' <=> WebMore(k)) /\ WebAnswer(k)' = WebAnswer(k)
<1>1. protocol' = protocol /\ scenario' = scenario /\ Secret' = Secret
  BY DEF SettingsStay, Secret
<1>2. Script' = Script
  <2>1. OauthScript' = OauthScript
    BY <1>1 DEF OauthScript
  <2>2. HttpScript' = HttpScript
    BY <1>1 DEF HttpScript
  <2>3. QED
    BY <1>1, <2>1, <2>2 DEF Script
<1>3. Admitted' <=> Admitted
  BY <1>1 DEF Admitted
<1>4. WebScenario' /\ LastStep' = LastStep
  BY <1>1 DEF WebScenario, LastStep
<1>5. ASSUME NEW k
      PROVE  (WebMore(k)' <=> WebMore(k)) /\ WebAnswer(k)' = WebAnswer(k)
  BY <1>2, <1>3 DEF WebMore, WebAnswer
<1>6. QED
  BY <1>1, <1>2, <1>3, <1>4, <1>5

\* What the server keeps when it has served the first n requests.
LEMMA WebServedSoFarNext ==
  ASSUME protocol \in WebFamily, WebScenario, SettingsStay, NEW n
  PROVE  /\ /\ mem'.passwords = mem.passwords /\ mem'.authed = mem.authed
            /\ mem'.last = mem.last /\ mem'.step = mem.step
            => (WebServedSoFar(n)' <=> WebServedSoFar(n))
         /\ WebGoesOn(n, mem') => WebServedSoFar(n)'
<1>1. mem'.passwords = mem.passwords => Script' = Script /\ protocol' = protocol
  BY WebFormulasStay
<1>2. WebGoesOn(n, mem') => mem'.passwords = mem.passwords
  BY DEF WebGoesOn
<1>3. ASSUME WebGoesOn(n, mem')
      PROVE  WebServedSoFar(n)'
  <2>1. Script' = Script /\ protocol' = protocol
    BY <1>1, <1>2, <1>3
  <2>2. CASE protocol = "http-basic"
    BY <1>3, <2>1, <2>2 DEF WebGoesOn, WebServedSoFar
  <2>3. CASE protocol = "oauth2"
    BY <1>3, <2>1, <2>3 DEF WebGoesOn, WebServedSoFar
  <2>4. QED
    BY <2>2, <2>3 DEF WebFamily
<1>4. ASSUME mem'.passwords = mem.passwords, mem'.authed = mem.authed,
             mem'.last = mem.last, mem'.step = mem.step
      PROVE  WebServedSoFar(n)' <=> WebServedSoFar(n)
  <2>1. Script' = Script /\ protocol' = protocol
    BY <1>1, <1>4
  <2>2. QED
    BY <1>4, <2>1 DEF WebServedSoFar
<1>5. QED
  BY <1>3, <1>4

LEMMA WebServerRuns ==
  ASSUME faults = {}, stopped = {}, protocol \in WebFamily, SettingsStay, ReportedOnce, Pair(net),
         WebCounts, WebRun, WebServer
  PROVE  GoesWell("server") /\ WebRun' /\ Pair(net')
<1>1. Pair(at) /\ Pair(results) /\ WebScenario /\ (protocol = "http-basic" => Secret \in BOOLEAN)
  BY DEF WebRun, ReportedOnce
<1>2. /\ \A place : Goto("server", place) => at'.server = place /\ at'.client = at.client
      /\ \A printed : Finish("server", printed) => at'.server = "exit" /\ at'.client = at.client
  BY <1>1, Moves
<1>3. WebServerServes
  BY DEF WebServer, WebServerInterrupted
<1>4. at.server = "accept" /\ net.server # <<>> /\ stopped' = {}
  BY <1>3, CalmReceives DEF WebServerServes
<1>5. PICK k \in 1..Len(Script) :
        mem.asked = k /\ (k = 3 => Admitted) /\ WebAsking(k)
  BY <1>4 DEF WebRun, WebFirst, WebAnswered, WebLast, BothGone, Stage
<1>. PICK m : m = Script[k].request
  OBVIOUS
<1>6. /\ WebServedSoFar(k - 1) /\ at.client = "response" /\ net.client = <<>>
      /\ net.server = <<m>> /\ Head(net.server) = m
  <2>1. \A x : Head(<<x>>) = x
    OBVIOUS
  <2>2. QED
    BY <1>5, <2>1 DEF WebAsking, Stage
<1>7. WebServes(k, m)
  BY <1>1, <1>5, <1>6, WebServesEach
<1>8. m.from = "client" /\ WebStatus(m) = WebAnswer(k) /\ WebAnswer(k) \in Nat
  BY <1>7 DEF WebServes
<1>9. /\ Exchange("server", 1, <<WebAnswer(k)>>)
      /\ mem' = IF WebAnswer(k) >= 400 THEN mem ELSE WebServed(m)
      /\ IF WebAnswer(k) >= 400 \/ mem'.step = LastStep
         THEN Finish("server", WebResult(mem'.step)) ELSE Goto("server", "accept")
  BY <1>3, <1>4, <1>6, <1>8 DEF WebServerServes
<1>10. net' = [server |-> <<>>, client |-> <<WebAnswer(k)>>]
  BY <1>6, <1>9, OneForOne
<1>11. net'.server = <<>> /\ net'.client = <<WebAnswer(k)>> /\ Pair(net')
  BY <1>10 DEF Pair
<1>12. CASE WebMore(k)
  <2>1. WebAnswer(k) < 400 /\ WebServed(m).step # LastStep /\ WebGoesOn(k, WebServed(m))
    BY <1>7, <1>12 DEF WebServes
  <2>2. mem' = WebServed(m) /\ Goto("server", "accept")
    BY <1>8, <1>9, <2>1
  <2>3. WebGoesOn(k, mem')
    BY <2>1, <2>2
  <2>4. mem'.passwords = mem.passwords /\ mem'.asked = k
    BY <1>5, <2>3 DEF WebGoesOn
  <2>5. WebServedSoFar(k)'
    BY <1>1, <2>3, WebServedSoFarNext
  <2>6. /\ Script' = Script /\ (Admitted' <=> Admitted) /\ WebScenario' /\ Secret' = Secret
        /\ protocol' = protocol /\ (WebMore(k)' <=> WebMore(k)) /\ WebAnswer(k)' = WebAnswer(k)
    BY <1>1, <2>4, WebFormulasStay
  <2>7. WebAnswered(k)'
    <3>1. at'.server = "accept" /\ at'.client = "response"
      BY <1>2, <1>6, <2>2
    <3>2. QED
      BY <1>11, <1>12, <2>5, <2>6, <3>1 DEF WebAnswered, Stage
  <2>8. WebRun'
    BY <1>1, <1>5, <2>4, <2>6, <2>7 DEF WebRun
  <2>9. QED
    BY <1>11, <2>2, <2>8 DEF GoesWell
<1>13. CASE ~WebMore(k)
  <2>1. \/ WebAnswer(k) >= 400 /\ WebResult(mem.step) = IF Fortunate THEN OK ELSE ABORT
        \/ /\ WebAnswer(k) < 400 /\ Fortunate /\ WebServed(m).step = LastStep
           /\ WebServed(m).passwords = mem.passwords /\ WebServed(m).asked = mem.asked
    BY <1>7, <1>13 DEF WebServes
  <2>2. LastStep \in {3, 4} /\ WebResult(LastStep) = OK
    BY DEF LastStep, WebResult
  <2>3. /\ Finish("server", IF Fortunate THEN OK ELSE ABORT)
        /\ mem'.passwords = mem.passwords /\ mem'.asked = k
    <3>1. CASE WebAnswer(k) >= 400
      <4>1. mem' = mem
        BY <1>8, <1>9, <3>1
      <4>2. Finish("server", WebResult(mem'.step))
        BY <1>8, <1>9, <3>1
      <4>3. WebResult(mem.step) = IF Fortunate THEN OK ELSE ABORT
        BY <1>8, <2>1, <3>1
      <4>4. QED
        BY <1>5, <4>1, <4>2, <4>3
    <3>2. CASE WebAnswer(k) < 400
      <4>1. mem' = WebServed(m)
        BY <1>8, <1>9, <3>2
      <4>2. /\ Fortunate /\ mem'.step = LastStep
            /\ mem'.passwords = mem.passwords /\ mem'.asked = mem.asked
        BY <1>8, <2>1, <3>2, <4>1
      <4>3. Finish("server", OK)
        BY <1>9, <2>2, <4>2
      <4>4. QED
        BY <1>5, <4>2, <4>3
    <3>3. QED
      BY <1>8, <3>1, <3>2
  <2>4. /\ Script' = Script /\ (Admitted' <=> Admitted) /\ WebScenario' /\ Secret' = Secret
        /\ protocol' = protocol /\ (WebMore(k)' <=> WebMore(k)) /\ WebAnswer(k)' = WebAnswer(k)
    BY <1>1, <2>3, WebFormulasStay
  <2>5. WebLast(k)'
    <3>1. at'.server = "exit" /\ at'.client = "response"
      BY <1>2, <1>6, <2>3
    <3>2. QED
      BY <1>11, <1>13, <2>4, <3>1 DEF WebLast, Stage
  <2>6. WebRun'
    BY <1>1, <1>5, <2>3, <2>4, <2>5 DEF WebRun
  <2>7. QED
    BY <1>11, <2>3, <2>6 DEF GoesWell
<1>14. QED
  BY <1>12, <1>13

LEMMA WebClientRuns ==
  ASSUME faults = {}, protocol \in WebFamily, SettingsStay, ReportedOnce, Pair(net),
         WebCounts, WebRun, WebClient
  PROVE  GoesWell("client") /\ WebRun' /\ Pair(net')
<1>1. /\ Pair(at) /\ Pair(results) /\ WebScenario /\ (protocol = "http-basic" => Secret \in BOOLEAN)
      /\ mem = [passwords |-> mem.passwords, asked |-> mem.asked, authed |-> mem.authed,
                last |-> mem.last, step |-> mem.step]
      /\ Len(Script) \in Nat \ {0}
  BY ScriptLengthIs DEF WebRun, WebScenario, ReportedOnce, WebCounts
<1>2. /\ \A place : Goto("client", place) => at'.client = place /\ at'.server = at.server
      /\ \A printed : Finish("client", printed) => at'.client = "exit" /\ at'.server = at.server
  BY <1>1, Moves
<1>3. ASSUME NEW n, mem' = [mem EXCEPT !.asked = n]
      PROVE  /\ mem'.passwords = mem.passwords /\ mem'.authed = mem.authed
             /\ mem'.last = mem.last /\ mem'.step = mem.step /\ mem'.asked = n
  BY <1>1, <1>3
<1>4. CASE WebClientStart
  <2>1. /\ at.client = "start" /\ Send("client", <<Script[1].request>>)
        /\ mem' = [mem EXCEPT !.asked = 1] /\ Goto("client", "response")
    BY <1>4 DEF WebClientStart
  <2>2. WebFirst
    BY <2>1 DEF WebRun, WebFirst, WebAsking, WebAnswered, WebLast, BothGone, Stage
  <2>3. net' = [server |-> <<Script[1].request>>, client |-> <<>>]
    BY <2>1, <2>2, OneForOne DEF WebFirst, Stage
  <2>4. net'.server = <<Script[1].request>> /\ net'.client = <<>> /\ Pair(net')
    BY <2>3 DEF Pair
  <2>5. mem'.asked = 1 /\ mem'.passwords = mem.passwords /\ WebServedSoFar(0)'
    BY <1>1, <1>3, <2>1, <2>2, WebServedSoFarNext DEF WebFirst
  <2>6. Script' = Script /\ WebScenario' /\ Secret' = Secret /\ protocol' = protocol
    BY <1>1, <2>5, WebFormulasStay
  <2>7. WebAsking(1)'
    <3>1. at'.server = "accept" /\ at'.client = "response"
      BY <1>2, <2>1, <2>2 DEF WebFirst, Stage
    <3>2. 1 - 1 = 0
      OBVIOUS
    <3>3. QED
      BY <2>4, <2>5, <2>6, <3>1, <3>2 DEF WebAsking, Stage
  <2>8. WebRun'
    BY <1>1, <2>5, <2>6, <2>7 DEF WebRun
  <2>9. QED
    BY <2>1, <2>4, <2>8 DEF GoesWell
<1>5. CASE WebClientResponse
  <2>1. at.client = "response" /\ net.client # <<>>
    BY <1>5 DEF WebClientResponse
  <2>2. PICK k \in 1..Len(Script) :
          mem.asked = k /\ (k = 3 => Admitted) /\ (WebAnswered(k) \/ WebLast(k))
    BY <2>1 DEF WebRun, WebFirst, WebAsking, BothGone, Stage
  <2>3. net.client = <<WebAnswer(k)>> /\ net.server = <<>> /\ Head(net.client) = WebAnswer(k)
    <3>1. \A x : Head(<<x>>) = x
      OBVIOUS
    <3>2. QED
      BY <2>2, <3>1 DEF WebAnswered, WebLast, Stage
  <2>4. \/ /\ WebAnswer(k) = Script[k].status /\ k < Len(Script)
           /\ Exchange("client", 1, <<Script[k + 1].request>>)
           /\ mem' = [mem EXCEPT !.asked = k + 1] /\ Goto("client", "response")
        \/ /\ WebAnswer(k) = Script[k].status /\ k = Len(Script)
           /\ Exchange("client", 1, <<>>) /\ mem' = mem
           /\ Finish("client", IF ScriptEndsOk THEN OK ELSE ABORT)
        \/ /\ WebAnswer(k) # Script[k].status
           /\ Exchange("client", 1, <<>>) /\ mem' = mem /\ Finish("client", ABORT)
    BY <1>5, <2>2, <2>3 DEF WebClientResponse
  <2>5. CASE WebMore(k)
    <3>1. k < Len(Script) /\ ~(k = 2 /\ ~Admitted) /\ WebAnswer(k) = Script[k].status
      BY <2>5 DEF WebMore, WebAnswer
    <3>2. /\ Exchange("client", 1, <<Script[k + 1].request>>)
          /\ mem' = [mem EXCEPT !.asked = k + 1] /\ Goto("client", "response")
      BY <2>4, <3>1
    <3>3. net' = [server |-> <<Script[k + 1].request>>, client |-> <<>>]
      BY <2>3, <3>2, OneForOne
    <3>4. net'.server = <<Script[k + 1].request>> /\ net'.client = <<>> /\ Pair(net')
      BY <3>3 DEF Pair
    <3>5. WebServedSoFar(k) /\ at.server = "accept"
      BY <2>2, <2>5 DEF WebAnswered, WebLast, Stage
    <3>6. mem'.asked = k + 1 /\ mem'.passwords = mem.passwords /\ WebServedSoFar(k)'
      BY <1>1, <1>3, <3>2, <3>5, WebServedSoFarNext
    <3>7. /\ Script' = Script /\ (Admitted' <=> Admitted) /\ WebScenario' /\ Secret' = Secret
          /\ protocol' = protocol
      BY <1>1, <3>6, WebFormulasStay
    <3>8. WebAsking(k + 1)'
      <4>1. at'.server = "accept" /\ at'.client = "response"
        BY <1>2, <3>2, <3>5
      <4>2. (k + 1) - 1 = k
        OBVIOUS
      <4>3. QED
        BY <3>4, <3>6, <3>7, <4>1, <4>2 DEF WebAsking, Stage
    <3>9. k + 1 \in 1..Len(Script) /\ (k + 1 = 3 => Admitted)
      BY <1>1, <3>1
    <3>10. WebRun'
      BY <1>1, <3>6, <3>7, <3>8, <3>9 DEF WebRun
    <3>11. QED
      BY <3>2, <3>4, <3>10 DEF GoesWell
  <2>6. CASE ~WebMore(k)
    <3>1. at.server = "exit"
      BY <2>2, <2>6 DEF WebAnswered, WebLast, Stage
    <3>2. /\ WebAnswer(k) = Script[k].status => k = Len(Script) /\ (Fortunate <=> ScriptEndsOk)
          /\ WebAnswer(k) # Script[k].status => ~Fortunate
      BY <1>1, <2>2, <2>6, WebEnds
    <3>3. /\ Exchange("client", 1, <<>>) /\ mem' = mem
          /\ Finish("client", IF Fortunate THEN OK ELSE ABORT)
      BY <1>1, <2>4, <3>2
    <3>4. Pair(net')
      BY <3>3, ExchangeIs DEF Pair
    <3>5. BothGone'
      BY <1>2, <3>1, <3>3 DEF BothGone
    <3>6. WebScenario' /\ Secret' = Secret /\ protocol' = protocol
      BY <1>1, <3>3, WebFormulasStay
    <3>7. WebRun'
      BY <1>1, <3>5, <3>6 DEF WebRun
    <3>8. QED
      BY <3>3, <3>4, <3>7 DEF GoesWell
  <2>7. QED
    BY <2>5, <2>6
<1>6. ~WebClientFails
  <2>1. ASSUME at.client = "response", at.server = "exit", net.client = <<>>
        PROVE  FALSE
    BY <2>1 DEF WebRun, WebFirst, WebAsking, WebAnswered, WebLast, BothGone, Stage
  <2>2. QED
    BY <2>1, CalmReceives DEF WebClientFails
<1>7. QED
  BY <1>4, <1>5, <1>6 DEF WebClient

-----------------------------------------------------------------------------
(***************************************************************************)
(* WebSocketDemo, undisturbed.                                             *)
(***************************************************************************)
WsWelcome == scenario # "bad-upgrade" /\ Secret

\* Behind its first o messages a channel holds TEXT, or TEXT and then a PING.
WsTexts(channel, o) ==
  Len(channel) >= o /\ \A i \in o + 1..Len(channel) : channel[i].opcode = "TEXT"
WsPinged(channel, o) ==
  /\ Len(channel) > o /\ channel[Len(channel)].opcode = "PING"
  /\ \A i \in o + 1..Len(channel) : i < Len(channel) => channel[i].opcode = "TEXT"

\* The client has o messages to read before the frames.
WsReads(o) ==
  /\ net.server = <<>>
  /\ \/ o = 1 /\ at.client = "upgraded" /\ net.client[1] = WsFrame("101")
     \/ o = 0 /\ at.client = "frames"

WsUpgrading ==
  \/ Stage("upgrade", "start", <<>>, <<>>)
  \/ \E good \in BOOLEAN :
       (good <=> WsWelcome) /\ Stage("upgrade", "upgraded", <<Upgrade(good)>>, <<>>)
WsTurnedAway == ~WsWelcome /\ Stage("exit", "upgraded", <<>>, <<WsFrame("400")>>)
WsTextDue ==
  Stage("text", "upgraded", <<>>, <<WsFrame("101")>>) \/ Stage("text", "frames", <<>>, <<>>)
WsPingSent ==
  /\ at.server = "pong" /\ scenario # "unexpected-close"
  /\ \E o \in {0, 1} : WsReads(o) /\ WsPinged(net.client, o)
WsClosedEarly ==
  /\ at.server = "exit" /\ scenario = "unexpected-close"
  /\ \E o \in {0, 1} : WsReads(o) /\ WsTexts(net.client, o)
WsUnanswered ==
  /\ scenario = "ping-timeout"
  /\ Stage("pong", "frames", <<>>, <<>>) \/ Stage("exit", "frames", <<>>, <<>>)
WsClosing ==
  /\ scenario = "normal"
  /\ \/ Stage("pong", "frames", <<WsFrame("PONG"), WsFrame("TEXT")>>, <<>>)
     \/ Stage("exit", "frames", <<WsFrame("TEXT")>>, <<WsFrame("CLOSE")>>)
WsRun ==
  /\ scenario \in WsScenarios
  /\ \/ WsUpgrading \/ WsTurnedAway \/ BothGone
     \/ WsWelcome /\ (WsTextDue \/ WsPingSent \/ WsClosedEarly \/ WsUnanswered \/ WsClosing)

LEMMA WsFortunate ==
  protocol = "websocket-basic" => (Fortunate <=> scenario = "normal" /\ Secret)
BY DEF Fortunate, LetIn, TcpFamily, ExpectedOk, Secret

LEMMA WsSent ==
  ASSUME content \in Seq(Data), NEW old \in Seq(WsMessages), NEW new \in Seq(WsMessages)
  PROVE  /\ Grows(old, new, WsText) => WsTexts(new, Len(old))
         /\ Grows(old, new, Append(WsText, WsFrame("PING"))) => WsPinged(new, Len(old))
         /\ \A msgs : Grows(old, new, msgs) /\ Len(old) = 1 => new[1] = old[1]
<1>. PICK n : n = Len(old)
  OBVIOUS
<1>. PICK text : text = WsText
  OBVIOUS
<1>1. /\ text \in Seq(WsMessages) /\ Len(text) \in Nat /\ n \in Nat /\ Len(new) \in Nat
      /\ \A k \in 1..Len(text) : text[k].opcode = "TEXT"
  <2>1. \A k \in 1..Len(text) : text[k] = TextFrame(content[k]) /\ content[k] \in Data
    BY TextIs
  <2>2. QED
    BY <2>1, TextIs, WsMessagesAre
<1>2. PICK ping : ping = WsFrame("PING")
  OBVIOUS
<1>3. ping \in WsMessages /\ ping.opcode = "PING"
  BY <1>2, WsMessagesAre
<1>4. PICK more : more = Append(text, ping)
  OBVIOUS
<1>5. /\ more \in Seq(WsMessages) /\ Len(more) = Len(text) + 1 /\ more[Len(text) + 1] = ping
      /\ \A k \in 1..Len(text) : more[k] = text[k]
  BY <1>1, <1>3, <1>4, AppendProperties
<1>6. ASSUME Grows(old, new, text)
      PROVE  WsTexts(new, n)
  <2>1. Len(new) = n + Len(text) /\ \A i \in 1..Len(text) : new[n + i] = text[i]
    BY <1>6 DEF Grows
  <2>2. ASSUME NEW i \in n + 1..Len(new)
        PROVE  new[i].opcode = "TEXT"
    <3>1. i - n \in 1..Len(text) /\ n + (i - n) = i
      BY <1>1, <2>1
    <3>2. QED
      BY Zenon, <1>1, <2>1, <3>1
  <2>3. QED
    BY <1>1, <2>1, <2>2 DEF WsTexts
<1>7. ASSUME Grows(old, new, more)
      PROVE  WsPinged(new, n)
  <2>1. Len(new) = n + Len(text) + 1 /\ \A i \in 1..Len(more) : new[n + i] = more[i]
    BY <1>1, <1>5, <1>7 DEF Grows
  <2>2. ASSUME NEW i \in n + 1..Len(new), i < Len(new)
        PROVE  new[i].opcode = "TEXT"
    <3>1. i - n \in 1..Len(text) /\ i - n \in 1..Len(more) /\ n + (i - n) = i
      BY <1>1, <1>5, <2>1, <2>2
    <3>2. new[i] = more[i - n] /\ more[i - n] = text[i - n]
      BY <1>5, <2>1, <3>1
    <3>3. QED
      BY <1>1, <3>1, <3>2
  <2>3. new[Len(new)] = ping
    <3>1. Len(text) + 1 \in 1..Len(more) /\ n + (Len(text) + 1) = Len(new)
      BY <1>1, <1>5, <2>1
    <3>2. QED
      BY <1>5, <2>1, <3>1
  <2>4. Len(new) > n
    BY <1>1, <2>1
  <2>5. QED
    BY <1>3, <2>2, <2>3, <2>4 DEF WsPinged
<1>8. ASSUME NEW msgs, Grows(old, new, msgs), Len(old) = 1
      PROVE  new[1] = old[1]
  BY <1>8 DEF Grows
<1>9. QED
  BY <1>2, <1>4, <1>6, <1>7, <1>8

LEMMA WsTaken ==
  ASSUME NEW old \in Seq(WsMessages), NEW new \in Seq(WsMessages), Shrinks(old, new)
  PROVE  /\ WsTexts(old, 1) => WsTexts(new, 0)
         /\ WsPinged(old, 1) => WsPinged(new, 0)
         /\ WsTexts(old, 0) => old[1].opcode = "TEXT" /\ WsTexts(new, 0)
         /\ WsPinged(old, 0) => \/ old[1].opcode = "TEXT" /\ WsPinged(new, 0)
                                \/ old[1].opcode = "PING" /\ new = <<>>
<1>1. /\ Len(new) \in Nat /\ Len(old) = Len(new) + 1
      /\ \A i \in 1..Len(new) : new[i] = old[i + 1] /\ i + 1 \in 2..Len(old)
  BY DEF Shrinks
<1>2. ASSUME \A i \in 2..Len(old) : old[i].opcode = "TEXT"
      PROVE  WsTexts(new, 0)
  BY <1>1, <1>2 DEF WsTexts
<1>3. ASSUME Len(old) > 1, old[Len(old)].opcode = "PING",
             \A i \in 2..Len(old) : i < Len(old) => old[i].opcode = "TEXT"
      PROVE  WsPinged(new, 0)
  <2>1. Len(new) \in 1..Len(new) /\ new[Len(new)] = old[Len(old)]
    BY <1>1, <1>3
  <2>2. ASSUME NEW i \in 0 + 1..Len(new), i < Len(new)
        PROVE  new[i].opcode = "TEXT"
    <3>1. i \in 1..Len(new) /\ i + 1 \in 2..Len(old) /\ i + 1 < Len(old)
      BY <1>1, <2>2
    <3>2. QED
      BY <1>1, <1>3, <3>1
  <2>3. QED
    BY <1>1, <1>3, <2>1, <2>2 DEF WsPinged
<1>4. WsTexts(old, 1) => WsTexts(new, 0)
  BY <1>2 DEF WsTexts
<1>5. WsPinged(old, 1) => WsPinged(new, 0)
  BY <1>1, <1>3 DEF WsPinged
<1>6. WsTexts(old, 0) => old[1].opcode = "TEXT" /\ WsTexts(new, 0)
  BY <1>1, <1>2 DEF WsTexts
<1>7. ASSUME WsPinged(old, 0)
      PROVE  \/ old[1].opcode = "TEXT" /\ WsPinged(new, 0)
             \/ old[1].opcode = "PING" /\ new = <<>>
  <2>1. CASE Len(old) = 1
    <3>1. Len(new) = 0
      BY <1>1, <2>1
    <3>2. QED
      BY <1>7, <2>1, <3>1, EmptySeq DEF WsPinged
  <2>2. CASE Len(old) > 1
    BY <1>1, <1>3, <1>7, <2>2 DEF WsPinged
  <2>3. QED
    BY <1>1, <2>1, <2>2
<1>8. QED
  BY <1>4, <1>5, <1>6, <1>7

\* Without "merge" a receive returns one message.
LEMMA CalmReceivesOne ==
  ASSUME faults = {}, NEW S, Channels(S), ReceiveOne("client", <<>>)
  PROVE  net.client # <<>> /\ Exchange("client", 1, <<>>)
<1>1. Other("client") = "server" /\ 1 + 1 = 2
  BY OtherIs
<1>2. /\ 1 \in DOMAIN net.client
      /\ net' = [net EXCEPT !["client"] = SubSeq(net.client, 2, Len(net.client)),
                            !["server"] = net.server \o <<>>]
  BY <1>1 DEF ReceiveOne
<1>3. net.client \in Seq(S) /\ net.client # <<>>
  BY <1>2 DEF Channels
<1>4. RemoveAt(net.client, 1) = SubSeq(net.client, 2, Len(net.client))
  BY <1>3, FirstRemoved
<1>5. net' = [net EXCEPT !["client"] = RemoveAt(net.client, 1), !["server"] = net.server \o <<>>]
  BY <1>2, <1>4
<1>6. QED
  BY <1>1, <1>3, <1>5 DEF Exchange

LEMMA WsServerRuns ==
  ASSUME faults = {}, protocol = "websocket-basic", SettingsStay, ReportedOnce, WsInv, WsRun,
         WsServer
  PROVE  GoesWell("server") /\ WsRun' /\ Pair(net')
<1>1. /\ Pair(at) /\ Pair(results) /\ Channels(WsMessages) /\ Pair(net) /\ content \in Seq(Data)
      /\ Secret \in BOOLEAN /\ scenario \in WsScenarios
      /\ net.server \in Seq(WsMessages) /\ net.client \in Seq(WsMessages)
  BY SecretIs DEF WsInv, WsParts, WsShape, WsSecret, ReportedOnce, Channels, WsRun
<1>2. /\ mem' = mem /\ scenario' = scenario /\ Secret' = Secret /\ (WsWelcome' <=> WsWelcome)
      /\ Fortunate <=> scenario = "normal" /\ Secret
  BY WsFortunate DEF WsServer, WsServerUpgrade, WsServerSendsText, WsServerSendBreaks,
     WsServerPong, WsServerFails, SettingsStay, Secret, WsWelcome
<1>3. /\ \A place : Goto("server", place) => at'.server = place /\ at'.client = at.client
      /\ \A printed : Finish("server", printed) => at'.server = "exit" /\ at'.client = at.client
  BY <1>1, Moves
<1>4. \/ WsUpgrading \/ WsTurnedAway \/ BothGone
      \/ WsWelcome /\ (WsTextDue \/ WsPingSent \/ WsClosedEarly \/ WsUnanswered \/ WsClosing)
  BY DEF WsRun
<1>5. /\ \A x : <<x>> # <<>> /\ Head(<<x>>) = x
      /\ \A x, y : <<x, y>> # <<>>
  BY ShortChannels
<1>6. /\ WsFrame("101") \in WsMessages /\ WsFrame("400") \in WsMessages
      /\ WsFrame("CLOSE") \in WsMessages
  BY WsMessagesAre
<1>7. CASE WsServerUpgrade
  <2>1. /\ at.server = "upgrade" /\ net.server # <<>>
        /\ \/ Head(net.server).good
              /\ Exchange("server", 1, <<WsFrame("101")>>) /\ Goto("server", "text")
           \/ ~Head(net.server).good
              /\ Exchange("server", 1, <<WsFrame("400")>>) /\ Finish("server", ABORT)
    BY <1>7 DEF WsServerUpgrade
  <2>2. PICK good \in BOOLEAN :
          (good <=> WsWelcome) /\ Stage("upgrade", "upgraded", <<Upgrade(good)>>, <<>>)
    BY <1>4, <2>1 DEF WsUpgrading, WsTurnedAway, BothGone, WsTextDue, WsPingSent, WsClosedEarly,
       WsUnanswered, WsClosing, Stage
  <2>3. Head(net.server) = Upgrade(good) /\ Upgrade(good).good = good
    BY <1>5, <2>2, WsMessagesAre DEF Stage
  <2>4. CASE WsWelcome
    <3>1. Exchange("server", 1, <<WsFrame("101")>>) /\ Goto("server", "text")
      BY <2>1, <2>2, <2>3, <2>4
    <3>2. net' = [server |-> <<>>, client |-> <<WsFrame("101")>>]
      BY <1>1, <2>2, <3>1, OneForOne DEF Stage
    <3>3. Stage("text", "upgraded", <<>>, <<WsFrame("101")>>)'
      BY <1>3, <2>2, <3>1, <3>2 DEF Stage
    <3>4. WsRun'
      BY <1>1, <1>2, <2>4, <3>3 DEF WsRun, WsTextDue
    <3>5. QED
      BY <3>1, <3>2, <3>4 DEF GoesWell, Pair
  <2>5. CASE ~WsWelcome
    <3>1. Exchange("server", 1, <<WsFrame("400")>>) /\ Finish("server", ABORT)
      BY <2>1, <2>2, <2>3, <2>5
    <3>2. net' = [server |-> <<>>, client |-> <<WsFrame("400")>>]
      BY <1>1, <2>2, <3>1, OneForOne DEF Stage
    <3>3. Stage("exit", "upgraded", <<>>, <<WsFrame("400")>>)'
      BY <1>3, <2>2, <3>1, <3>2 DEF Stage
    <3>4. WsRun'
      BY <1>1, <1>2, <2>5, <3>3 DEF WsRun, WsTurnedAway
    <3>5. ~Fortunate
      BY <1>2, <2>5 DEF WsWelcome
    <3>6. QED
      BY <3>1, <3>2, <3>4, <3>5 DEF GoesWell, Pair
  <2>6. QED
    BY <2>4, <2>5
<1>8. CASE WsServerSendsText
  <2>1. /\ at.server = "text"
        /\ \/ scenario = "unexpected-close"
              /\ Send("server", WsText) /\ Finish("server", ABORT)
           \/ scenario # "unexpected-close"
              /\ Send("server", Append(WsText, WsFrame("PING"))) /\ Goto("server", "pong")
    BY <1>8 DEF WsServerSendsText
  <2>2. WsWelcome /\ WsTextDue
    BY <1>4, <2>1 DEF WsUpgrading, WsTurnedAway, BothGone, WsPingSent, WsClosedEarly,
       WsUnanswered, WsClosing, Stage
  <2>3. PICK o \in {0, 1} : WsReads(o) /\ Len(net.client) = o
    <3>1. CASE Stage("text", "upgraded", <<>>, <<WsFrame("101")>>)
      <4>1. net.client[1] = WsFrame("101") /\ Len(net.client) = 1
        BY <3>1 DEF Stage
      <4>2. QED
        BY <3>1, <4>1 DEF WsReads, Stage
    <3>2. CASE Stage("text", "frames", <<>>, <<>>)
      BY <3>2 DEF WsReads, Stage
    <3>3. QED
      BY <2>2, <3>1, <3>2 DEF WsTextDue
  <2>4. ASSUME NEW msgs, IsText(msgs), Send("server", msgs), at'.client = at.client
        PROVE  /\ Pair(net') /\ net'.client \in Seq(WsMessages)
               /\ Grows(net.client, net'.client, msgs) /\ WsReads(o)'
    <3>1. /\ Channels(WsMessages)' /\ net'.server = net.server
          /\ Grows(net.client, net'.client, msgs)
      BY <1>1, <2>4, ServerSends DEF IsText
    <3>2. Pair(net') /\ net'.client \in Seq(WsMessages)
      BY <3>1 DEF Channels
    <3>3. o = 1 => net'.client[1] = net.client[1]
      BY <1>1, <2>3, <3>1, <3>2, WsSent
    <3>4. QED
      BY <2>3, <2>4, <3>1, <3>2, <3>3 DEF WsReads
  <2>5. CASE scenario = "unexpected-close"
    <3>1. Send("server", WsText) /\ Finish("server", ABORT)
      BY <2>1, <2>5
    <3>2. at'.server = "exit" /\ at'.client = at.client
      BY <1>3, <3>1
    <3>3. /\ Pair(net') /\ net'.client \in Seq(WsMessages)
          /\ Grows(net.client, net'.client, WsText) /\ WsReads(o)'
      BY <1>1, <2>4, <3>1, <3>2, TextsAre
    <3>4. WsTexts(net'.client, o)
      BY <1>1, <2>3, <3>3, WsSent
    <3>5. WsClosedEarly'
      BY <1>2, <2>5, <3>2, <3>3, <3>4 DEF WsClosedEarly, WsTexts
    <3>6. WsRun'
      BY <1>1, <1>2, <2>2, <3>5 DEF WsRun
    <3>7. QED
      BY <1>2, <2>5, <3>1, <3>3, <3>6 DEF GoesWell
  <2>6. CASE scenario # "unexpected-close"
    <3>1. Send("server", Append(WsText, WsFrame("PING"))) /\ Goto("server", "pong")
      BY <2>1, <2>6
    <3>2. at'.server = "pong" /\ at'.client = at.client
      BY <1>3, <3>1
    <3>3. /\ Pair(net') /\ net'.client \in Seq(WsMessages)
          /\ Grows(net.client, net'.client, Append(WsText, WsFrame("PING"))) /\ WsReads(o)'
      BY <1>1, <2>4, <3>1, <3>2, TextsAre
    <3>4. WsPinged(net'.client, o)
      BY <1>1, <2>3, <3>3, WsSent
    <3>5. WsPingSent'
      BY <1>2, <2>6, <3>2, <3>3, <3>4 DEF WsPingSent, WsPinged
    <3>6. WsRun'
      BY <1>1, <1>2, <2>2, <3>5 DEF WsRun
    <3>7. QED
      BY <3>1, <3>3, <3>6 DEF GoesWell
  <2>7. QED
    BY <2>5, <2>6
<1>9. ~WsServerSendBreaks
  BY <1>4, OtherIs DEF WsServerSendBreaks, SendBreaks, Ended, WsUpgrading, WsTurnedAway, BothGone,
     WsTextDue, WsPingSent, WsClosedEarly, WsUnanswered, WsClosing, Stage
<1>10. CASE WsServerPong
  <2>1. at.server = "pong" /\ net.server # <<>>
    BY <1>10 DEF WsServerPong
  <2>2. /\ scenario = "normal" /\ WsWelcome
        /\ Stage("pong", "frames", <<WsFrame("PONG"), WsFrame("TEXT")>>, <<>>)
    BY <1>4, <2>1 DEF WsUpgrading, WsTurnedAway, BothGone, WsTextDue, WsPingSent, WsReads,
       WsClosedEarly, WsUnanswered, WsClosing, Stage
  <2>3. Exchange("server", 1, <<WsFrame("CLOSE")>>) /\ Finish("server", OK)
    BY <1>10, <2>2, OtherIs DEF WsServerPong, SendBreaks, Ended, Stage
  <2>4. net' = [server |-> RemoveAt(net.server, 1), client |-> net.client \o <<WsFrame("CLOSE")>>]
    BY <1>1, <2>3, ExchangeIs
  <2>5. net' = [server |-> <<WsFrame("TEXT")>>, client |-> <<WsFrame("CLOSE")>>]
    BY <2>2, <2>4, ShortRemoved, ShortChannels DEF Stage
  <2>6. Stage("exit", "frames", <<WsFrame("TEXT")>>, <<WsFrame("CLOSE")>>)'
    BY <1>3, <2>2, <2>3, <2>5 DEF Stage
  <2>7. WsRun'
    BY <1>1, <1>2, <2>2, <2>6 DEF WsRun, WsClosing
  <2>8. Fortunate
    BY <1>2, <2>2 DEF WsWelcome
  <2>9. QED
    BY <2>3, <2>5, <2>7, <2>8 DEF GoesWell, Pair
<1>11. CASE WsServerFails
  <2>1. /\ at.server \in {"upgrade", "pong"} /\ Finish("server", ABORT) /\ net' = net
        /\ \/ at.client = "exit"
           \/ at.server = "pong" /\ net.server = <<>> /\ net.client = <<>>
    BY <1>1, <1>11, CalmReceives DEF WsServerFails
  <2>2. WsPingSent => net.client # <<>>
    BY <1>1, EmptySeq DEF WsPingSent, WsPinged
  <2>3. scenario = "ping-timeout" /\ WsWelcome /\ Stage("pong", "frames", <<>>, <<>>)
    BY <1>4, <1>5, <2>1, <2>2 DEF WsUpgrading, WsTurnedAway, BothGone, WsTextDue, WsPingSent,
       WsReads, WsClosedEarly, WsUnanswered, WsClosing, Stage
  <2>4. Stage("exit", "frames", <<>>, <<>>)'
    BY <1>3, <2>1, <2>3 DEF Stage
  <2>5. WsRun'
    BY <1>1, <1>2, <2>3, <2>4 DEF WsRun, WsUnanswered
  <2>6. QED
    BY <1>1, <1>2, <2>1, <2>3, <2>5 DEF GoesWell
<1>12. QED
  BY <1>7, <1>8, <1>9, <1>10, <1>11 DEF WsServer

LEMMA WsClientRuns ==
  ASSUME faults = {}, stopped = {}, protocol = "websocket-basic", SettingsStay, ReportedOnce,
         WsInv, WsRun, WsClient
  PROVE  GoesWell("client") /\ WsRun' /\ Pair(net')
<1>1. /\ Pair(at) /\ Pair(results) /\ Channels(WsMessages) /\ Pair(net) /\ content \in Seq(Data)
      /\ Secret \in BOOLEAN /\ scenario \in WsScenarios
      /\ net.server \in Seq(WsMessages) /\ net.client \in Seq(WsMessages)
  BY SecretIs DEF WsInv, WsParts, WsShape, WsSecret, ReportedOnce, Channels, WsRun
<1>2. /\ mem' = mem /\ scenario' = scenario /\ Secret' = Secret /\ (WsWelcome' <=> WsWelcome)
      /\ Fortunate <=> scenario = "normal" /\ Secret
  BY WsFortunate DEF WsClient, WsClientStart, WsClientUpgraded, WsClientText, WsClientPing,
     WsClientClose, WsClientFails, SettingsStay, Secret, WsWelcome
<1>3. /\ \A place : Goto("client", place) => at'.client = place /\ at'.server = at.server
      /\ \A printed : Finish("client", printed) => at'.client = "exit" /\ at'.server = at.server
  BY <1>1, Moves
<1>4. \/ WsUpgrading \/ WsTurnedAway \/ BothGone
      \/ WsWelcome /\ (WsTextDue \/ WsPingSent \/ WsClosedEarly \/ WsUnanswered \/ WsClosing)
  BY DEF WsRun
<1>5. /\ \A x : <<x>> # <<>> /\ Head(<<x>>) = x
      /\ \A x, y : <<x, y>> # <<>>
      /\ net.client # <<>> => Head(net.client) = net.client[1]
  BY ShortChannels
<1>6. /\ WsFrame("101") \in WsMessages /\ WsFrame("101").opcode = "101"
      /\ WsFrame("400").opcode = "400" /\ WsFrame("CLOSE").opcode = "CLOSE"
      /\ WsFrame("PONG") \in WsMessages /\ WsFrame("TEXT") \in WsMessages
  BY WsMessagesAre
<1>7. WsClientNextFrame => Goto("client", "frames")
  BY <1>1, CalmReceives DEF WsClientNextFrame
\* The frames behind the answer to the Upgrade, and those that follow.
<1>8. ASSUME NEW o \in {0, 1}, WsReads(o), net.client # <<>>, Exchange("client", 1, <<>>),
             Goto("client", "frames"),
             \/ WsTexts(net.client, o) /\ WsClosedEarly /\ WsWelcome
             \/ /\ WsPinged(net.client, o) /\ WsPingSent /\ WsWelcome
                /\ o = 1 \/ net.client[1].opcode = "TEXT"
      PROVE  WsRun' /\ Pair(net')
  <2>1. /\ Channels(WsMessages)' /\ Shrinks(net.client, net'.client) /\ net'.server = net.server
    BY <1>1, <1>8, ClientTakes
  <2>2. Pair(net') /\ net'.client \in Seq(WsMessages)
    BY <2>1 DEF Channels
  <2>3. at'.client = "frames" /\ at'.server = at.server
    BY <1>3, <1>8
  <2>4. WsReads(0)'
    BY <1>8, <2>1, <2>3 DEF WsReads
  <2>5. CASE WsTexts(net.client, o) /\ WsClosedEarly /\ WsWelcome
    <3>1. WsTexts(net'.client, 0)
      BY <1>1, <2>1, <2>2, <2>5, WsTaken
    <3>2. WsClosedEarly'
      BY <1>2, <2>3, <2>4, <2>5, <3>1 DEF WsClosedEarly, WsTexts
    <3>3. QED
      BY <1>1, <1>2, <2>2, <2>5, <3>2 DEF WsRun
  <2>6. CASE /\ WsPinged(net.client, o) /\ WsPingSent /\ WsWelcome
             /\ o = 1 \/ net.client[1].opcode = "TEXT"
    <3>1. WsPinged(net'.client, 0)
      BY <1>1, <2>1, <2>2, <2>6, WsTaken
    <3>2. WsPingSent'
      BY <1>2, <2>3, <2>4, <2>6, <3>1 DEF WsPingSent, WsPinged
    <3>3. QED
      BY <1>1, <1>2, <2>2, <2>6, <3>2 DEF WsRun
  <2>7. QED
    BY <1>8, <2>5, <2>6
<1>9. CASE WsClientStart
  <2>1. at.client = "start"
    BY <1>9 DEF WsClientStart
  <2>2. Stage("upgrade", "start", <<>>, <<>>)
    BY <1>4, <2>1 DEF WsUpgrading, WsTurnedAway, BothGone, WsTextDue, WsPingSent, WsReads,
       WsClosedEarly, WsUnanswered, WsClosing, Stage
  <2>. PICK good \in BOOLEAN : good = (scenario # "bad-upgrade" /\ mem.passwords[1])
    BY <1>1 DEF Secret
  <2>3. Send("client", <<Upgrade(good)>>) /\ Goto("client", "upgraded")
    BY <1>9, <2>2 DEF WsClientStart, Ended, Stage
  <2>4. good <=> WsWelcome
    BY <1>1 DEF Secret, WsWelcome
  <2>5. net' = [server |-> <<Upgrade(good)>>, client |-> <<>>]
    BY <1>1, <2>2, <2>3, OneForOne DEF Stage
  <2>6. Stage("upgrade", "upgraded", <<Upgrade(good)>>, <<>>)'
    <3>1. at'.server = "upgrade" /\ at'.client = "upgraded"
      BY <1>3, <2>2, <2>3 DEF Stage
    <3>2. net'.server = <<Upgrade(good)>> /\ net'.client = <<>> /\ Pair(net')
      BY <2>5 DEF Pair
    <3>3. QED
      BY <3>1, <3>2 DEF Stage
  <2>7. WsRun'
    BY <1>1, <1>2, <2>4, <2>6 DEF WsRun, WsUpgrading
  <2>8. Pair(net')
    BY <2>5 DEF Pair
  <2>9. QED
    BY <2>3, <2>7, <2>8 DEF GoesWell
<1>10. CASE WsClientUpgraded
  <2>1. /\ at.client = "upgraded" /\ ReceiveOne("client", <<>>)
        /\ \/ Head(net.client).opcode = "101" /\ WsClientNextFrame
           \/ Head(net.client).opcode # "101" /\ UNCHANGED stopped /\ Finish("client", ABORT)
    BY <1>10 DEF WsClientUpgraded
  <2>2. net.client # <<>> /\ Exchange("client", 1, <<>>)
    BY <1>1, <2>1, CalmReceivesOne
  <2>3. \/ WsTurnedAway
        \/ WsWelcome /\ Stage("text", "upgraded", <<>>, <<WsFrame("101")>>)
        \/ WsReads(1) /\ WsWelcome /\ WsPingSent /\ WsPinged(net.client, 1)
        \/ WsReads(1) /\ WsWelcome /\ WsClosedEarly /\ WsTexts(net.client, 1)
    BY <1>4, <2>1, <2>2 DEF WsUpgrading, BothGone, WsTextDue, WsPingSent, WsReads,
       WsClosedEarly, WsUnanswered, WsClosing, Stage
  <2>4. CASE WsTurnedAway
    <3>1. net.client = <<WsFrame("400")>> /\ at.server = "exit" /\ ~WsWelcome
      BY <2>4 DEF WsTurnedAway, Stage
    <3>2. Head(net.client).opcode = "400"
      BY <1>5, <1>6, <3>1
    <3>3. Finish("client", ABORT)
      BY <2>1, <3>2
    <3>4. BothGone' /\ Pair(net')
      <4>1. BothGone'
        BY <1>3, <3>1, <3>3 DEF BothGone
      <4>2. Pair(net')
        BY <1>1, <2>2, ClientTakes DEF Channels
      <4>3. QED
        BY <4>1, <4>2
    <3>5. ~Fortunate
      BY <1>2, <3>1 DEF WsWelcome
    <3>6. QED
      BY <1>1, <1>2, <3>3, <3>4, <3>5 DEF GoesWell, WsRun
  <2>5. CASE WsWelcome /\ Stage("text", "upgraded", <<>>, <<WsFrame("101")>>)
    <3>1. net.client = <<WsFrame("101")>> /\ net.server = <<>> /\ at.server = "text"
      BY <2>5 DEF Stage
    <3>2. Head(net.client).opcode = "101"
      BY <1>5, <1>6, <3>1
    <3>3. Goto("client", "frames")
      BY <1>7, <2>1, <3>2
    <3>4. net' = [server |-> <<>>, client |-> <<>>]
      <4>1. net' = [server |-> net.server \o <<>>, client |-> RemoveAt(net.client, 1)]
        BY <1>1, <2>2, ExchangeIs
      <4>2. QED
        BY <3>1, <4>1, ShortRemoved, ShortChannels
    <3>5. Stage("text", "frames", <<>>, <<>>)'
      BY <1>3, <3>1, <3>3, <3>4 DEF Stage
    <3>6. WsRun'
      BY <1>1, <1>2, <2>5, <3>5 DEF WsRun, WsTextDue
    <3>7. QED
      BY <3>3, <3>4, <3>6 DEF GoesWell, Pair
  <2>6. CASE WsReads(1) /\ WsWelcome /\ (\/ WsPingSent /\ WsPinged(net.client, 1)
                                         \/ WsClosedEarly /\ WsTexts(net.client, 1))
    <3>1. Head(net.client).opcode = "101"
      BY <1>5, <1>6, <2>2, <2>6 DEF WsReads
    <3>2. Goto("client", "frames")
      BY <1>7, <2>1, <3>1
    <3>3. WsRun' /\ Pair(net')
      BY <1>8, <2>2, <2>6, <3>2
    <3>4. QED
      BY <3>2, <3>3 DEF GoesWell
  <2>7. QED
    BY <2>3, <2>4, <2>5, <2>6
<1>11. ASSUME at.client = "frames", net.client # <<>>
       PROVE  \/ WsReads(0) /\ WsWelcome /\ WsPingSent /\ WsPinged(net.client, 0)
              \/ WsReads(0) /\ WsWelcome /\ WsClosedEarly /\ WsTexts(net.client, 0)
              \/ WsWelcome /\ scenario = "normal"
                   /\ Stage("exit", "frames", <<WsFrame("TEXT")>>, <<WsFrame("CLOSE")>>)
  BY <1>4, <1>11 DEF WsUpgrading, WsTurnedAway, BothGone, WsTextDue, WsPingSent, WsReads,
     WsClosedEarly, WsUnanswered, WsClosing, Stage
<1>12. ASSUME Stage("exit", "frames", <<WsFrame("TEXT")>>, <<WsFrame("CLOSE")>>)
       PROVE  Head(net.client).opcode = "CLOSE"
  BY <1>5, <1>6, <1>12 DEF Stage
<1>13. CASE WsClientText
  <2>1. /\ at.client = "frames" /\ net.client # <<>> /\ Head(net.client).opcode = "TEXT"
        /\ Exchange("client", 1, <<>>) /\ Goto("client", "frames")
    BY <1>7, <1>13 DEF WsClientText
  <2>2. net.client[1].opcode = "TEXT"
    BY <1>5, <2>1
  <2>3. \/ WsReads(0) /\ WsWelcome /\ WsPingSent /\ WsPinged(net.client, 0)
        \/ WsReads(0) /\ WsWelcome /\ WsClosedEarly /\ WsTexts(net.client, 0)
    BY <1>11, <1>12, <2>1
  <2>4. WsRun' /\ Pair(net')
    BY <1>8, <2>1, <2>2, <2>3
  <2>5. QED
    BY <2>1, <2>4 DEF GoesWell
<1>14. CASE WsClientPing
  <2>1. at.client = "frames" /\ net.client # <<>> /\ Head(net.client).opcode = "PING"
    BY <1>14 DEF WsClientPing
  <2>2. net.client[1].opcode = "PING"
    BY <1>5, <2>1
  <2>3. \/ WsReads(0) /\ WsWelcome /\ WsPingSent /\ WsPinged(net.client, 0)
        \/ WsReads(0) /\ WsWelcome /\ WsClosedEarly /\ WsTexts(net.client, 0)
    BY <1>11, <1>12, <2>1
  <2>4. /\ Channels(WsMessages) /\ RemoveAt(net.client, 1) \in Seq(WsMessages)
        /\ Shrinks(net.client, RemoveAt(net.client, 1))
    <3>. PICK old : old = net.client
      OBVIOUS
    <3>1. old \in Seq(WsMessages) /\ old # <<>>
      BY <1>1, <2>1
    <3>. PICK rest : rest = SubSeq(old, 2, Len(old))
      OBVIOUS
    <3>2. RemoveAt(old, 1) = rest
      BY <3>1, FirstRemoved
    <3>3. Len(old) \in Nat \ {0}
      BY <3>1, EmptySeq
    <3>4. /\ rest \in Seq(WsMessages) /\ Len(rest) = Len(old) - 1
          /\ \A i \in 1..Len(old) - 1 : rest[i] = old[i + 1]
      BY <3>1, <3>3
    <3>5. Shrinks(old, rest)
      BY <3>3, <3>4 DEF Shrinks
    <3>6. QED
      BY <1>1, <3>2, <3>4, <3>5
  <2>5. WsReads(0) /\ WsWelcome /\ WsPingSent /\ RemoveAt(net.client, 1) = <<>>
    BY <1>1, <2>2, <2>3, <2>4, WsTaken
  <2>6. at.server = "pong" /\ scenario # "unexpected-close" /\ net.server = <<>>
    BY <2>5 DEF WsPingSent, WsReads
  <2>7. /\ Exchange("client", 1, IF scenario = "ping-timeout" THEN <<>>
                                 ELSE <<WsFrame("PONG"), WsFrame("TEXT")>>)
        /\ Goto("client", "frames")
    BY <1>7, <1>14, <2>6, OtherIs DEF WsClientPing, SendBreaks, Ended
  <2>8. at'.server = "pong" /\ at'.client = "frames"
    BY <1>3, <2>6, <2>7
  <2>9. CASE scenario = "ping-timeout"
    <3>1. net' = [server |-> net.server \o <<>>, client |-> RemoveAt(net.client, 1)]
      BY <1>1, <2>7, <2>9, ExchangeIs
    <3>2. net' = [server |-> <<>>, client |-> <<>>]
      BY <2>5, <2>6, <3>1, ShortChannels
    <3>3. Stage("pong", "frames", <<>>, <<>>)'
      BY <2>8, <3>2 DEF Stage
    <3>4. WsRun'
      BY <1>1, <1>2, <2>5, <2>9, <3>3 DEF WsRun, WsUnanswered
    <3>5. QED
      BY <2>7, <3>2, <3>4 DEF GoesWell, Pair
  <2>10. CASE scenario # "ping-timeout"
    <3>1. net' = [server |-> net.server \o <<WsFrame("PONG"), WsFrame("TEXT")>>,
                  client |-> RemoveAt(net.client, 1)]
      BY <1>1, <2>7, <2>10, ExchangeIs
    <3>2. net' = [server |-> <<WsFrame("PONG"), WsFrame("TEXT")>>, client |-> <<>>]
      BY <2>5, <2>6, <3>1, ShortChannels
    <3>3. Stage("pong", "frames", <<WsFrame("PONG"), WsFrame("TEXT")>>, <<>>)'
      BY <2>8, <3>2 DEF Stage
    <3>4. scenario = "normal"
      BY <1>1, <2>5, <2>6, <2>10 DEF WsScenarios, WsWelcome
    <3>5. WsRun'
      BY <1>1, <1>2, <2>5, <3>3, <3>4 DEF WsRun, WsClosing
    <3>6. QED
      BY <2>7, <3>2, <3>5 DEF GoesWell, Pair
  <2>11. QED
    BY <2>9, <2>10
<1>15. CASE WsClientClose
  <2>1. /\ at.client = "frames" /\ net.client # <<>> /\ Head(net.client).opcode = "CLOSE"
        /\ Exchange("client", 1, <<>>) /\ Finish("client", OK)
    BY <1>15 DEF WsClientClose
  <2>2. net.client[1].opcode = "CLOSE"
    BY <1>5, <2>1
  <2>3. /\ Channels(WsMessages)' /\ Shrinks(net.client, net'.client) /\ Pair(net')
        /\ net'.client \in Seq(WsMessages)
    BY <1>1, <2>1, ClientTakes DEF Channels
  <2>4. /\ ~WsTexts(net.client, 0) /\ ~WsPinged(net.client, 0)
    BY <1>1, <2>2, <2>3, WsTaken
  <2>5. WsWelcome /\ scenario = "normal" /\ at.server = "exit"
    BY <1>11, <2>1, <2>4 DEF Stage
  <2>6. BothGone'
    BY <1>3, <2>1, <2>5 DEF BothGone
  <2>7. Fortunate
    BY <1>2, <2>5 DEF WsWelcome
  <2>8. QED
    BY <1>1, <1>2, <2>1, <2>3, <2>6, <2>7 DEF GoesWell, WsRun
<1>16. CASE WsClientFails
  <2>1. /\ at.client \in {"upgraded", "frames"} /\ Finish("client", ABORT) /\ net' = net
        /\ at.server = "exit" /\ net.client = <<>>
    BY <1>1, <1>16, CalmReceives DEF WsClientFails
  <2>2. scenario # "normal" \/ ~WsWelcome
    BY <1>4, <1>5, <2>1 DEF WsUpgrading, WsTurnedAway, BothGone, WsTextDue, WsPingSent,
       WsReads, WsClosedEarly, WsUnanswered, WsClosing, Stage
  <2>3. BothGone'
    BY <1>3, <2>1 DEF BothGone
  <2>4. ~Fortunate
    BY <1>2, <2>2 DEF WsWelcome
  <2>5. QED
    BY <1>1, <1>2, <2>1, <2>3, <2>4 DEF GoesWell, WsRun
<1>17. QED
  BY <1>9, <1>10, <1>13, <1>14, <1>15, <1>16 DEF WsClient

-----------------------------------------------------------------------------
(***************************************************************************)
(* TcpDemo, undisturbed: the two programs take turns until the file is     *)
(* sent, and then the client reads on behind the server.                   *)
(***************************************************************************)
WrongSoFar(n) == \A k \in 1..n : ~mem.passwords[k]
HasPassword == \E k \in 1..3 : mem.passwords[k]

TcpJoining ==
  /\ mem.given = 0 /\ mem.attempt = 0
  /\ Stage("join", "start", <<>>, <<>>) \/ Stage("join", "auth", <<Frame("JOIN_REQ")>>, <<>>)
TcpAsked ==
  /\ mem.attempt <= 2 /\ WrongSoFar(mem.attempt) /\ mem.given = mem.attempt
  /\ Stage("auth", "auth", <<>>, <<Frame("PASS_REQ")>>)
TcpAnswered ==
  /\ mem.attempt <= 2 /\ WrongSoFar(mem.attempt) /\ mem.given = mem.attempt + 1
  /\ \E right \in BOOLEAN :
       (right <=> mem.passwords[mem.given]) /\ Stage("auth", "auth", <<PassResp(right)>>, <<>>)
TcpRejected == ~HasPassword /\ Stage("exit", "auth", <<>>, <<Frame("REJECT")>>)

TlsHelloing ==
  \/ Stage("hello", "auth", <<>>, <<Frame("PASS_ACCEPT")>>)
  \/ Stage("hello", "hello", <<Frame("CLIENT_HELLO")>>, <<>>)
  \/ Stage("finished", "hello", <<>>, <<Frame("SERVER_HELLO")>>)
TlsFinishing ==
  \/ Stage("finished", "finished", <<FinishedFrame(TRUE)>>, <<>>)
  \/ /\ scenario = "tampered-finished"
     /\ Stage("exit", "finished", <<>>, <<FinishedFrame(FALSE)>>)
TlsShaking == protocol = "tls-like" /\ HasPassword /\ (TlsHelloing \/ TlsFinishing)

\* The scenarios in which the whole file is sent, and those of one unit.
Whole == scenario \in {"normal", "stream-fragmentation"}
OneUnit == scenario \in {"connection-close-mid-transfer", "replay"}

\* Behind its first o messages a channel holds frames that the client, when it has written w
\* units, takes for the next ones; no TERMINATE; the TERMINATE behind all that is left.
NextUnit(m, k) == m.type = "APP_DATA" => m.seq = k /\ m.mac
UnitsFresh(channel, w, o) == \A i \in o + 1..Len(channel) : NextUnit(channel[i], w + i - o)
NoTerminate(channel, o) == \A i \in o + 1..Len(channel) : channel[i].type # "TERMINATE"
Terminated(channel, w, o) ==
  /\ Len(channel) > o /\ w + Len(channel) = Len(content) + 1 + o
  /\ channel[Len(channel)].type = "TERMINATE"
  /\ \A i \in o + 1..Len(channel) : i < Len(channel) => channel[i].type # "TERMINATE"

\* The client has o messages to read before the frames.
TcpReads(o) ==
  /\ net.server = <<>>
  /\ \/ o = 0 /\ at.client = "data"
     \/ /\ o = 1 /\ net.client # <<>>
        /\ \/ /\ protocol = "tcp-basic" /\ at.client = "auth"
              /\ net.client[1] = Frame("PASS_ACCEPT")
           \/ /\ protocol = "tls-like" /\ at.client = "finished"
              /\ net.client[1] = FinishedFrame(TRUE)
TcpWhole(o) ==
  /\ Whole /\ UnitsFresh(net.client, Len(written), o)
  /\ at.server = "send" => NoTerminate(net.client, o)
  /\ at.server = "exit" => Terminated(net.client, Len(written), o)
TcpSpoilt(o) ==
  /\ ~Whole /\ NoTerminate(net.client, o)
  /\ OneUnit /\ at.server = "send" => mem.sent = 0
TcpSending ==
  /\ HasPassword /\ scenario # "tampered-finished" /\ at.server \in {"send", "exit"}
  /\ \E o \in {0, 1} : TcpReads(o) /\ (TcpWhole(o) \/ TcpSpoilt(o))
TcpAbandoned ==
  HasPassword /\ scenario = "tampered-app-data" /\ at.server = "send" /\ at.client = "exit"

TcpRun ==
  \/ TcpJoining \/ TcpAsked \/ TcpAnswered \/ TcpRejected
  \/ TlsShaking \/ TcpSending \/ TcpAbandoned \/ BothGone

LEMMA TcpFortunate ==
  ASSUME protocol \in TcpFamily, TcpShape
  PROVE  /\ Fortunate <=> HasPassword /\ Whole
         /\ "client" # "server"
<1>1. LetIn <=> HasPassword
  BY DEF LetIn, HasPassword, TcpFamily
<1>2. scenario \in ExpectedOk(protocol) <=> Whole
  BY DEF ExpectedOk, Whole, TcpFamily, TcpShape, TcpBasicScenarios, TlsScenarios
<1>3. QED
  BY <1>1, <1>2 DEF Fortunate

\* The client takes the first message, and its file grows or does not.
UnitTaken(old, new, w, o, v) ==
  /\ old \in Seq(TcpMessages) /\ new \in Seq(TcpMessages) /\ Shrinks(old, new)
  /\ w \in Nat /\ o \in {0, 1} /\ Len(content) \in Nat /\ v = w + 1 - o

LEMMA UnitsTaken ==
  ASSUME NEW old, NEW new, NEW w, NEW o, NEW v, UnitTaken(old, new, w, o, v)
  PROVE  /\ UnitsFresh(old, w, o) => UnitsFresh(new, v, 0)
         /\ NoTerminate(old, o) => NoTerminate(new, 0)
         /\ Terminated(old, w, o) => \/ o = 0 /\ old[1].type = "TERMINATE" /\ w = Len(content)
                                     \/ Terminated(new, v, 0)
<1>0. /\ old \in Seq(TcpMessages) /\ new \in Seq(TcpMessages) /\ Shrinks(old, new)
      /\ w \in Nat /\ o \in {0, 1} /\ Len(content) \in Nat /\ v = w + 1 - o
  BY DEF UnitTaken
<1>1. /\ Len(new) \in Nat /\ Len(old) = Len(new) + 1
      /\ \A i \in 1..Len(new) : new[i] = old[i + 1] /\ i + 1 \in 2..Len(old)
  BY <1>0 DEF Shrinks
<1>2. v \in Nat /\ v = w + 1 - o /\ w \in Nat /\ o \in {0, 1} /\ Len(content) \in Nat
  BY ONLY <1>0
<1>3. ASSUME NEW i \in 0 + 1..Len(new)
      PROVE  i + 1 \in o + 1..Len(old) /\ new[i] = old[i + 1] /\ v + i - 0 = w + (i + 1) - o
  <2>1. i \in Nat /\ i \in 1..Len(new)
    BY <1>1
  <2>2. new[i] = old[i + 1] /\ i + 1 \in 2..Len(old)
    BY <1>1, <2>1
  <2>3. v + i - 0 = w + (i + 1) - o
    BY ONLY <1>2, <2>1
  <2>4. i + 1 \in o + 1..Len(old)
    <3>1. PICK m : m = Len(old)
      OBVIOUS
    <3>2. m \in Nat /\ i + 1 \in 2..m
      BY <1>1, <2>2, <3>1
    <3>3. i + 1 \in o + 1..m
      BY ONLY <1>2, <2>1, <3>2
    <3>4. QED
      BY ONLY <3>1, <3>3
  <2>5. QED
    BY ONLY <2>2, <2>3, <2>4
<1>4. UnitsFresh(old, w, o) => UnitsFresh(new, v, 0)
  BY <1>3 DEF UnitsFresh
<1>5. NoTerminate(old, o) => NoTerminate(new, 0)
  BY <1>3 DEF NoTerminate
<1>6. ASSUME Terminated(old, w, o)
      PROVE  \/ o = 0 /\ old[1].type = "TERMINATE" /\ w = Len(content)
             \/ Terminated(new, v, 0)
  <2>1. /\ Len(old) > o /\ w + Len(old) = Len(content) + 1 + o
        /\ old[Len(old)].type = "TERMINATE"
        /\ \A i \in o + 1..Len(old) : i < Len(old) => old[i].type # "TERMINATE"
    BY <1>6 DEF Terminated
  <2>2. CASE Len(old) = 1
    <3>1. o = 0
      BY ONLY <1>2, <2>1, <2>2
    <3>2. w = Len(content)
      BY ONLY <1>2, <2>1, <2>2, <3>1
    <3>3. QED
      BY <2>1, <2>2, <3>1, <3>2
  <2>3. CASE Len(old) > 1
    <3>1. Len(new) > 0 /\ v + Len(new) = Len(content) + 1 + 0
      <4>1. CASE o = 0
        BY <1>1, <1>2, <2>1, <2>3, <4>1
      <4>2. CASE o = 1
        BY <1>1, <1>2, <2>1, <2>3, <4>2
      <4>3. QED
        BY <1>2, <4>1, <4>2
    <3>2. Len(new) \in 1..Len(new) /\ Len(new) + 1 = Len(old)
      BY <1>1, <3>1
    <3>3. new[Len(new)].type = "TERMINATE"
      BY <1>1, <2>1, <3>2
    <3>4. ASSUME NEW i \in 0 + 1..Len(new), i < Len(new)
          PROVE  new[i].type # "TERMINATE"
      <4>1. i + 1 \in o + 1..Len(old) /\ i + 1 < Len(old) /\ new[i] = old[i + 1]
        BY <1>1, <1>3, <3>4
      <4>2. QED
        BY <2>1, <4>1
    <3>5. QED
      BY <3>1, <3>3, <3>4 DEF Terminated
  <2>4. QED
    BY <1>1, <2>1, <2>2, <2>3
<1>7. QED
  BY <1>4, <1>5, <1>6

\* The server sends one frame more.
UnitSent(old, new, m, w, o, k) ==
  /\ old \in Seq(TcpMessages) /\ new \in Seq(TcpMessages) /\ Gains(old, new, m)
  /\ w \in Nat /\ o \in {0, 1} /\ Len(content) \in Nat /\ Len(old) >= o
  /\ NoTerminate(old, o) /\ k = w + Len(old) + 1 - o

LEMMA UnitsSent ==
  ASSUME NEW old, NEW new, NEW m, NEW w, NEW o, NEW k, UnitSent(old, new, m, w, o, k)
  PROVE  /\ UnitsFresh(old, w, o) /\ NextUnit(m, k) => UnitsFresh(new, w, o)
         /\ m.type # "TERMINATE" => NoTerminate(new, o)
         /\ m.type = "TERMINATE" /\ k = Len(content) + 1 => Terminated(new, w, o)
         /\ o = 1 => new # <<>> /\ new[1] = old[1]
<1>0. /\ old \in Seq(TcpMessages) /\ new \in Seq(TcpMessages) /\ Gains(old, new, m)
      /\ w \in Nat /\ o \in {0, 1} /\ Len(content) \in Nat /\ Len(old) >= o
      /\ NoTerminate(old, o) /\ k = w + Len(old) + 1 - o
  BY DEF UnitSent
<1>1. /\ Len(old) \in Nat /\ Len(new) = Len(old) + 1
      /\ \A i \in 1..Len(old) : new[i] = old[i]
      /\ new[Len(new)] = m
      /\ w \in Nat /\ o \in {0, 1} /\ Len(content) \in Nat /\ Len(old) >= o
      /\ k = w + Len(old) + 1 - o
  BY <1>0 DEF Gains
<1>2. \A i \in o + 1..Len(new) : \/ i \in o + 1..Len(old) /\ i < Len(new) /\ new[i] = old[i]
                                 \/ i = Len(new) /\ new[i] = m
  <2>1. ASSUME NEW i \in o + 1..Len(new), i # Len(new)
        PROVE  i \in o + 1..Len(old) /\ i < Len(new) /\ i \in 1..Len(old)
    BY <1>1, <2>1
  <2>2. QED
    BY <1>1, <2>1
<1>3. UnitsFresh(old, w, o) /\ NextUnit(m, k)
        => UnitsFresh(new, w, o)
  <2>. SUFFICES ASSUME UnitsFresh(old, w, o), NextUnit(m, k),
                       NEW i \in o + 1..Len(new)
                PROVE  NextUnit(new[i], w + i - o)
    BY DEF UnitsFresh
  <2>1. CASE i \in o + 1..Len(old) /\ new[i] = old[i]
    BY <2>1 DEF UnitsFresh
  <2>2. CASE i = Len(new) /\ new[i] = m
    <3>1. k = w + i - o
      BY <1>1, <2>2
    <3>2. QED
      BY <2>2, <3>1
  <2>3. QED
    BY <1>2, <2>1, <2>2
<1>4. m.type # "TERMINATE" => NoTerminate(new, o)
  BY <1>0, <1>2 DEF NoTerminate
<1>5. ASSUME m.type = "TERMINATE", k = Len(content) + 1
      PROVE  Terminated(new, w, o)
  <2>1. Len(new) > o /\ w + Len(new) = Len(content) + 1 + o
    BY <1>1, <1>5
  <2>2. \A i \in o + 1..Len(new) : i < Len(new) => new[i].type # "TERMINATE"
    BY <1>0, <1>1, <1>2 DEF NoTerminate
  <2>3. QED
    BY <1>1, <1>5, <2>1, <2>2 DEF Terminated
<1>6. o = 1 => new # <<>> /\ new[1] = old[1]
  BY <1>1, EmptySeq
<1>7. QED
  BY <1>3, <1>4, <1>5, <1>6

\* What the client has not read yet is the rest of what the server has sent.
LEMMA TcpStreamIs ==
  ASSUME protocol \in TcpFamily, TcpInv, NEW o \in {0, 1}, TcpReads(o)
  PROVE  StreamBehind(o) /\ Len(net.client) >= o
<1>1. TcpShape /\ StreamInv /\ net.client \in Seq(TcpMessages) /\ Len(net.client) \in Nat
  BY DEF TcpInv, SequenceInv, TcpShape, Channels
<1>2. CASE o = 0
  BY <1>1, <1>2 DEF StreamInv, TcpReads
<1>3. CASE o = 1
  <2>1. net.client # <<>> /\ 1 \in 1..Len(net.client)
    BY <1>1, <1>3, EmptySeq DEF TcpReads
  <2>2. Opens(net.client[1]) /\ at.client \notin {"data", "exit"}
    <3>1. Frame("PASS_ACCEPT").type = "PASS_ACCEPT" /\ FinishedFrame(TRUE).type = "FINISHED"
      BY TcpMessagesAre
    <3>2. CASE protocol = "tcp-basic"
      BY <1>3, <3>1, <3>2 DEF TcpReads, Opens
    <3>3. CASE protocol # "tcp-basic"
      <4>3. PICK f : f = FinishedFrame(TRUE) /\ f.type = "FINISHED"
        BY <3>1
      <4>1. net.client[1] = f /\ at.client = "finished"
        <5>1. \/ 1 = 0 /\ at.client = "data"
              \/ /\ 1 = 1 /\ net.client # <<>>
                 /\ \/ /\ protocol = "tcp-basic" /\ at.client = "auth"
                       /\ net.client[1] = Frame("PASS_ACCEPT")
                    \/ /\ protocol = "tls-like" /\ at.client = "finished"
                       /\ net.client[1] = f
          BY <1>3, <4>3 DEF TcpReads
        <5>2. 1 # 0
          OBVIOUS
        <5>3. QED
          BY ONLY <3>3, <5>1, <5>2, Zenon
      <4>2. net.client[1].type = "FINISHED"
        BY ONLY <4>1, <4>3, Zenon
      <4>4. QED
        BY ONLY <3>3, <4>1, <4>2 DEF Opens
    <3>4. QED
      BY <3>2, <3>3
  <2>3. QED
    BY <1>1, <1>3, <2>1, <2>2 DEF StreamInv
<1>4. QED
  BY <1>2, <1>3

\* What a state of a run says besides.
LEMMA TcpFacts ==
  ASSUME protocol \in TcpFamily, TcpInv
  PROVE  /\ Pair(at) /\ Pair(results) /\ Pair(net) /\ Channels(TcpMessages)
         /\ net.server \in Seq(TcpMessages) /\ net.client \in Seq(TcpMessages)
         /\ mem \in TcpMem /\ mem.given \in 0..3 /\ mem.attempt \in 0..3 /\ mem.sent \in Nat
         /\ \A k \in 1..3 : mem.passwords[k] \in BOOLEAN
         /\ content \in Seq(Data) /\ written \in Seq(Data)
         /\ Len(content) \in Nat /\ Len(written) \in Nat
<1>1. TcpShape
  BY DEF TcpInv
<1>2. mem.passwords \in [1..3 -> BOOLEAN]
  BY <1>1, DemoAttemptsAssumption DEF TcpShape, TcpMem
<1>3. QED
  BY <1>1, <1>2 DEF TcpShape, TcpMem, Channels

\* The messages and the channels of one.
LEMMA TcpStagesAre ==
  /\ \A m : <<m>> # <<>> /\ Head(<<m>>) = m /\ <<m>>[1] = m
  /\ \A t \in {"JOIN_REQ", "PASS_REQ", "PASS_ACCEPT", "REJECT", "CLIENT_HELLO", "SERVER_HELLO"} :
       Frame(t).type = t
  /\ \A right \in BOOLEAN : PassResp(right).type = "PASS_RESP" /\ PassResp(right).right = right
  /\ \A mac \in BOOLEAN : FinishedFrame(mac).type = "FINISHED" /\ FinishedFrame(mac).mac = mac
BY ShortChannels, TcpMessagesAre DEF PassResp, FinishedFrame

LEMMA TcpServerEarly ==
  ASSUME faults = {}, stopped = {}, protocol \in TcpFamily, SettingsStay, TcpInv, TcpRun,
         \/ TcpServerJoin \/ TcpServerPassword \/ TcpServerUnexpected \/ TcpServerReceiveFails
         \/ TlsServerHello \/ TlsServerFinished
  PROVE  GoesWell("server") /\ TcpRun' /\ Pair(net')
<1>1. /\ Pair(at) /\ Pair(results) /\ Pair(net) /\ mem \in TcpMem
      /\ mem.given \in 0..3 /\ mem.attempt \in 0..3
      /\ \A k \in 1..3 : mem.passwords[k] \in BOOLEAN
      /\ protocol' = protocol /\ scenario' = scenario /\ content' = content
      /\ Fortunate <=> HasPassword /\ Whole
  BY TcpFacts, TcpFortunate DEF SettingsStay, TcpInv
<1>2. /\ \A place : Goto("server", place) => at'.server = place /\ at'.client = at.client
      /\ \A printed : Finish("server", printed) => at'.server = "exit" /\ at'.client = at.client
  BY <1>1, Moves
<1>3. \/ TcpJoining \/ TcpAsked \/ TcpAnswered \/ TcpRejected
      \/ TlsShaking \/ TcpSending \/ TcpAbandoned \/ BothGone
  BY DEF TcpRun
<1>4. CASE TcpServerJoin
  <2>1. /\ at.server = "join" /\ net.server # <<>> /\ mem' = mem
        /\ Exchange("server", 1, <<Frame("PASS_REQ")>>)
        /\ Goto("server", "auth")
    <3>1. stopped' = stopped
      BY <1>1, <1>4, CalmReceives DEF TcpServerJoin
    <3>2. QED
      BY <1>4, <3>1 DEF TcpServerJoin, TcpServerNextRound
  <2>2. mem.given = 0 /\ mem.attempt = 0 /\ Stage("join", "auth", <<Frame("JOIN_REQ")>>, <<>>)
    BY <1>3, <2>1 DEF TcpJoining, TcpAsked, TcpAnswered, TcpRejected, TlsShaking, TlsHelloing,
       TlsFinishing, TcpSending, TcpAbandoned, BothGone, Stage
  <2>3. net' = [server |-> <<>>, client |-> <<Frame("PASS_REQ")>>]
    BY <1>1, <2>1, <2>2, OneForOne DEF Stage
  <2>4. TcpAsked'
    BY <1>2, <2>1, <2>2, <2>3 DEF TcpAsked, WrongSoFar, Stage
  <2>5. QED
    BY <2>1, <2>3, <2>4 DEF GoesWell, TcpRun, Pair
<1>5. CASE TcpServerPassword
  <2>1. /\ at.server = "auth" /\ net.server # <<>> /\ stopped' = stopped
        /\ mem' = [mem EXCEPT !.attempt = mem.attempt + 1, !.authed = Head(net.server).right]
    BY <1>1, <1>5, CalmReceives DEF TcpServerPassword
  <2>2. TcpAnswered
    BY <1>3, <2>1 DEF TcpJoining, TcpAsked, TcpRejected, TlsShaking, TlsHelloing,
       TlsFinishing, TcpSending, TcpAbandoned, BothGone, Stage
  <2>3. PICK right \in BOOLEAN :
          (right <=> mem.passwords[mem.given]) /\ Stage("auth", "auth", <<PassResp(right)>>, <<>>)
    BY <2>2 DEF TcpAnswered
  <2>4. Head(net.server).right = right
    BY <2>3, TcpStagesAre DEF Stage
  <2>. PICK n : n = mem.attempt + 1
    OBVIOUS
  <2>5. n \in 1..3 /\ mem.given = n /\ WrongSoFar(n - 1) /\ mem.attempt = n - 1
    BY <1>1, <2>2 DEF TcpAnswered
  <2>6. mem'.attempt = n /\ mem'.given = n /\ mem'.passwords = mem.passwords
    BY <1>1, <2>1, <2>5 DEF TcpMem
  <2>7. right => HasPassword
    BY <2>3, <2>5 DEF HasPassword
  <2>8. ~right => WrongSoFar(n)
    <3>1. ASSUME NEW k \in 1..n
          PROVE  k \in 1..n - 1 \/ k = n
      BY <2>5, <3>1
    <3>2. QED
      BY <2>3, <2>5, <3>1 DEF WrongSoFar
  <2>9. HasPassword' <=> HasPassword
    BY <2>6 DEF HasPassword
  <2>10. CASE right
    <3>1. /\ Exchange("server", 1, <<Frame("PASS_ACCEPT")>>)
          /\ Goto("server", IF protocol = "tls-like" THEN "hello" ELSE "send")
      BY <1>5, <2>4, <2>10 DEF TcpServerPassword, TcpServerTransfers
    <3>2. net' = [server |-> <<>>, client |-> <<Frame("PASS_ACCEPT")>>]
      BY <1>1, <2>3, <3>1, OneForOne DEF Stage
    <3>3. at'.client = "auth"
      BY <1>2, <2>3, <3>1 DEF Stage
    <3>4. HasPassword'
      BY <2>7, <2>9, <2>10
    <3>5. CASE protocol = "tls-like"
      <4>1. at'.server = "hello"
        BY <1>2, <3>1, <3>5
      <4>2. Stage("hello", "auth", <<>>, <<Frame("PASS_ACCEPT")>>)'
        BY <3>2, <3>3, <4>1 DEF Stage
      <4>3. TlsShaking'
        BY <1>1, <3>4, <3>5, <4>2 DEF TlsShaking, TlsHelloing
      <4>4. QED
        BY <3>1, <3>2, <3>5, <4>3 DEF GoesWell, TcpRun, Pair
    <3>6. CASE protocol = "tcp-basic"
      <4>1. at'.server = "send"
        BY <1>2, <3>1, <3>6
      <4>2. net'.client = <<Frame("PASS_ACCEPT")>> /\ net'.server = <<>>
        BY <3>2
      <4>3. /\ Len(<<Frame("PASS_ACCEPT")>>) = 1 /\ <<Frame("PASS_ACCEPT")>> # <<>>
            /\ <<Frame("PASS_ACCEPT")>>[1] = Frame("PASS_ACCEPT")
        BY TcpStagesAre
      <4>4. TcpReads(1)'
        BY <1>1, <3>3, <3>6, <4>2, <4>3 DEF TcpReads
      <4>5. mem'.sent = mem.sent /\ mem.sent = 0
        BY <1>1, <2>1, <2>3 DEF TcpMem, TcpInv, SecretInv, LetInInv, Early, Stage
      <4>6. TcpWhole(1)' \/ TcpSpoilt(1)'
        <5>1. \A i \in 1 + 1..Len(net'.client) : FALSE
          BY <4>2, <4>3
        <5>2. QED
          BY <4>1, <4>5, <5>1 DEF TcpWhole, TcpSpoilt, UnitsFresh, NoTerminate
      <4>7. scenario # "tampered-finished"
        BY <3>6 DEF TcpInv, TcpShape, TcpBasicScenarios
      <4>8. TcpSending'
        BY <1>1, <3>4, <4>1, <4>4, <4>6, <4>7 DEF TcpSending
      <4>9. QED
        BY <3>1, <3>2, <3>6, <4>8 DEF GoesWell, TcpRun, Pair
    <3>7. QED
      BY <3>5, <3>6 DEF TcpFamily
  <2>11. CASE ~right /\ n = 3
    <3>1. Exchange("server", 1, <<Frame("REJECT")>>) /\ Finish("server", ABORT)
      BY <1>5, <2>4, <2>5, <2>11 DEF TcpServerPassword, LastAttempt
    <3>2. net' = [server |-> <<>>, client |-> <<Frame("REJECT")>>]
      BY <1>1, <2>3, <3>1, OneForOne DEF Stage
    <3>3. Stage("exit", "auth", <<>>, <<Frame("REJECT")>>)'
      BY <1>2, <2>3, <3>1, <3>2 DEF Stage
    <3>4. ~HasPassword
      BY <2>8, <2>11 DEF WrongSoFar, HasPassword
    <3>5. TcpRejected'
      BY <2>9, <3>3, <3>4 DEF TcpRejected
    <3>6. QED
      BY <1>1, <3>1, <3>2, <3>4, <3>5 DEF GoesWell, TcpRun, Pair
  <2>12. CASE ~right /\ n < 3
    <3>1. Exchange("server", 1, <<Frame("PASS_REQ")>>) /\ Goto("server", "auth")
      BY <1>5, <2>1, <2>4, <2>5, <2>12 DEF TcpServerPassword, LastAttempt, TcpServerNextRound
    <3>2. net' = [server |-> <<>>, client |-> <<Frame("PASS_REQ")>>]
      BY <1>1, <2>3, <3>1, OneForOne DEF Stage
    <3>3. Stage("auth", "auth", <<>>, <<Frame("PASS_REQ")>>)'
      BY <1>2, <2>3, <3>1, <3>2 DEF Stage
    <3>4. \A k \in 1..mem'.attempt : ~mem'.passwords[k]
      BY <2>6, <2>8, <2>12 DEF WrongSoFar
    <3>5. mem'.attempt <= 2 /\ mem'.given = mem'.attempt
      <4>1. n < 3
        BY <2>12
      <4>2. n <= 2
        BY ONLY <2>5, <4>1
      <4>3. QED
        BY ONLY <2>6, <4>2
    <3>7. TcpAsked'
      BY <3>3, <3>4, <3>5 DEF TcpAsked, WrongSoFar
    <3>6. QED
      BY <3>1, <3>2, <3>7 DEF GoesWell, TcpRun, Pair
  <2>13. QED
    BY <2>5, <2>10, <2>11, <2>12
<1>6. ~TcpServerUnexpected
  <2>1. ASSUME TcpServerUnexpected
        PROVE  FALSE
    <3>1. /\ net.server # <<>>
          /\ \/ at.server = "auth" /\ Head(net.server).type # "PASS_RESP"
             \/ at.server = "hello" /\ Head(net.server).type # "CLIENT_HELLO"
      BY <2>1 DEF TcpServerUnexpected
    <3>2. \/ \E right \in BOOLEAN : net.server = <<PassResp(right)>> /\ at.server = "auth"
          \/ net.server = <<Frame("CLIENT_HELLO")>> /\ at.server = "hello"
      BY <1>3, <3>1 DEF TcpJoining, TcpAsked, TcpAnswered, TcpRejected, TlsShaking, TlsHelloing,
         TlsFinishing, TcpSending, TcpAbandoned, BothGone, Stage
    <3>3. QED
      BY <3>1, <3>2, TcpStagesAre
  <2>2. QED
    BY <2>1
<1>7. ~TcpServerReceiveFails
  <2>1. ASSUME TcpServerReceiveFails
        PROVE  FALSE
    <3>1. at.server \in {"join", "auth", "hello", "finished"} /\ at.client = "exit"
      BY <1>1, <2>1, CalmReceives DEF TcpServerReceiveFails
    <3>2. QED
      BY <1>3, <3>1 DEF TcpJoining, TcpAsked, TcpAnswered, TcpRejected, TlsShaking, TlsHelloing,
         TlsFinishing, TcpSending, TcpAbandoned, BothGone, Stage
  <2>2. QED
    BY <2>1
<1>8. CASE TlsServerHello
  <2>1. /\ at.server = "hello" /\ net.server # <<>> /\ mem' = mem
        /\ Exchange("server", 1, <<Frame("SERVER_HELLO")>>) /\ Goto("server", "finished")
    BY <1>8 DEF TlsServerHello
  <2>2. /\ protocol = "tls-like" /\ HasPassword
        /\ Stage("hello", "hello", <<Frame("CLIENT_HELLO")>>, <<>>)
    BY <1>3, <2>1 DEF TcpJoining, TcpAsked, TcpAnswered, TcpRejected, TlsShaking, TlsHelloing,
       TlsFinishing, TcpSending, TcpAbandoned, BothGone, Stage
  <2>3. net' = [server |-> <<>>, client |-> <<Frame("SERVER_HELLO")>>]
    BY <1>1, <2>1, <2>2, OneForOne DEF Stage
  <2>4. Stage("finished", "hello", <<>>, <<Frame("SERVER_HELLO")>>)'
    BY <1>2, <2>1, <2>2, <2>3 DEF Stage
  <2>5. TlsShaking'
    BY <1>1, <2>1, <2>2, <2>4 DEF TlsShaking, TlsHelloing, HasPassword
  <2>6. QED
    BY <2>1, <2>3, <2>5 DEF GoesWell, TcpRun, Pair
<1>9. CASE TlsServerFinished
  <2>1. at.server = "finished" /\ net.server # <<>> /\ mem' = mem
    BY <1>9 DEF TlsServerFinished
  <2>2. /\ protocol = "tls-like" /\ HasPassword /\ HasPassword'
        /\ Stage("finished", "finished", <<FinishedFrame(TRUE)>>, <<>>)
    BY <1>3, <2>1 DEF TcpJoining, TcpAsked, TcpAnswered, TcpRejected, TlsShaking, TlsHelloing,
       TlsFinishing, TcpSending, TcpAbandoned, BothGone, Stage, HasPassword
  <2>3. CASE scenario = "tampered-finished"
    <3>1. Exchange("server", 1, <<FinishedFrame(FALSE)>>) /\ Finish("server", ABORT)
      BY <1>9, <2>3 DEF TlsServerFinished
    <3>2. net' = [server |-> <<>>, client |-> <<FinishedFrame(FALSE)>>]
      BY <1>1, <2>2, <3>1, OneForOne DEF Stage
    <3>3. Stage("exit", "finished", <<>>, <<FinishedFrame(FALSE)>>)'
      BY <1>2, <2>2, <3>1, <3>2 DEF Stage
    <3>4. TlsShaking'
      BY <1>1, <2>2, <2>3, <3>3 DEF TlsShaking, TlsFinishing
    <3>5. ~Fortunate
      BY <1>1, <2>3 DEF Whole
    <3>6. QED
      BY <3>1, <3>2, <3>4, <3>5 DEF GoesWell, TcpRun, Pair
  <2>4. CASE scenario # "tampered-finished"
    <3>1. Exchange("server", 1, <<FinishedFrame(TRUE)>>) /\ Goto("server", "send")
      BY <1>9, <2>4 DEF TlsServerFinished
    <3>2. net' = [server |-> <<>>, client |-> <<FinishedFrame(TRUE)>>]
      BY <1>1, <2>2, <3>1, OneForOne DEF Stage
    <3>3. at'.server = "send" /\ at'.client = "finished"
      BY <1>2, <2>2, <3>1 DEF Stage
    <3>4. net'.client = <<FinishedFrame(TRUE)>> /\ net'.server = <<>>
      BY <3>2
    <3>5. /\ Len(<<FinishedFrame(TRUE)>>) = 1 /\ <<FinishedFrame(TRUE)>> # <<>>
          /\ <<FinishedFrame(TRUE)>>[1] = FinishedFrame(TRUE)
      BY TcpStagesAre
    <3>6. TcpReads(1)'
      BY <1>1, <2>2, <3>3, <3>4, <3>5 DEF TcpReads
    <3>7. mem.sent = 0
      BY <2>1 DEF TcpInv, SecretInv, LetInInv
    <3>8. \A i \in 1 + 1..Len(net'.client) : FALSE
      BY <3>4, <3>5
    <3>9. TcpWhole(1)' \/ TcpSpoilt(1)'
      BY <2>1, <3>3, <3>7, <3>8 DEF TcpWhole, TcpSpoilt, UnitsFresh, NoTerminate
    <3>10. TcpSending'
      BY <1>1, <2>2, <2>4, <3>3, <3>6, <3>9 DEF TcpSending
    <3>11. QED
      BY <3>1, <3>2, <3>10 DEF GoesWell, TcpRun, Pair
  <2>5. QED
    BY <2>3, <2>4
<1>10. QED
  BY <1>4, <1>5, <1>6, <1>7, <1>8, <1>9

\* The frames of a unit.
LEMMA FramesAre ==
  ASSUME protocol \in TcpFamily, TcpShape, mem.sent < Len(content), NEW k, k = mem.sent + 1
  PROVE  \E m \in TcpMessages :
           /\ m.type # "TERMINATE"
           /\ Whole => NextUnit(m, k)
           /\ \/ TcpFrames(k) = <<m>>
              \/ TcpFrames(k) = <<m, m>> /\ scenario = "replay" /\ k = 1
<1>1. k \in Nat /\ k \in 1..Len(content) /\ content \in Seq(Data)
  BY DEF TcpShape, TcpMem
<1>2. content[k] \in Data
  BY <1>1
<1>3. CASE protocol = "tcp-basic"
  <2>1. TcpFrames(k) = <<DataFrame(content[k])>>
    <3>1. scenario # "replay"
      BY <1>3 DEF TcpShape, TcpBasicScenarios
    <3>2. QED
      BY <1>3, <3>1, Zenon DEF TcpFrames
  <2>2. DataFrame(content[k]) \in TcpMessages /\ DataFrame(content[k]).type = "DATA"
    BY <1>2, TcpMessagesAre
  <2>3. PICK m : m = DataFrame(content[k])
    OBVIOUS
  <2>4. m \in TcpMessages /\ m.type # "TERMINATE" /\ TcpFrames(k) = <<m>>
    BY <2>1, <2>2, <2>3
  <2>5. NextUnit(m, k)
    BY <2>2, <2>3 DEF NextUnit
  <2>6. QED
    BY ONLY <2>4, <2>5
<1>4. CASE protocol # "tcp-basic"
  <2>. PICK mac \in BOOLEAN : mac <=> ~(scenario = "tampered-app-data" /\ k = 1)
    OBVIOUS
  <2>1. PICK m : m = AppData(k, content[k], ~(scenario = "tampered-app-data" /\ k = 1))
    OBVIOUS
  <2>2. m = AppData(k, content[k], mac)
    BY <2>1 DEF AppData
  <2>3. m \in TcpMessages /\ m.type = "APP_DATA" /\ m.seq = k /\ m.mac = mac
    BY <1>1, <1>2, <2>2, TcpMessagesAre
  <2>4. Whole => mac
    BY DEF Whole
  <2>5. TcpFrames(k) = IF scenario = "replay" /\ k = 1 THEN <<m, m>> ELSE <<m>>
    BY <1>4, <2>1 DEF TcpFrames
  <2>6. Whole => NextUnit(m, k)
    BY ONLY <2>3, <2>4, Zenon DEF NextUnit
  <2>7. m \in TcpMessages /\ m.type # "TERMINATE" /\ m.seq = k
    BY <2>3
  <2>8. \/ TcpFrames(k) = <<m>>
        \/ TcpFrames(k) = <<m, m>> /\ scenario = "replay" /\ k = 1
    BY ONLY <2>5
  <2>9. QED
    BY ONLY <2>6, <2>7, <2>8, Zenon
<1>5. QED
  BY <1>3, <1>4

\* None of what the server sends is a TERMINATE.
LEMMA NoneSent ==
  ASSUME NEW old \in Seq(TcpMessages), NEW new \in Seq(TcpMessages), NEW m,
         m.type # "TERMINATE", Grows(old, new, <<m, m>>), NEW o \in {0, 1}, Len(old) >= o,
         NoTerminate(old, o)
  PROVE  NoTerminate(new, o) /\ (o = 1 => new # <<>> /\ new[1] = old[1])
<1>1. Len(<<m, m>>) = 2 /\ <<m, m>>[1] = m /\ <<m, m>>[2] = m
  OBVIOUS
<1>2. /\ Len(old) \in Nat /\ Len(new) = Len(old) + 2
      /\ \A i \in 1..Len(old) : new[i] = old[i]
      /\ new[Len(old) + 1] = m /\ new[Len(old) + 2] = m
  BY <1>1 DEF Grows
<1>3. \A i \in o + 1..Len(new) : \/ i \in o + 1..Len(old) /\ new[i] = old[i]
                                 \/ new[i] = m
  BY <1>2
<1>4. QED
  BY <1>2, <1>3, EmptySeq DEF NoTerminate

LEMMA TcpReadsStay ==
  ASSUME NEW o \in {0, 1}, TcpReads(o), SettingsStay, net'.server = net.server,
         at'.client = at.client, o = 1 => net'.client # <<>> /\ net'.client[1] = net.client[1]
  PROVE  TcpReads(o)'
<1>1. protocol' = protocol
  BY DEF SettingsStay
<1>2. CASE o = 0
  BY <1>2 DEF TcpReads
<1>3. CASE o = 1
  <2>1. PICK f : f = FinishedFrame(TRUE)
    OBVIOUS
  <2>2. /\ net.server = <<>>
        /\ \/ o = 0 /\ at.client = "data"
           \/ /\ o = 1 /\ net.client # <<>>
              /\ \/ /\ protocol = "tcp-basic" /\ at.client = "auth"
                    /\ net.client[1] = Frame("PASS_ACCEPT")
                 \/ /\ protocol = "tls-like" /\ at.client = "finished"
                    /\ net.client[1] = f
    BY <2>1 DEF TcpReads
  <2>3. /\ net'.server = <<>>
        /\ \/ o = 0 /\ at'.client = "data"
           \/ /\ o = 1 /\ net'.client # <<>>
              /\ \/ /\ protocol' = "tcp-basic" /\ at'.client = "auth"
                    /\ net'.client[1] = Frame("PASS_ACCEPT")
                 \/ /\ protocol' = "tls-like" /\ at'.client = "finished"
                    /\ net'.client[1] = f
    BY <1>1, <1>3, <2>2
  <2>4. QED
    BY <2>1, <2>3 DEF TcpReads
<1>4. QED
  BY <1>2, <1>3

LEMMA TcpServerLate ==
  ASSUME faults = {}, ~NothingToSpoil, protocol \in TcpFamily, SettingsStay, TcpInv, TcpRun,
         TcpServerSendsUnit \/ TcpServerTerminates \/ TcpServerSendBreaks
  PROVE  GoesWell("server") /\ TcpRun' /\ Pair(net')
<1>1. /\ Pair(at) /\ Pair(results) /\ Pair(net) /\ mem \in TcpMem /\ mem.sent \in Nat
      /\ Channels(TcpMessages) /\ TcpShape
      /\ protocol' = protocol /\ scenario' = scenario /\ content' = content
      /\ Fortunate <=> HasPassword /\ Whole
      /\ net.client \in Seq(TcpMessages) /\ Len(net.client) \in Nat
      /\ Len(content) \in Nat /\ Len(written) \in Nat /\ content \in Seq(Data)
  BY TcpFacts, TcpFortunate DEF SettingsStay, TcpInv
<1>2. /\ at.server = "send" /\ written' = written
      /\ mem'.passwords = mem.passwords
      /\ HasPassword' <=> HasPassword
  <2>1. at.server = "send" /\ written' = written
    BY DEF TcpServerSendsUnit, TcpServerTerminates, TcpServerSendBreaks, quietVars
  <2>2. mem'.passwords = mem.passwords
    BY <1>1 DEF TcpServerSendsUnit, TcpServerTerminates, TcpServerSendBreaks, TcpMem
  <2>3. QED
    BY <2>1, <2>2 DEF HasPassword
<1>3. /\ \A place : Goto("server", place) => at'.server = place /\ at'.client = at.client
      /\ \A printed : Finish("server", printed) => at'.server = "exit" /\ at'.client = at.client
      /\ Killed("server") => at'.server = "exit" /\ at'.client = at.client
  BY <1>1, Moves
<1>4. TcpSending \/ TcpAbandoned
  BY <1>2 DEF TcpRun, TcpJoining, TcpAsked, TcpAnswered, TcpRejected, TlsShaking, TlsHelloing,
     TlsFinishing, BothGone, Stage
<1>5. CASE TcpAbandoned
  <2>1. HasPassword /\ scenario = "tampered-app-data" /\ at.client = "exit" /\ ~Fortunate
    BY <1>1, <1>5 DEF TcpAbandoned, Whole
  <2>2. CASE TcpServerSendsUnit
    <3>. PICK k : k = mem.sent + 1
      OBVIOUS
    <3>1. Send("server", TcpFrames(k)) /\ Goto("server", "send")
      BY <2>1, <2>2 DEF TcpServerSendsUnit
    <3>2. Pair(net')
      BY <1>1, <3>1, SendIs DEF Pair
    <3>3. TcpAbandoned'
      BY <1>1, <1>2, <1>3, <2>1, <3>1 DEF TcpAbandoned
    <3>4. QED
      BY <3>1, <3>2, <3>3 DEF GoesWell, TcpRun
  <2>3. CASE TcpServerTerminates
    <3>1. net' = net /\ Finish("server", ABORT)
      BY <2>1, <2>3 DEF TcpServerTerminates
    <3>2. BothGone'
      BY <1>3, <2>1, <3>1 DEF BothGone
    <3>3. QED
      BY <1>1, <2>1, <3>1, <3>2 DEF GoesWell, TcpRun
  <2>4. CASE TcpServerSendBreaks
    <3>1. net' = net /\ (Finish("server", ABORT) \/ Killed("server"))
      BY <2>4 DEF TcpServerSendBreaks, SendBreaks
    <3>2. BothGone'
      BY <1>3, <2>1, <3>1 DEF BothGone
    <3>3. QED
      BY <1>1, <2>1, <3>1, <3>2 DEF GoesWell, TcpRun
  <2>5. QED
    BY <2>2, <2>3, <2>4
<1>6. CASE TcpSending
  <2>1. /\ HasPassword /\ scenario # "tampered-finished"
    BY <1>6 DEF TcpSending
  <2>2. PICK o \in {0, 1} : TcpReads(o) /\ (TcpWhole(o) \/ TcpSpoilt(o))
    BY <1>6 DEF TcpSending
  <2>3. /\ Len(net.client) >= o /\ NoTerminate(net.client, o)
        /\ mem.sent = Len(written) + Len(net.client) - o
        /\ at.client # "exit"
    <3>1. StreamBehind(o) /\ Len(net.client) >= o
      BY <2>2, TcpStreamIs
    <3>2. NoTerminate(net.client, o)
      BY <1>2, <2>2 DEF TcpWhole, TcpSpoilt
    <3>3. QED
      BY <1>2, <2>2, <3>1, <3>2 DEF StreamBehind, TcpReads
  <2>4. \/ Whole /\ UnitsFresh(net.client, Len(written), o)
        \/ OneUnit /\ ~Whole /\ mem.sent = 0 /\ content # <<>>
        \/ scenario = "tampered-app-data" /\ ~Whole /\ ~OneUnit
    <3>1. Whole \/ OneUnit \/ scenario = "tampered-app-data"
      BY <1>1, <2>1 DEF Whole, OneUnit, TcpShape, TcpBasicScenarios, TlsScenarios
    <3>2. OneUnit => content # <<>>
      BY DEF NothingToSpoil, OneUnit
    <3>3. Whole => ~OneUnit /\ scenario # "tampered-app-data"
      BY DEF Whole, OneUnit
    <3>4. OneUnit => scenario # "tampered-app-data"
      BY DEF OneUnit
    <3>5. QED
      BY <1>2, <2>2, <3>1, <3>2, <3>3, <3>4 DEF TcpWhole, TcpSpoilt
  <2>5. ASSUME Pair(net'), net'.server = net.server, at'.client = at.client,
               at'.server \in {"send", "exit"},
               o = 1 => net'.client # <<>> /\ net'.client[1] = net.client[1],
               TcpWhole(o)' \/ TcpSpoilt(o)'
        PROVE  TcpRun'
    <3>1. TcpReads(o)'
      BY <2>2, <2>5, TcpReadsStay
    <3>2. TcpSending'
      BY <1>1, <1>2, <2>1, <2>5, <3>1 DEF TcpSending
    <3>3. QED
      BY <3>2 DEF TcpRun
  <2>6. CASE TcpServerSendsUnit
    <3>. PICK k : k = mem.sent + 1
      OBVIOUS
    <3>1. /\ mem.sent < Len(content) /\ mem' = [mem EXCEPT !.sent = k]
          /\ Send("server", TcpFrames(k))
          /\ \/ k = 1 /\ OneUnit /\ Finish("server", ABORT)
             \/ ~(k = 1 /\ OneUnit) /\ Goto("server", "send")
      BY <2>6 DEF TcpServerSendsUnit, OneUnit
    <3>2. PICK m \in TcpMessages :
            /\ m.type # "TERMINATE"
            /\ Whole => NextUnit(m, k)
            /\ \/ TcpFrames(k) = <<m>>
               \/ TcpFrames(k) = <<m, m>> /\ scenario = "replay" /\ k = 1
      BY <1>1, <3>1, FramesAre
    <3>3. /\ Channels(TcpMessages)' /\ net'.server = net.server
          /\ \/ Gains(net.client, net'.client, m)
             \/ Grows(net.client, net'.client, <<m, m>>)
      <4>1. CASE TcpFrames(k) = <<m>>
        <5>1. Send("server", <<m>>)
          BY <3>1, <4>1
        <5>2. QED
          BY <1>1, <5>1, ServerSendsOne
      <4>2. CASE TcpFrames(k) = <<m, m>>
        <5>1. Send("server", <<m, m>>) /\ <<m, m>> \in Seq(TcpMessages)
          BY <3>1, <4>2
        <5>2. QED
          BY <1>1, <5>1, ServerSends
      <4>3. QED
        BY <3>2, <4>1, <4>2
    <3>4. net'.client \in Seq(TcpMessages) /\ Pair(net')
      BY <3>3 DEF Channels
    <3>5. /\ NoTerminate(net'.client, o)
          /\ o = 1 => net'.client # <<>> /\ net'.client[1] = net.client[1]
      <4>1. CASE Gains(net.client, net'.client, m)
        <5>1. UnitSent(net.client, net'.client, m, Len(written), o, k)
          BY <1>1, <2>3, <3>4, <4>1 DEF UnitSent
        <5>2. QED
          BY <3>2, <5>1, UnitsSent
      <4>2. CASE Grows(net.client, net'.client, <<m, m>>)
        BY <1>1, <2>3, <3>2, <3>4, <4>2, NoneSent
      <4>3. QED
        BY <3>3, <4>1, <4>2
    <3>6. CASE OneUnit
      <4>1. k = 1 /\ Finish("server", ABORT) /\ ~Whole
        <5>1. mem.sent = 0 /\ ~Whole
          BY <2>4, <3>6 DEF Whole, OneUnit
        <5>2. QED
          BY <3>1, <3>6, <5>1
      <4>2. at'.server = "exit" /\ at'.client = at.client
        BY <1>3, <4>1
      <4>3. TcpSpoilt(o)'
        BY <1>1, <3>5, <4>1, <4>2 DEF TcpSpoilt, Whole
      <4>4. TcpRun'
        BY <2>5, <3>3, <3>4, <3>5, <4>2, <4>3
      <4>5. QED
        BY <1>1, <3>4, <4>1, <4>4 DEF GoesWell
    <3>7. CASE ~OneUnit
      <4>1. Goto("server", "send") /\ at'.server = "send" /\ at'.client = at.client
        BY <1>3, <3>1, <3>7
      <4>2. TcpWhole(o)' \/ TcpSpoilt(o)'
        <5>1. CASE Whole
          <6>1. UnitsFresh(net.client, Len(written), o)
            BY <2>4, <3>7, <5>1 DEF Whole
          <6>2. Gains(net.client, net'.client, m)
            <7>1. TcpFrames(k) = <<m>>
              BY <3>2, <5>1 DEF Whole
            <7>2. Send("server", <<m>>)
              BY <3>1, <7>1
            <7>3. QED
              BY <1>1, <7>2, ServerSendsOne
          <6>3. UnitSent(net.client, net'.client, m, Len(written), o, k) /\ NextUnit(m, k)
            BY <1>1, <2>3, <3>2, <3>4, <5>1, <6>2 DEF UnitSent
          <6>4. UnitsFresh(net'.client, Len(written), o)
            BY <6>1, <6>3, UnitsSent
          <6>5. QED
            BY <1>1, <1>2, <3>5, <4>1, <5>1, <6>4 DEF TcpWhole, Whole
        <5>2. CASE ~Whole
          BY <1>1, <3>5, <3>7, <5>2 DEF TcpSpoilt, Whole, OneUnit
        <5>3. QED
          BY <5>1, <5>2
      <4>3. TcpRun'
        BY <2>5, <3>3, <3>4, <3>5, <4>1, <4>2
      <4>4. QED
        BY <3>4, <4>1, <4>3 DEF GoesWell
    <3>8. QED
      BY <3>6, <3>7
  <2>7. CASE TcpServerTerminates
    <3>1. mem.sent = Len(content) /\ ~OneUnit
      <4>1. mem.sent = Len(content)
        BY <2>7 DEF TcpServerTerminates
      <4>2. OneUnit => mem.sent = 0 /\ content # <<>>
        BY <2>4 DEF Whole, OneUnit
      <4>3. content # <<>> => Len(content) # 0
        BY <1>1, EmptySeq
      <4>4. QED
        BY <4>1, <4>2, <4>3
    <3>2. CASE scenario = "tampered-app-data"
      <4>1. net' = net /\ Finish("server", ABORT) /\ ~Whole
        BY <2>7, <3>2 DEF TcpServerTerminates, Whole
      <4>2. at'.server = "exit" /\ at'.client = at.client
        BY <1>3, <4>1
      <4>3. TcpSpoilt(o)'
        BY <1>1, <2>3, <4>1, <4>2 DEF TcpSpoilt, Whole
      <4>4. o = 1 => net'.client # <<>> /\ net'.client[1] = net.client[1]
        BY <1>1, <2>3, <4>1, EmptySeq
      <4>5. Pair(net') /\ net'.server = net.server
        BY <1>1, <4>1
      <4>6. TcpRun'
        BY <2>5, <4>2, <4>3, <4>4, <4>5
      <4>7. QED
        BY <1>1, <4>1, <4>5, <4>6 DEF GoesWell
    <3>3. CASE scenario # "tampered-app-data"
      <4>1. Whole
        BY <2>4, <3>1, <3>3
      <4>2. PICK digest \in Seq(Data) :
              Send("server", <<TerminateFrame(digest)>>) /\ Finish("server", OK)
        BY <1>1, <2>7, <3>3 DEF TcpServerTerminates, TcpShape
      <4>. PICK m : m = TerminateFrame(digest)
        OBVIOUS
      <4>3. m \in TcpMessages /\ m.type = "TERMINATE" /\ Send("server", <<m>>)
        BY <4>2, TcpMessagesAre
      <4>4. /\ Channels(TcpMessages)' /\ net'.server = net.server
            /\ Gains(net.client, net'.client, m)
        BY <1>1, <4>3, ServerSendsOne
      <4>5. net'.client \in Seq(TcpMessages) /\ Pair(net')
        BY <4>4 DEF Channels
      <4>6. at'.server = "exit" /\ at'.client = at.client
        BY <1>3, <4>2
      <4>7. Len(written) + Len(net.client) = Len(content) + o
        BY <1>1, <2>3, <3>1
      <4>8. UnitsFresh(net.client, Len(written), o)
        BY <2>4, <3>1, <3>3
      <4>9. /\ UnitsFresh(net'.client, Len(written), o)
            /\ Terminated(net'.client, Len(written), o)
            /\ o = 1 => net'.client # <<>> /\ net'.client[1] = net.client[1]
        <5>. PICK k : k = Len(content) + 1
          OBVIOUS
        <5>1. UnitSent(net.client, net'.client, m, Len(written), o, k)
          BY <1>1, <2>3, <4>4, <4>5, <4>7 DEF UnitSent
        <5>2. NextUnit(m, k)
          BY <4>3 DEF NextUnit
        <5>3. QED
          BY <4>3, <4>8, <5>1, <5>2, UnitsSent
      <4>10. TcpWhole(o)'
        BY <1>1, <1>2, <4>1, <4>6, <4>9 DEF TcpWhole, Whole, Terminated
      <4>11. TcpRun'
        BY <2>5, <4>4, <4>5, <4>6, <4>9, <4>10
      <4>12. QED
        BY <1>1, <2>1, <4>1, <4>2, <4>5, <4>11 DEF GoesWell
    <3>4. QED
      BY <3>2, <3>3
  <2>8. ~TcpServerSendBreaks
    BY <2>3, OtherIs DEF TcpServerSendBreaks, SendBreaks, Ended
  <2>9. QED
    BY <2>6, <2>7, <2>8
<1>7. QED
  BY <1>4, <1>5, <1>6

\* What the client sends when nothing, or one message, waits for it.
LEMMA TcpSpeaks ==
  ASSUME Pair(net), NEW m, NEW x
  PROVE  /\ net.server = <<>> /\ net.client = <<>> /\ TcpClientSends(0, <<x>>) =>
              net' = [server |-> <<x>>, client |-> <<>>]
         /\ net.server = <<>> /\ net.client = <<m>> =>
              /\ TcpClientSends(1, <<x>>) => net' = [server |-> <<x>>, client |-> <<>>]
              /\ TcpClientSends(1, <<>>) => net' = [server |-> <<>>, client |-> <<>>]
<1>1. /\ 0 + 1 = 1 /\ 1 + 1 = 2 /\ SubSeq(<<>>, 1, Len(<<>>)) = <<>>
      /\ SubSeq(<<m>>, 2, Len(<<m>>)) = <<>> /\ <<>> \o <<x>> = <<x>> /\ <<>> \o <<>> = <<>>
  BY ShortChannels
<1>2. \A taken, msgs : TcpClientSends(taken, msgs) =>
        net' = [server |-> net.server \o msgs,
                client |-> SubSeq(net.client, taken + 1, Len(net.client))]
  BY DEF TcpClientSends, Pair
<1>3. QED
  BY <1>1, <1>2

\* The client takes the first message and goes on to the frames, or to the next one.
LEMMA TcpReadsOn ==
  ASSUME protocol \in TcpFamily, SettingsStay, TcpInv, HasPassword,
         scenario # "tampered-finished", at.server \in {"send", "exit"},
         NEW o \in {0, 1}, TcpReads(o), TcpWhole(o) \/ TcpSpoilt(o), net.client # <<>>,
         o = 0 => net.client[1].type # "TERMINATE",
         TcpClientSends(1, <<>>), at'.client = "data", at'.server = at.server,
         mem'.sent = mem.sent, mem'.passwords = mem.passwords,
         NEW v \in Nat, Len(written') = v, v = Len(written) + 1 - o
  PROVE  TcpRun' /\ Pair(net')
<1>1. /\ TcpShape /\ protocol' = protocol /\ scenario' = scenario /\ content' = content
      /\ net.client \in Seq(TcpMessages) /\ Len(content) \in Nat /\ Len(written) \in Nat
  BY TcpFacts DEF SettingsStay, TcpInv
<1>2. /\ Channels(TcpMessages)' /\ net'.server = net.server
      /\ Shrinks(net.client, net'.client)
  BY <1>1, ClientTakesIs
<1>3. net'.client \in Seq(TcpMessages) /\ Pair(net')
  BY <1>2 DEF Channels
<1>4. UnitTaken(net.client, net'.client, Len(written), o, v)
  BY <1>1, <1>2, <1>3 DEF UnitTaken
<1>5. TcpReads(0)'
  BY <1>2 DEF TcpReads
<1>6. TcpWhole(0)' \/ TcpSpoilt(0)'
  <2>1. CASE TcpWhole(o)
    <3>1. Whole /\ UnitsFresh(net.client, Len(written), o)
          /\ (at.server = "send" => NoTerminate(net.client, o))
          /\ (at.server = "exit" => Terminated(net.client, Len(written), o))
      BY <2>1 DEF TcpWhole
    <3>2. /\ UnitsFresh(net'.client, v, 0)
          /\ at.server = "send" => NoTerminate(net'.client, 0)
          /\ at.server = "exit" => Terminated(net'.client, v, 0)
      BY <1>4, <3>1, UnitsTaken
    <3>3. QED
      BY <1>1, <3>1, <3>2 DEF TcpWhole, Whole, Terminated
  <2>2. CASE TcpSpoilt(o)
    <3>1. NoTerminate(net'.client, 0)
      BY <1>4, <2>2, UnitsTaken DEF TcpSpoilt
    <3>2. QED
      BY <1>1, <2>2, <3>1 DEF TcpSpoilt, Whole, OneUnit
  <2>3. QED
    BY <2>1, <2>2
<1>7. HasPassword'
  BY DEF HasPassword
<1>8. TcpSending'
  BY <1>1, <1>5, <1>6, <1>7 DEF TcpSending
<1>9. QED
  BY <1>3, <1>8 DEF TcpRun

\* What the client may have before it when it waits for the frames.
LEMMA TcpWaits ==
  ASSUME TcpRun
  PROVE  /\ at.client = "start" =>
              mem.given = 0 /\ mem.attempt = 0 /\ Stage("join", "start", <<>>, <<>>)
         /\ at.client = "auth" /\ net.client # <<>> =>
              \/ TcpAsked \/ TcpRejected
              \/ /\ protocol = "tls-like" /\ HasPassword
                 /\ Stage("hello", "auth", <<>>, <<Frame("PASS_ACCEPT")>>)
              \/ /\ TcpSending /\ TcpReads(1) /\ (TcpWhole(1) \/ TcpSpoilt(1))
                 /\ protocol = "tcp-basic" /\ net.client[1] = Frame("PASS_ACCEPT")
         /\ at.client = "hello" /\ net.client # <<>> =>
              /\ protocol = "tls-like" /\ HasPassword
              /\ Stage("finished", "hello", <<>>, <<Frame("SERVER_HELLO")>>)
         /\ at.client = "data" => TcpSending /\ TcpReads(0) /\ (TcpWhole(0) \/ TcpSpoilt(0))
<1>1. \/ TcpJoining \/ TcpAsked \/ TcpAnswered \/ TcpRejected
      \/ TlsShaking \/ TcpSending \/ TcpAbandoned \/ BothGone
  BY DEF TcpRun
<1>2. TcpSending =>
        \/ TcpReads(0) /\ (TcpWhole(0) \/ TcpSpoilt(0)) /\ at.client = "data"
        \/ TcpReads(1) /\ (TcpWhole(1) \/ TcpSpoilt(1)) /\ at.client = "finished"
        \/ /\ TcpReads(1) /\ (TcpWhole(1) \/ TcpSpoilt(1)) /\ at.client = "auth"
           /\ protocol = "tcp-basic" /\ net.client[1] = Frame("PASS_ACCEPT")
  BY DEF TcpSending, TcpReads
<1>3. at.client = "start" =>
        mem.given = 0 /\ mem.attempt = 0 /\ Stage("join", "start", <<>>, <<>>)
  BY <1>1, <1>2 DEF TcpJoining, TcpAsked, TcpAnswered, TcpRejected, TlsShaking, TlsHelloing,
     TlsFinishing, TcpAbandoned, BothGone, Stage
<1>4. at.client = "auth" /\ net.client # <<>> =>
        \/ TcpAsked \/ TcpRejected
        \/ /\ protocol = "tls-like" /\ HasPassword
           /\ Stage("hello", "auth", <<>>, <<Frame("PASS_ACCEPT")>>)
        \/ /\ TcpSending /\ TcpReads(1) /\ (TcpWhole(1) \/ TcpSpoilt(1))
           /\ protocol = "tcp-basic" /\ net.client[1] = Frame("PASS_ACCEPT")
  BY <1>1, <1>2 DEF TcpJoining, TcpAnswered, TlsShaking, TlsHelloing, TlsFinishing,
     TcpAbandoned, BothGone, Stage
<1>5. at.client = "hello" /\ net.client # <<>> =>
        /\ protocol = "tls-like" /\ HasPassword
        /\ Stage("finished", "hello", <<>>, <<Frame("SERVER_HELLO")>>)
  BY <1>1, <1>2 DEF TcpJoining, TcpAsked, TcpAnswered, TcpRejected, TlsShaking, TlsHelloing,
     TlsFinishing, TcpAbandoned, BothGone, Stage
<1>6. at.client = "data" => TcpSending /\ TcpReads(0) /\ (TcpWhole(0) \/ TcpSpoilt(0))
  BY <1>1, <1>2 DEF TcpJoining, TcpAsked, TcpAnswered, TcpRejected, TlsShaking, TlsHelloing,
     TlsFinishing, TcpAbandoned, BothGone, Stage
<1>7. QED
  BY <1>3, <1>4, <1>5, <1>6

LEMMA TcpClientEarly ==
  ASSUME faults = {}, stopped = {}, protocol \in TcpFamily, SettingsStay, TcpInv, TcpRun,
         TcpClientStart \/ TcpClientRefused \/ TcpClientAuth \/ TlsClientHello
  PROVE  GoesWell("client") /\ TcpRun' /\ Pair(net')
<1>1. /\ Pair(at) /\ Pair(results) /\ Pair(net) /\ mem \in TcpMem
      /\ mem.given \in 0..3 /\ mem.attempt \in 0..3
      /\ \A k \in 1..3 : mem.passwords[k] \in BOOLEAN
      /\ protocol' = protocol /\ scenario' = scenario /\ content' = content
      /\ Fortunate <=> HasPassword /\ Whole
      /\ Len(written) \in Nat
  BY TcpFacts, TcpFortunate DEF SettingsStay, TcpInv
<1>2. /\ \A place : Goto("client", place) => at'.client = place /\ at'.server = at.server
      /\ \A printed : Finish("client", printed) => at'.client = "exit" /\ at'.server = at.server
  BY <1>1, Moves
<1>3. CASE TcpClientStart
  <2>1. /\ at.client = "start" /\ mem' = mem
        /\ TcpClientSends(0, <<Frame("JOIN_REQ")>>) /\ Goto("client", "auth")
    <3>1. stopped' = stopped
      BY <1>1, <1>3, CalmReceives DEF TcpClientStart
    <3>2. QED
      BY <1>3, <3>1 DEF TcpClientStart, TcpClientNextRound
  <2>2. mem.given = 0 /\ mem.attempt = 0 /\ Stage("join", "start", <<>>, <<>>)
    BY <2>1, TcpWaits
  <2>3. net' = [server |-> <<Frame("JOIN_REQ")>>, client |-> <<>>]
    BY <1>1, <2>1, <2>2, TcpSpeaks DEF Stage
  <2>4. TcpJoining'
    BY <1>2, <2>1, <2>2, <2>3 DEF TcpJoining, Stage
  <2>5. QED
    BY <2>1, <2>3, <2>4 DEF GoesWell, TcpRun, Pair
<1>4. ~TcpClientRefused
  BY TcpWaits DEF TcpClientRefused, Ended, Stage
<1>5. CASE TlsClientHello
  <2>1. at.client = "hello" /\ net.client # <<>> /\ mem' = mem
    BY <1>5 DEF TlsClientHello
  <2>2. /\ protocol = "tls-like" /\ HasPassword
        /\ Stage("finished", "hello", <<>>, <<Frame("SERVER_HELLO")>>)
    BY <2>1, TcpWaits
  <2>3. Head(net.client).type = "SERVER_HELLO"
    BY <2>2, TcpStagesAre DEF Stage
  <2>4. TcpClientSends(1, <<FinishedFrame(TRUE)>>) /\ Goto("client", "finished")
    BY <1>5, <2>3 DEF TlsClientHello
  <2>5. net' = [server |-> <<FinishedFrame(TRUE)>>, client |-> <<>>]
    BY <1>1, <2>2, <2>4, TcpSpeaks DEF Stage
  <2>6. Stage("finished", "finished", <<FinishedFrame(TRUE)>>, <<>>)'
    BY <1>2, <2>2, <2>4, <2>5 DEF Stage
  <2>7. TlsShaking'
    BY <1>1, <2>1, <2>2, <2>6 DEF TlsShaking, TlsFinishing, HasPassword
  <2>8. QED
    BY <2>4, <2>5, <2>7 DEF GoesWell, TcpRun, Pair
<1>6. CASE TcpClientAuth
  <2>1. /\ at.client = "auth" /\ net.client # <<>> /\ stopped' = {} /\ written' = written
        /\ "client" \notin stopped'
    BY <1>1, <1>6, CalmReceives DEF TcpClientAuth, fileVars
  <2>2. \/ TcpAsked \/ TcpRejected
        \/ /\ protocol = "tls-like" /\ HasPassword
           /\ Stage("hello", "auth", <<>>, <<Frame("PASS_ACCEPT")>>)
        \/ /\ TcpSending /\ TcpReads(1) /\ (TcpWhole(1) \/ TcpSpoilt(1))
           /\ protocol = "tcp-basic" /\ net.client[1] = Frame("PASS_ACCEPT")
    BY <2>1, TcpWaits
  <2>3. CASE TcpAsked
    <3>1. /\ mem.attempt <= 2 /\ WrongSoFar(mem.attempt) /\ mem.given = mem.attempt
          /\ Stage("auth", "auth", <<>>, <<Frame("PASS_REQ")>>)
      BY <2>3 DEF TcpAsked
    <3>2. Head(net.client).type = "PASS_REQ"
      BY <3>1, TcpStagesAre DEF Stage
    <3>. PICK n : n = mem.given + 1
      OBVIOUS
    <3>3. /\ mem' = [mem EXCEPT !.given = n]
          /\ TcpClientSends(1, <<PassResp(mem.passwords[n])>>) /\ Goto("client", "auth")
      BY <1>6, <2>1, <3>2 DEF TcpClientAuth, TcpClientNextRound
    <3>4. n \in 1..3 /\ n = mem.attempt + 1
      BY <1>1, <3>1
    <3>5. PICK right \in BOOLEAN : right = mem.passwords[n]
      BY <1>1, <3>4
    <3>6. net' = [server |-> <<PassResp(right)>>, client |-> <<>>]
      <4>1. TcpClientSends(1, <<PassResp(right)>>)
        BY <3>3, <3>5, Zenon
      <4>2. QED
        BY <1>1, <3>1, <4>1, TcpSpeaks DEF Stage
    <3>7. Stage("auth", "auth", <<PassResp(right)>>, <<>>)'
      BY <1>2, <3>1, <3>3, <3>6 DEF Stage
    <3>8. /\ mem'.attempt = mem.attempt /\ mem'.given = n /\ mem'.passwords = mem.passwords
      BY <1>1, <3>3 DEF TcpMem
    <3>9. right <=> mem'.passwords[mem'.given]
      BY ONLY <3>5, <3>8, Zenon
    <3>10. \E r \in BOOLEAN :
             (r <=> mem'.passwords[mem'.given]) /\ Stage("auth", "auth", <<PassResp(r)>>, <<>>)'
      BY ONLY <3>7, <3>9, Zenon
    <3>11. /\ mem'.attempt <= 2 /\ WrongSoFar(mem.attempt)' /\ mem'.given = mem'.attempt + 1
      BY ONLY <3>1, <3>4, <3>8 DEF WrongSoFar
    <3>12. TcpAnswered'
      BY <3>8, <3>10, <3>11, Zenon DEF TcpAnswered, WrongSoFar
    <3>13. QED
      BY <3>3, <3>6, <3>12 DEF GoesWell, TcpRun, Pair
  <2>4. CASE TcpRejected
    <3>1. ~HasPassword /\ Stage("exit", "auth", <<>>, <<Frame("REJECT")>>)
      BY <2>4 DEF TcpRejected
    <3>2. Head(net.client).type = "REJECT"
      BY <3>1, TcpStagesAre DEF Stage
    <3>3. TcpClientSends(1, <<>>) /\ Finish("client", ABORT)
      BY <1>6, <3>2 DEF TcpClientAuth
    <3>4. net' = [server |-> <<>>, client |-> <<>>]
      BY <1>1, <3>1, <3>3, TcpSpeaks DEF Stage
    <3>5. BothGone'
      BY <1>2, <3>1, <3>3 DEF BothGone, Stage
    <3>6. QED
      BY <1>1, <3>1, <3>3, <3>4, <3>5 DEF GoesWell, TcpRun, Pair
  <2>5. ASSUME Head(net.client).type = "PASS_ACCEPT"
        PROVE  /\ mem' = mem
               /\ protocol = "tls-like" => /\ TcpClientSends(1, <<Frame("CLIENT_HELLO")>>)
                                           /\ Goto("client", "hello")
               /\ protocol = "tcp-basic" => TcpClientSends(1, <<>>) /\ Goto("client", "data")
    <3>1. mem' = mem /\ TcpClientTransfers(1, <<>>)
      BY <1>6, <2>5 DEF TcpClientAuth
    <3>2. <<>> \o <<Frame("CLIENT_HELLO")>> = <<Frame("CLIENT_HELLO")>>
      BY ShortChannels
    <3>3. QED
      BY <2>1, <3>1, <3>2 DEF TcpClientTransfers
  <2>6. CASE /\ protocol = "tls-like" /\ HasPassword
             /\ Stage("hello", "auth", <<>>, <<Frame("PASS_ACCEPT")>>)
    <3>1. Head(net.client).type = "PASS_ACCEPT"
      BY <2>6, TcpStagesAre DEF Stage
    <3>2. mem' = mem /\ TcpClientSends(1, <<Frame("CLIENT_HELLO")>>) /\ Goto("client", "hello")
      BY <2>5, <2>6, <3>1
    <3>3. net' = [server |-> <<Frame("CLIENT_HELLO")>>, client |-> <<>>]
      BY <1>1, <2>6, <3>2, TcpSpeaks DEF Stage
    <3>4. Stage("hello", "hello", <<Frame("CLIENT_HELLO")>>, <<>>)'
      BY <1>2, <2>6, <3>2, <3>3 DEF Stage
    <3>5. TlsShaking'
      BY <1>1, <2>6, <3>2, <3>4 DEF TlsShaking, TlsHelloing, HasPassword
    <3>6. QED
      BY <3>2, <3>3, <3>5 DEF GoesWell, TcpRun, Pair
  <2>7. CASE /\ TcpSending /\ TcpReads(1) /\ (TcpWhole(1) \/ TcpSpoilt(1))
             /\ protocol = "tcp-basic" /\ net.client[1] = Frame("PASS_ACCEPT")
    <3>1. Head(net.client).type = "PASS_ACCEPT"
      <4>1. Head(net.client) = net.client[1]
        BY <2>1, TcpFacts, FirstOf
      <4>2. QED
        BY <2>7, <4>1, TcpStagesAre
    <3>2. mem' = mem /\ TcpClientSends(1, <<>>) /\ Goto("client", "data")
      BY <2>5, <2>7, <3>1
    <3>3. HasPassword /\ scenario # "tampered-finished" /\ at.server \in {"send", "exit"}
      BY <2>7 DEF TcpSending
    <3>. PICK v \in Nat : v = Len(written)
      BY <1>1
    <3>4. Len(written') = v /\ v = Len(written) + 1 - 1
      BY <2>1
    <3>5. at'.client = "data" /\ at'.server = at.server
      BY <1>2, <3>2
    <3>6. TcpRun' /\ Pair(net')
      BY <2>1, <2>7, <3>2, <3>3, <3>4, <3>5, TcpReadsOn
    <3>7. QED
      BY <3>2, <3>6 DEF GoesWell
  <2>8. QED
    BY <2>2, <2>3, <2>4, <2>6, <2>7
<1>7. QED
  BY <1>3, <1>4, <1>5, <1>6

LEMMA TcpClientLate ==
  ASSUME faults = {}, stopped = {}, original = content, protocol \in TcpFamily, SettingsStay,
         TcpInv, TcpRun,
         TcpClientReceiveFails \/ TlsClientFinished \/ TcpClientData \/ TcpClientTerminate
  PROVE  GoesWell("client") /\ TcpRun' /\ Pair(net')
<1>1. /\ TcpShape /\ Pair(at) /\ Pair(results) /\ Pair(net) /\ mem \in TcpMem
      /\ protocol' = protocol /\ scenario' = scenario /\ content' = content
      /\ Fortunate <=> HasPassword /\ Whole
      /\ net.client \in Seq(TcpMessages) /\ Len(written) \in Nat /\ Len(content) \in Nat
      /\ written \in Seq(Data) /\ content \in Seq(Data)
  BY TcpFacts, TcpFortunate DEF SettingsStay, TcpInv
<1>2. /\ \A place : Goto("client", place) => at'.client = place /\ at'.server = at.server
      /\ \A printed : Finish("client", printed) => at'.client = "exit" /\ at'.server = at.server
  BY <1>1, Moves
<1>3. net.client # <<>> => Head(net.client) = net.client[1] /\ Len(net.client) >= 1
  BY <1>1, FirstOf
<1>4. TcpRun => \/ TcpJoining \/ TcpAsked \/ TcpAnswered \/ TcpRejected
                \/ TlsShaking \/ TcpSending \/ TcpAbandoned \/ BothGone
  BY DEF TcpRun
<1>5. CASE TcpClientReceiveFails
  <2>1. /\ at.client \in {"auth", "hello", "finished", "data"} /\ at.server = "exit"
        /\ net.client = <<>> /\ net' = net /\ Finish("client", ABORT)
    BY <1>1, <1>5, CalmReceives DEF TcpClientReceiveFails
  <2>2. TcpSending /\ TcpReads(0) /\ (TcpWhole(0) \/ TcpSpoilt(0))
    <3>1. at.client = "data"
      <4>1. ~TlsShaking
        <5>1. \A x : <<>> # <<x>>
          BY ShortChannels
        <5>2. QED
          BY <2>1, <5>1, Zenon DEF TlsShaking, TlsHelloing, TlsFinishing, Stage
      <4>2. TcpSending => at.client = "data"
        BY <2>1 DEF TcpSending, TcpReads
      <4>3. QED
        BY <1>4, <2>1, <4>1, <4>2 DEF TcpJoining, TcpAsked, TcpAnswered, TcpRejected,
           TcpAbandoned, BothGone, Stage
    <3>2. QED
      BY <3>1, TcpWaits
  <2>3. ~Whole
    <3>1. ~(Len(net.client) > 0)
      BY <2>1, EmptySeq
    <3>2. QED
      BY <2>1, <2>2, <3>1 DEF TcpWhole, TcpSpoilt, Terminated
  <2>4. BothGone'
    BY <1>2, <2>1 DEF BothGone
  <2>5. QED
    BY <1>1, <2>1, <2>3, <2>4 DEF GoesWell, TcpRun
<1>6. CASE TlsClientFinished
  <2>1. /\ at.client = "finished" /\ net.client # <<>> /\ TcpClientSends(1, <<>>)
        /\ mem' = mem /\ written' = written
    BY <1>6 DEF TlsClientFinished, fileVars
  <2>2. PICK t, f : t = FinishedFrame(TRUE) /\ f = FinishedFrame(FALSE)
    OBVIOUS
  <2>3. t # f
    BY <2>2 DEF FinishedFrame
  <2>4. \/ /\ scenario = "tampered-finished" /\ HasPassword
           /\ Stage("exit", "finished", <<>>, <<f>>)
        \/ TcpSending /\ TcpReads(1) /\ (TcpWhole(1) \/ TcpSpoilt(1)) /\ net.client[1] = t
    <3>1. TlsFinishing => \/ net.client = <<>>
                          \/ scenario = "tampered-finished" /\ Stage("exit", "finished", <<>>, <<f>>)
      BY <2>2, Zenon DEF TlsFinishing, Stage
    <3>2. TlsShaking => TlsFinishing /\ HasPassword
      BY <2>1 DEF TlsShaking, TlsHelloing, Stage
    <3>3. TcpSending => /\ TcpReads(1) /\ (TcpWhole(1) \/ TcpSpoilt(1))
                        /\ net.client[1] = t
      <4>1. ASSUME TcpSending
            PROVE  TcpReads(1) /\ (TcpWhole(1) \/ TcpSpoilt(1))
        BY <2>1, <4>1 DEF TcpSending, TcpReads
      <4>2. TcpReads(1) => net.client[1] = t
        <5>1. ASSUME TcpReads(1)
              PROVE  \/ 1 = 0
                     \/ at.client = "auth"
                     \/ net.client[1] = t
          BY <2>2, <5>1, Zenon DEF TcpReads
        <5>2. 1 # 0
          OBVIOUS
        <5>3. QED
          BY <2>1, <5>1, <5>2
      <4>3. QED
        BY <4>1, <4>2
    <3>4. QED
      BY <1>4, <2>1, <3>1, <3>2, <3>3 DEF TcpJoining, TcpAsked, TcpAnswered, TcpRejected,
         TcpAbandoned, BothGone, Stage
  <2>5. CASE /\ scenario = "tampered-finished" /\ HasPassword
             /\ Stage("exit", "finished", <<>>, <<f>>)
    <3>1. Head(net.client) = f
      BY <2>5, ShortChannels DEF Stage
    <3>2. Head(net.client) # t /\ at.server = "exit"
      BY <2>3, <2>5, <3>1 DEF Stage
    <3>3. ~TlsVerified(Head(net.client))
      BY <2>2, <3>2, Zenon DEF TlsVerified
    <3>4. Finish("client", ABORT)
      BY <1>6, <3>3 DEF TlsClientFinished
    <3>5. net' = [server |-> <<>>, client |-> <<>>]
      BY <1>1, <2>1, <2>5, TcpSpeaks DEF Stage
    <3>6. BothGone' /\ ~Fortunate
      BY <1>1, <1>2, <2>5, <3>2, <3>4 DEF BothGone, Whole
    <3>7. QED
      BY <3>4, <3>5, <3>6 DEF GoesWell, TcpRun, Pair
  <2>6. CASE TcpSending /\ TcpReads(1) /\ (TcpWhole(1) \/ TcpSpoilt(1)) /\ net.client[1] = t
    <3>1. Head(net.client) = t
      BY <1>3, <2>1, <2>6
    <3>2. TlsVerified(Head(net.client))
      BY <2>2, <3>1, Zenon DEF TlsVerified
    <3>3. Goto("client", "data")
      <4>1. TcpClientNextFrame
        BY <1>6, <3>2 DEF TlsClientFinished
      <4>2. stopped' = stopped
        BY <1>1, <4>1, CalmReceives DEF TcpClientNextFrame
      <4>3. QED
        BY <4>1, <4>2 DEF TcpClientNextFrame
    <3>4. HasPassword /\ scenario # "tampered-finished" /\ at.server \in {"send", "exit"}
      BY <2>6 DEF TcpSending
    <3>. PICK v \in Nat : v = Len(written)
      BY <1>1
    <3>5. Len(written') = v /\ v = Len(written) + 1 - 1
      BY <1>1, <2>1
    <3>6. at'.client = "data" /\ at'.server = at.server
      BY <1>2, <3>3
    <3>7. TcpRun' /\ Pair(net')
      BY <2>1, <2>6, <3>4, <3>5, <3>6, TcpReadsOn
    <3>8. QED
      BY <3>3, <3>7 DEF GoesWell
  <2>7. QED
    BY <2>4, <2>5, <2>6
<1>7. ASSUME at.client = "data", net.client # <<>>
      PROVE  /\ TcpReads(0) /\ (TcpWhole(0) \/ TcpSpoilt(0))
             /\ HasPassword /\ scenario # "tampered-finished" /\ at.server \in {"send", "exit"}
             /\ at.server = "exit" \/ NoTerminate(net.client, 0)
             /\ StreamBehind(0) /\ 1 \in 0 + 1..Len(net.client) /\ Len(net.client) \in Nat
  <2>1. TcpSending /\ TcpReads(0) /\ (TcpWhole(0) \/ TcpSpoilt(0))
    BY <1>7, TcpWaits
  <2>2. HasPassword /\ scenario # "tampered-finished" /\ at.server \in {"send", "exit"}
    BY <2>1 DEF TcpSending
  <2>3. at.server = "exit" \/ NoTerminate(net.client, 0)
    BY <2>1, <2>2 DEF TcpWhole, TcpSpoilt
  <2>4. StreamBehind(0)
    BY <2>1, TcpStreamIs
  <2>5. 1 \in 0 + 1..Len(net.client) /\ Len(net.client) \in Nat
    BY <1>1, <1>3, <1>7
  <2>6. QED
    BY <2>1, <2>2, <2>3, <2>4, <2>5
<1>8. CASE TcpClientData
  <2>. PICK m : m = Head(net.client)
    OBVIOUS
  <2>1. /\ at.client = "data" /\ net.client # <<>> /\ m = net.client[1]
        /\ TcpClientSends(1, <<>>)
        /\ m.type \in {"DATA", "APP_DATA"}
    BY <1>3, <1>8 DEF TcpClientData
  <2>2. \/ m.type = "DATA" \/ (m.type = "APP_DATA" /\ AppDataFresh(m))
             => /\ Gains(written, written', m.unit) /\ TcpClientNextFrame
                /\ mem'.sent = mem.sent /\ mem'.passwords = mem.passwords
    <3>1. m \in TcpMessages
      BY <1>1, <2>1, FirstOf
    <3>2. m.unit \in Data
      BY <2>1, <3>1, TcpFields
    <3>3. ASSUME m.type = "DATA" \/ (m.type = "APP_DATA" /\ AppDataFresh(m))
          PROVE  written' = Append(written, m.unit) /\ TcpClientNextFrame
      BY <1>8, <3>3 DEF TcpClientData
    <3>4. mem'.sent = mem.sent /\ mem'.passwords = mem.passwords
      BY <1>1, <1>8 DEF TcpClientData, TcpMem
    <3>5. QED
      BY <1>1, <3>2, <3>3, <3>4, Appended
  <2>3. ASSUME m.type = "DATA" \/ (m.type = "APP_DATA" /\ AppDataFresh(m))
        PROVE  GoesWell("client") /\ TcpRun' /\ Pair(net')
    <3>1. /\ Gains(written, written', m.unit) /\ TcpClientNextFrame
          /\ mem'.sent = mem.sent /\ mem'.passwords = mem.passwords
      BY <2>2, <2>3
    <3>2. Goto("client", "data")
      <4>1. stopped' = stopped
        BY <1>1, <3>1, CalmReceives DEF TcpClientNextFrame
      <4>2. QED
        BY <3>1, <4>1 DEF TcpClientNextFrame
    <3>3. at'.client = "data" /\ at'.server = at.server
      BY <1>2, <3>2
    <3>. PICK v \in Nat : v = Len(written) + 1
      BY <1>1
    <3>4. Len(written') = v /\ v = Len(written) + 1 - 0
      BY <1>1, <3>1 DEF Gains
    <3>5. net.client[1].type # "TERMINATE"
      BY <2>1
    <3>6. TcpRun' /\ Pair(net')
      BY <1>7, <2>1, <3>1, <3>3, <3>4, <3>5, TcpReadsOn
    <3>7. QED
      BY <3>2, <3>6 DEF GoesWell
  <2>4. ASSUME m.type = "APP_DATA", ~AppDataFresh(m)
        PROVE  GoesWell("client") /\ TcpRun' /\ Pair(net')
    <3>1. Finish("client", ABORT) /\ mem' = mem
      BY <1>8, <2>4 DEF TcpClientData
    <3>2. ~Whole
      <4>1. ASSUME Whole
            PROVE  FALSE
        <5>1. NextUnit(m, Len(written) + 1 - 0)
          BY <1>7, <2>1, <4>1 DEF TcpWhole, TcpSpoilt, UnitsFresh
        <5>2. m.seq = Len(written) + 1 - 0 /\ m.mac
          BY <2>4, <5>1 DEF NextUnit
        <5>3. protocol = "tls-like"
          <6>1. InStream(m, Len(written) + 1 - 0)
            BY <1>7, <2>1 DEF StreamBehind
          <6>2. QED
            BY <2>4, <6>1 DEF InStream
        <5>4. mem.seen = Len(written)
          BY <5>3 DEF TcpInv, SequenceInv, WrittenInv
        <5>5. m.seq > mem.seen
          BY <1>1, <5>2, <5>4
        <5>6. QED
          BY <2>4, <5>2, <5>5, Zenon DEF AppDataFresh
      <4>2. QED
        BY <4>1
    <3>3. Pair(net')
      BY <1>1, <2>1, ClientTakesIs DEF Channels
    <3>4. at'.client = "exit" /\ at'.server = at.server
      BY <1>2, <3>1
    <3>5. CASE at.server = "exit"
      <4>1. BothGone'
        BY <3>4, <3>5 DEF BothGone
      <4>2. QED
        BY <1>1, <3>1, <3>2, <3>3, <4>1 DEF GoesWell, TcpRun
    <3>6. CASE at.server = "send"
      <4>1. HasPassword /\ scenario # "tampered-finished" /\ TcpSpoilt(0)
        BY <1>7, <2>1, <3>2 DEF TcpWhole
      <4>2. mem.sent = Len(written) + Len(net.client) - 0
        BY <1>7, <2>1, <3>6 DEF StreamBehind
      <4>3. mem.sent # 0
        BY <1>1, <1>3, <2>1, <4>2
      <4>4. ~OneUnit
        BY <3>6, <4>1, <4>3 DEF TcpSpoilt
      <4>5. scenario = "tampered-app-data"
        BY <1>1, <3>2, <4>1, <4>4 DEF Whole, OneUnit, TcpShape, TcpBasicScenarios, TlsScenarios
      <4>6. TcpAbandoned'
        BY <1>1, <3>1, <3>4, <3>6, <4>1, <4>5 DEF TcpAbandoned, HasPassword
      <4>7. QED
        BY <1>1, <3>1, <3>2, <3>3, <4>6 DEF GoesWell, TcpRun
    <3>7. QED
      BY <1>7, <2>1, <3>5, <3>6
  <2>5. QED
    BY <2>1, <2>3, <2>4
<1>9. CASE TcpClientTerminate
  <2>1. /\ at.client = "data" /\ net.client # <<>> /\ net.client[1].type = "TERMINATE"
        /\ TcpClientSends(1, <<>>)
    BY <1>3, <1>9 DEF TcpClientTerminate
  <2>2. at.server = "exit" /\ TcpWhole(0)
    <3>1. ~NoTerminate(net.client, 0)
      BY <1>7, <2>1 DEF NoTerminate
    <3>2. QED
      BY <1>7, <2>1, <3>1 DEF TcpSpoilt
  <2>3. Whole /\ Terminated(net.client, Len(written), 0)
    BY <2>2 DEF TcpWhole
  <2>4. Len(written) = Len(content)
    <3>1. /\ Len(net.client) > 0 /\ Len(written) + Len(net.client) = Len(content) + 1 + 0
          /\ \A i \in 0 + 1..Len(net.client) :
               i < Len(net.client) => net.client[i].type # "TERMINATE"
      BY <2>3 DEF Terminated
    <3>2. ~(1 < Len(net.client))
      BY <1>7, <2>1, <3>1
    <3>3. QED
      BY <1>1, <1>7, <2>1, <3>1, <3>2
  <2>5. written = content
    <3>1. \A i \in 1..Len(written) : written[i] = content[i]
      BY DEF TcpInv, SequenceInv, WrittenInv
    <3>2. QED
      BY <1>1, <2>4, <3>1, SeqEqual
  <2>6. net.client[1].digest = content
    <3>1. 1 \in 1..Len(net.client)
      BY <1>7, <2>1
    <3>2. QED
      BY <2>1, <3>1 DEF TcpInv, OutputInv, Announced
  <2>7. Finish("client", OK)
    <3>1. DigestMatches(Head(net.client))
      BY <1>3, <2>1, <2>5, <2>6 DEF DigestMatches
    <3>2. QED
      BY <1>9, <3>1 DEF TcpClientTerminate
  <2>8. BothGone'
    BY <1>2, <2>2, <2>7 DEF BothGone
  <2>9. HasPassword
    BY <1>7, <2>1
  <2>10. Pair(net')
    BY <1>1, <2>1, ClientTakesIs DEF Channels
  <2>11. QED
    BY <1>1, <2>3, <2>7, <2>8, <2>9, <2>10 DEF GoesWell, TcpRun
<1>10. QED
  BY <1>5, <1>6, <1>8, <1>9

LEMMA TcpServerRuns ==
  ASSUME faults = {}, stopped = {}, ~NothingToSpoil, protocol \in TcpFamily, SettingsStay,
         TcpInv, TcpRun, TcpServer
  PROVE  GoesWell("server") /\ TcpRun' /\ Pair(net')
BY TcpServerEarly, TcpServerLate DEF TcpServer

LEMMA TcpClientRuns ==
  ASSUME faults = {}, stopped = {}, original = content, protocol \in TcpFamily, SettingsStay,
         TcpInv, TcpRun, TcpClient
  PROVE  GoesWell("client") /\ TcpRun' /\ Pair(net')
BY TcpClientEarly, TcpClientLate DEF TcpClient
-----------------------------------------------------------------------------
(***************************************************************************)
(* Http2Demo, undisturbed.                                                 *)
(***************************************************************************)
\* What follows the first n frames: the second one of the k-th stream is its data.
H2Ids(n, frames) ==
  \A j \in 1..Len(frames), k \in Nat : n + j = 2 * k => frames[j].id = k

\* What can come behind so many frames.
IdFits(m, sent) == \A k \in Nat : sent + 1 = 2 * k => m.id = k

\* The client has written the data of all the streams before this one.
H2Written == mem.lines = [k \in 1..mem.stream - 1 |-> k]

H2Answering ==
  /\ H2Streaming /\ H2Ids(H2Taken, net.client)
  /\ scenario = "stream-cancellation" => at.client = "headers"
\* The server of multiplex ends with the last stream, before the client has read them all.
H2AllSent ==
  /\ scenario = "multiplex" /\ at.server = "exit" /\ at.client \in {"headers", "data"}
  /\ mem.seen = Multiplexed /\ mem.stream \in 1..H2Streams
  /\ H2Taken + Len(net.client) = H2Sent
  /\ H2InTurn(H2Taken, net.client) /\ H2Ids(H2Taken, net.client)
H2Together == H2Opening \/ H2Answering \/ H2Refusing \/ H2AllSent

\* The client has ended: with its streams, or with a RST_STREAM.
H2Left == scenario = "normal" /\ ~mem.cancelled /\ at.server = "frames" /\ net.server = <<>>
H2CancelSent ==
  /\ scenario = "stream-cancellation" /\ ~mem.cancelled
  /\ Len(net.server) = 1 /\ net.server[1].type = "RST_STREAM"
  /\ at.server = "frames" \/ (at.server = "body" /\ net.client = <<>>)
H2CancelRead ==
  scenario = "stream-cancellation" /\ mem.cancelled /\ at.server = "frames" /\ net.server = <<>>
H2ServerLast == at.client = "exit" /\ (H2Left \/ H2CancelSent \/ H2CancelRead \/ at.server = "exit")
H2Whole ==
  at.client = "exit" /\ scenario \in {"normal", "multiplex"} =>
    H2Written /\ mem.stream = H2Streams + 1
H2Run ==
  /\ scenario \in Http2Scenarios
  /\ (~mem.cancelled /\ H2Written /\ H2Together) \/ H2ServerLast
  /\ H2Whole

LEMMA H2Fortunate == protocol = "http2" => (Fortunate <=> scenario \in {"normal", "multiplex"})
BY DEF Fortunate, LetIn, TcpFamily, ExpectedOk

LEMMA IdsTaken ==
  ASSUME NEW n \in Nat, NEW old, NEW new, Len(old) \in Nat, Len(new) \in Nat,
         Shrinks(old, new), H2Ids(n, old)
  PROVE  H2Ids(n + 1, new)
<1>1. \A j \in 1..Len(new) : new[j] = old[j + 1] /\ j + 1 \in 1..Len(old)
  BY ShrinksIs
<1>2. \A j \in 1..Len(new) : (n + 1) + j = n + (j + 1)
  OBVIOUS
<1>3. ASSUME NEW j \in 1..Len(new), NEW k \in Nat, (n + 1) + j = 2 * k
      PROVE  new[j].id = k
  <2>1. n + (j + 1) = 2 * k => old[j + 1].id = k
    BY <1>1 DEF H2Ids
  <2>2. QED
    BY <1>1, <1>2, <1>3, <2>1
<1>4. QED
  BY <1>3 DEF H2Ids

LEMMA IdsSent ==
  ASSUME NEW n \in Nat, NEW old, NEW new, Len(old) \in Nat, NEW m, Gains(old, new, m),
         H2Ids(n, old), NEW sent, sent = n + Len(old),
         IdFits(m, sent)
  PROVE  H2Ids(n, new)
<1>1. ASSUME NEW j \in 1..Len(new), NEW k \in Nat, n + j = 2 * k
      PROVE  new[j].id = k
  <2>1. Len(new) = Len(old) + 1
    BY DEF Gains
  <2>2. CASE j \in 1..Len(old)
    <3>1. new[j] = old[j]
      BY <2>2 DEF Gains
    <3>2. QED
      BY SMTT(60), <1>1, <2>2, <3>1 DEF H2Ids
  <2>3. CASE j = Len(old) + 1
    <3>1. new[j] = m /\ n + j = sent + 1
      BY <2>3 DEF Gains
    <3>2. QED
      BY <1>1, <3>1 DEF IdFits
  <2>4. QED
    BY <2>1, <2>2, <2>3
<1>2. QED
  BY <1>1 DEF H2Ids

\* The next stream's data is written.
LEMMA LinesNext ==
  ASSUME NEW s \in Nat \ {0}
  PROVE  Append([k \in 1..s - 1 |-> k], s) = [k \in 1..(s + 1) - 1 |-> k]
<1>. DEFINE lines == [k \in 1..s - 1 |-> k]
<1>1. lines \in Seq(Nat) /\ Len(lines) = s - 1 /\ s - 1 \in Nat
  OBVIOUS
<1>2. \A k \in 1..s - 1 : lines[k] = k
  OBVIOUS
<1>. HIDE DEF lines
<1>3. /\ Append(lines, s) \in Seq(Nat) /\ Len(Append(lines, s)) = s
      /\ \A k \in 1..s - 1 : Append(lines, s)[k] = lines[k]
      /\ Append(lines, s)[s] = s
  BY <1>1
<1>4. \A k \in 1..s : Append(lines, s)[k] = k
  <2>1. \A k \in 1..s : k \in 1..s - 1 \/ k = s
    OBVIOUS
  <2>2. QED
    BY <1>2, <1>3, <2>1
<1>5. (s + 1) - 1 = s
  OBVIOUS
<1>6. Append(lines, s) = [k \in 1..s |-> Append(lines, s)[k]]
  <2>1. PICK more \in Seq(Nat) : more = Append(lines, s)
    BY <1>3
  <2>2. Len(more) = s
    BY <1>3, <2>1
  <2>3. more \in [1..Len(more) -> Nat]
    BY LenProperties
  <2>4. more = [k \in 1..Len(more) |-> more[k]]
    BY <2>3
  <2>5. QED
    BY <2>1, <2>2, <2>4
<1>7. QED
  BY <1>4, <1>5, <1>6 DEF lines

LEMMA H2PassEnds ==
  ASSUME faults = {}, stopped = {}, H2ServerNextFrame
  PROVE  Goto("server", "frames")
BY DEF H2ServerNextFrame, SignalWhileBusy

\* What the earlier lemmas say of a step from one of the stages they know.
LEMMA H2StreamsOn ==
  ASSUME H2Agreement', ReportedOnce'
  PROVE  /\ at'.server # "exit" /\ at'.client \in {"start", "settings"} => H2Opening'
         /\ at'.server # "exit" /\ at'.client \in {"headers", "data"} => H2Streaming'
         /\ at'.server = "exit" /\ at'.client # "exit" /\ ~PrintsOk("server")' => H2Refusing'
<1>1. at'.server # "exit" => ~PrintsOk("server")'
  BY Printed DEF ReportedOnce, PrintsOk
<1>2. QED
  BY <1>1 DEF H2Agreement, H2Stages, H2Opening, H2Streaming, H2Refusing, H2Served, Stage
LEMMA H2ServerRuns ==
  ASSUME faults = {}, stopped = {}, protocol = "http2", SettingsStay, ReportedOnce, ReportedOnce',
         H2Parts, H2Parts', H2Run, H2Server
  PROVE  GoesWell("server") /\ H2Run' /\ Pair(net')
<1>1. /\ Pair(at) /\ Pair(results) /\ Pair(net) /\ Pair(net') /\ mem \in H2Mem
      /\ net.server \in Seq(H2Messages) /\ net.client \in Seq(H2Messages)
      /\ scenario' = scenario /\ H2Streams' = H2Streams
      /\ scenario \in Http2Scenarios /\ "stop" \notin faults
      /\ (Fortunate <=> scenario \in {"normal", "multiplex"})
  BY H2Fortunate DEF ReportedOnce, SettingsStay, H2Streams, H2Parts, Channels, H2Run
<1>2. /\ \A place : place # "exit" /\ Goto("server", place) =>
           at'.server = place /\ at'.client = at.client /\ GoesWell("server")
      /\ \A printed : Finish("server", printed) => at'.server = "exit" /\ at'.client = at.client
  BY <1>1, Moves DEF GoesWell
<1>3. at.server # "exit"
  BY DEF H2Server, H2ServerPreface, H2ServerSettings, H2ServerHeaders, H2ServerBody,
     H2ServerOverflow, H2ServerOtherFrame, H2ServerReceiveFails, H2ServerSendBreaks
<1>4. H2ServerNextFrame => Goto("server", "frames")
  BY H2PassEnds
<1>5. net.server # <<>> => Head(net.server) = net.server[1]
  BY <1>1, FirstOf
<1>6. ~mem.cancelled /\ (H2Opening \/ H2Streaming \/ H2Served) => H2Agreement'
  BY <1>1, H2ServerAgrees DEF H2Agreement, H2Stages
<1>7. ReceiveFails("server") <=> at.client = "exit" /\ net.server = <<>>
  BY <1>1, CalmReceives
<1>8. CASE ~mem.cancelled /\ H2Written /\ H2Opening
  <2>1. /\ at.server \in {"preface", "settings", "frames"} /\ at.client \in {"start", "settings"}
        /\ at.server = "frames" => net.server = <<>>
    BY <1>8 DEF H2Opening, Stage
  <2>2. \/ H2ServerPreface /\ Goto("server", "settings") /\ mem' = mem
        \/ H2ServerSettings /\ Goto("server", "frames") /\ mem' = mem
    BY <1>4, <1>7, <2>1 DEF H2Server, H2ServerPreface, H2ServerSettings, H2ServerHeaders,
       H2ServerBody, H2ServerOverflow, H2ServerOtherFrame, H2ServerReceiveFails,
       H2ServerSendBreaks, Ended
  <2>3. at'.server # "exit" /\ at'.client = at.client /\ GoesWell("server")
    BY <1>2, <2>2
  <2>4. H2Opening' /\ mem' = mem
    BY <1>6, <1>8, <2>1, <2>2, <2>3, H2StreamsOn
  <2>5. H2Run'
    BY <1>1, <1>8, <2>1, <2>3, <2>4 DEF H2Run, H2Together, H2Written, H2Whole
  <2>6. QED
    BY <1>1, <2>3, <2>5
<1>9. CASE ~mem.cancelled /\ H2Written /\ H2Answering
  <2>1. /\ H2Streaming /\ at.client \in {"headers", "data"} /\ at.server \in {"frames", "body"}
        /\ mem.stream \in 1..H2Streams
        /\ scenario = "multiplex" => mem.seen < Multiplexed
        /\ H2Taken + Len(net.client) = H2Sent
        /\ H2InTurn(H2Taken, net.client) /\ H2Requests(H2Streams, H2Begun, net.server)
        /\ H2Ids(H2Taken, net.client)
        /\ scenario = "stream-cancellation" => at.client = "headers"
    BY <1>9 DEF H2Answering, H2Streaming
  <2>2. /\ H2Taken \in Nat /\ H2Sent \in Nat /\ H2Begun \in Nat /\ H2Streams \in Nat
        /\ Len(net.client) \in Nat /\ Len(net.server) \in Nat /\ mem.seen \in Nat
        /\ H2Sent = H2Taken + Len(net.client)
    BY <2>1, H2Counts
  <2>3. \/ H2ServerHeaders \/ H2ServerBody \/ H2ServerOverflow \/ H2ServerOtherFrame
    BY <1>7, <2>1 DEF H2Server, H2ServerPreface, H2ServerSettings, H2ServerReceiveFails,
       H2ServerSendBreaks, Ended
  <2>4. at'.server # "exit" /\ at'.client = at.client => H2Streaming'
    BY <1>6, <1>9, <2>1, H2StreamsOn
  <2>5. CASE H2ServerHeaders
    <3>. DEFINE m == H2Stream("HEADERS", Head(net.server).id)
    <3>1. /\ at.server = "frames" /\ net.server # <<>> /\ net.server[1].type = "HEADERS"
          /\ Exchange("server", 1, <<m>>) /\ Goto("server", "body") /\ mem' = mem
      BY <1>5, <2>5 DEF H2ServerHeaders
    <3>2. m \in H2Messages
      BY <1>1, <1>5, <3>1, FirstOf, H2MessagesAre
    <3>. HIDE DEF m
    <3>3. Gains(net.client, net'.client, m)
      BY <1>1, <3>1, <3>2, ServerAnswers DEF H2Parts
    <3>4. at'.server = "body" /\ at'.client = at.client /\ GoesWell("server") /\ H2Streaming'
      BY <1>2, <2>4, <3>1
    <3>5. H2Ids(H2Taken, net'.client)
      <4>1. IdFits(m, H2Sent)
        <5>1. H2Sent = 2 * mem.seen
          BY <3>1, H2Counts
        <5>2. QED
          BY <2>2, <5>1 DEF IdFits
      <4>2. QED
        BY <2>1, <2>2, <3>3, <4>1, IdsSent
    <3>6. H2Taken' = H2Taken
      BY <3>1, <3>4 DEF H2Taken
    <3>7. H2Answering' /\ H2Written'
      BY <1>1, <1>9, <2>1, <3>1, <3>4, <3>5, <3>6 DEF H2Answering, H2Written
    <3>8. H2Run'
      BY <1>1, <1>9, <2>1, <3>1, <3>4, <3>7 DEF H2Run, H2Together, H2Whole
    <3>9. QED
      BY <1>1, <3>4, <3>8
  <2>6. CASE H2ServerBody
    <3>. DEFINE next == mem.seen + 1
                m == H2Stream("DATA", next)
    <3>1. /\ at.server = "body" /\ next \in Nat /\ mem' = [mem EXCEPT !.seen = next]
          /\ mem'.seen = next /\ mem'.lines = mem.lines
          /\ mem'.cancelled = mem.cancelled /\ mem'.stream = mem.stream
      BY <1>1, <2>2, <2>6 DEF H2ServerBody, H2Mem
    <3>2. Send("server", <<m>>)
      BY <2>6, <3>1 DEF H2ServerBody
    <3>3. m \in H2Messages /\ m.type = "DATA" /\ m.id = next
      BY <3>1, H2MessagesAre
    <3>4. \/ scenario = "multiplex" /\ next = Multiplexed /\ Finish("server", OK)
          \/ Goto("server", "frames")
      BY <1>4, <1>9, <2>6, <3>1 DEF H2ServerBody, H2ServerResult
    <3>. HIDE DEF m
    <3>5. net'.server = net.server /\ Gains(net.client, net'.client, m)
      BY <1>1, <3>2, <3>3, ServerSendsOne DEF H2Parts
    <3>6. at'.client = at.client /\ H2Taken' = H2Taken /\ H2Sent + 1 = 2 * next
      <4>1. at'.client = at.client
        BY <1>2, <3>4
      <4>2. H2Sent = 2 * mem.seen + 1
        BY <3>1, H2Counts
      <4>3. QED
        BY <2>2, <3>1, <4>1, <4>2 DEF H2Taken
    <3>7. H2Ids(H2Taken, net'.client) /\ H2InTurn(H2Taken, net'.client)
      <4>1. /\ IdFits(m, H2Sent)
            /\ \A k \in Nat : H2Sent + 1 # 2 * k + 1
        <5>1. \A k \in Nat : /\ 2 * next = 2 * k => next = k
                             /\ 2 * next # 2 * k + 1
          BY <3>1
        <5>2. QED
          BY <3>3, <3>6, <5>1 DEF IdFits
      <4>2. PICK n, sent, old, new :
              n = H2Taken /\ sent = H2Sent /\ old = net.client /\ new = net'.client
        BY <2>2
      <4>3. /\ n \in Nat /\ Len(old) \in Nat /\ sent = n + Len(old)
            /\ Gains(old, new, m) /\ H2InTurn(n, old) /\ H2Ids(n, old) /\ IdFits(m, sent)
        BY <2>1, <2>2, <3>3, <3>5, <4>1, <4>2
      <4>4. H2Ids(n, new)
        BY ONLY <4>3, IdsSent
      <4>5. \A k \in Nat : /\ sent + 1 = 2 * k => m.type = "DATA"
                           /\ sent + 1 = 2 * k + 1 => m.type = "HEADERS"
        BY <3>3, <4>1, <4>2
      <4>6. H2InTurn(n, new)
        BY <4>3, <4>5, InTurnSent
      <4>7. QED
        BY <4>2, <4>4, <4>6
    <3>8. CASE Goto("server", "frames")
      <4>1. at'.server # "exit" /\ GoesWell("server") /\ H2Streaming'
        BY <1>2, <2>4, <3>8
      <4>2. H2Answering' /\ H2Written'
        BY <1>1, <1>9, <2>1, <3>1, <3>6, <3>7, <4>1 DEF H2Answering, H2Written
      <4>3. H2Run'
        BY <1>1, <1>9, <2>1, <3>1, <3>6, <4>2 DEF H2Run, H2Together, H2Whole
      <4>4. QED
        BY <1>1, <4>1, <4>3
    <3>9. CASE scenario = "multiplex" /\ next = Multiplexed /\ Finish("server", OK)
      <4>1. at'.server = "exit" /\ at'.client = at.client /\ GoesWell("server")
        BY <1>1, <1>2, <3>9 DEF GoesWell
      <4>2. H2Sent' = 2 * next /\ H2Taken' + Len(net'.client) = H2Sent'
        <5>1. H2Sent' = 2 * next
          BY <3>1, <4>1 DEF H2Sent
        <5>2. Len(net'.client) = Len(net.client) + 1
          BY <3>5 DEF Gains
        <5>3. QED
          BY <2>2, <3>6, <5>1, <5>2
      <4>3. H2AllSent' /\ H2Written'
        BY <1>1, <1>9, <2>1, <3>1, <3>6, <3>7, <3>9, <4>1, <4>2 DEF H2AllSent, H2Written
      <4>4. H2Run'
        BY <1>1, <1>9, <2>1, <3>1, <3>6, <4>3 DEF H2Run, H2Together, H2Whole
      <4>5. QED
        BY <1>1, <4>1, <4>4
    <3>10. QED
      BY <3>4, <3>8, <3>9
  <2>7. CASE H2ServerOverflow
    <3>1. scenario = "hpack-overflow" /\ Finish("server", ABORT) /\ mem' = mem
      BY <2>7 DEF H2ServerOverflow
    <3>2. at'.server = "exit" /\ at'.client = at.client /\ GoesWell("server")
      BY <1>1, <1>2, <3>1 DEF GoesWell
    <3>3. ~PrintsOk("server")'
      <4>1. results'.server = results.server \o ABORT /\ results.server = <<>>
        BY <1>1, <1>3, <3>1, Moves DEF ReportedOnce
      <4>2. QED
        BY <4>1, Printed DEF PrintsOk
    <3>4. H2Refusing' /\ H2Written'
      BY <1>6, <1>9, <2>1, <3>1, <3>2, <3>3, H2StreamsOn DEF H2Written
    <3>5. H2Run'
      BY <1>1, <1>9, <2>1, <3>1, <3>2, <3>4 DEF H2Run, H2Together, H2Whole
    <3>6. QED
      BY <1>1, <3>2, <3>5
  <2>8. CASE H2ServerOtherFrame
    <3>1. /\ at.server = "frames" /\ net.server # <<>> /\ Exchange("server", 1, <<>>)
          /\ net.server[1].type \in {"SETTINGS", "RST_STREAM"} /\ Goto("server", "frames")
          /\ mem' = [mem EXCEPT !.cancelled = mem.cancelled \/ net.server[1].type = "RST_STREAM"]
      BY <1>4, <1>5, <2>8 DEF H2ServerOtherFrame
    <3>2. net.server[1].type = "SETTINGS"
      <4>1. 1 \in 1..Len(net.server)
        BY <1>1, <3>1, FirstOf
      <4>2. QED
        BY <2>1, <3>1, <4>1 DEF H2Requests
    <3>3. /\ mem'.lines = mem.lines /\ mem'.stream = mem.stream /\ mem'.seen = mem.seen
          /\ ~mem'.cancelled
      BY <1>1, <1>9, <3>1, <3>2 DEF H2Mem
    <3>4. net'.client = net.client
      BY <1>1, <3>1, ServerTakes DEF H2Parts
    <3>5. at'.server # "exit" /\ at'.client = at.client /\ GoesWell("server") /\ H2Streaming'
      BY <1>2, <2>4, <3>1
    <3>6. H2Taken' = H2Taken
      BY <3>3, <3>5 DEF H2Taken
    <3>7. H2Answering' /\ H2Written'
      BY <1>1, <1>9, <2>1, <3>3, <3>4, <3>5, <3>6 DEF H2Answering, H2Written
    <3>8. H2Run'
      BY <1>1, <2>1, <3>3, <3>5, <3>7 DEF H2Run, H2Together, H2Whole
    <3>9. QED
      BY <1>1, <3>5, <3>8
  <2>9. QED
    BY <2>3, <2>5, <2>6, <2>7, <2>8
<1>10. CASE H2ServerLast
  <2>1. at.client = "exit" /\ (H2Left \/ H2CancelSent \/ H2CancelRead) /\ H2Whole
    BY <1>3, <1>10 DEF H2ServerLast, H2Run
  <2>2. CASE H2ServerReceiveFails
    <3>1. /\ net.server = <<>> /\ mem' = mem /\ Len(<<>>) = 0
          /\ at.server = "frames" /\ Finish("server", H2ServerResult(mem.cancelled))
      BY <1>7, <2>1, <2>2 DEF H2ServerReceiveFails, H2Left, H2CancelSent, H2CancelRead
    <3>2. at'.server = "exit" /\ at'.client = "exit"
      BY <1>2, <2>1, <3>1
    <3>3. \/ scenario = "normal" /\ Finish("server", OK)
          \/ scenario = "stream-cancellation" /\ Finish("server", ABORT)
      BY <2>1, <3>1 DEF H2Left, H2CancelSent, H2CancelRead, H2ServerResult
    <3>4. H2Run'
      BY <1>1, <2>1, <3>1, <3>2 DEF H2Run, H2ServerLast, H2Whole, H2Written
    <3>5. QED
      BY <1>1, <3>3, <3>4 DEF GoesWell
  <2>3. CASE H2ServerOtherFrame
    <3>1. /\ at.server = "frames" /\ net.server # <<>> /\ Exchange("server", 1, <<>>)
          /\ Goto("server", "frames")
          /\ mem' = [mem EXCEPT !.cancelled = mem.cancelled \/ net.server[1].type = "RST_STREAM"]
      BY <1>4, <1>5, <2>3 DEF H2ServerOtherFrame
    <3>2. H2CancelSent
      BY <2>1, <3>1 DEF H2Left, H2CancelRead
    <3>3. mem'.cancelled
      BY <1>1, <3>1, <3>2 DEF H2Mem, H2CancelSent
    <3>4. net'.server = <<>>
      <4>1. Shrinks(net.server, net'.server) /\ Channels(H2Messages)'
        BY <1>1, <3>1, ServerTakes DEF H2Parts
      <4>2. net'.server \in Seq(H2Messages) /\ Len(net'.server) = 0
        BY <3>2, <4>1 DEF Channels, Shrinks, H2CancelSent
      <4>3. QED
        BY <4>2, EmptySeq
    <3>5. at'.server = "frames" /\ at'.client = "exit" /\ GoesWell("server")
      BY <1>2, <2>1, <3>1
    <3>6. H2Run'
      BY <1>1, <3>2, <3>3, <3>4, <3>5 DEF H2Run, H2ServerLast, H2CancelRead, H2CancelSent, H2Whole
    <3>7. QED
      BY <1>1, <3>5, <3>6
  <2>4. CASE H2ServerBody
    <3>1. /\ at.server = "body" /\ mem' = [mem EXCEPT !.seen = @ + 1]
          /\ Send("server", <<H2Stream("DATA", mem'.seen)>>)
      BY <2>4 DEF H2ServerBody
    <3>2. H2CancelSent
      BY <2>1, <3>1 DEF H2Left, H2CancelRead
    <3>3. mem'.cancelled = mem.cancelled /\ net'.server = net.server /\ Goto("server", "frames")
      <4>1. mem'.cancelled = mem.cancelled
        BY <1>1, <3>1 DEF H2Mem
      <4>2. net'.server = net.server
        BY <1>1, <3>1, SendIs
      <4>3. QED
        BY <1>4, <2>4, <3>2, <4>1, <4>2 DEF H2ServerBody, H2CancelSent
    <3>4. at'.server = "frames" /\ at'.client = "exit" /\ GoesWell("server")
      BY <1>2, <2>1, <3>3
    <3>5. H2Run'
      BY <1>1, <3>2, <3>3, <3>4 DEF H2Run, H2ServerLast, H2CancelSent, H2Whole
    <3>6. QED
      BY <1>1, <3>4, <3>5
  <2>5. CASE H2ServerPreface \/ H2ServerSettings \/ H2ServerHeaders \/ H2ServerOverflow
             \/ H2ServerSendBreaks
    BY <1>5, <2>1, <2>5 DEF H2ServerPreface, H2ServerSettings, H2ServerHeaders,
       H2ServerOverflow, H2ServerSendBreaks, H2Left, H2CancelSent, H2CancelRead
  <2>6. QED
    BY <2>2, <2>3, <2>4, <2>5 DEF H2Server
<1>11. QED
  BY <1>3, <1>8, <1>9, <1>10 DEF H2Run, H2Together, H2Refusing, H2AllSent
\* The client's next frame is the one it waits for.
H2InStep ==
  /\ at.client \in {"headers", "data"} /\ mem.stream \in 1..H2Streams /\ net.client # <<>>
  /\ H2InTurn(H2Taken, net.client) /\ H2Ids(H2Taken, net.client)

LEMMA H2FrameIs ==
  ASSUME H2Parts, H2InStep
  PROVE  /\ Head(net.client) = net.client[1] /\ Len(net.client) >= 1
         /\ at.client = "headers" => net.client[1].type = "HEADERS"
         /\ at.client = "data" => net.client[1].type = "DATA" /\ net.client[1].id = mem.stream
<1>1. /\ net.client \in Seq(H2Messages) /\ net.client # <<>>
      /\ H2InTurn(H2Taken, net.client) /\ H2Ids(H2Taken, net.client)
  BY DEF H2Parts, Channels, H2InStep
<1>2. Head(net.client) = net.client[1] /\ Len(net.client) >= 1 /\ 1 \in 1..Len(net.client)
  BY <1>1, FirstOf
<1>3. mem.stream \in Nat /\ mem.stream - 1 \in Nat
  BY H2Counts DEF H2InStep
<1>4. CASE at.client = "headers"
  <2>1. H2Taken + 1 = 2 * (mem.stream - 1) + 1
    BY <1>4, H2Counts
  <2>2. QED
    BY <1>1, <1>2, <1>3, <1>4, <2>1 DEF H2InTurn
<1>5. CASE at.client = "data"
  <2>1. H2Taken + 1 = 2 * mem.stream
    BY <1>3, <1>5, H2Counts
  <2>2. net.client[1].type = "DATA"
    BY <1>1, <1>2, <1>3, <2>1 DEF H2InTurn
  <2>3. net.client[1].id = mem.stream
    BY <1>1, <1>2, <1>3, <2>1 DEF H2Ids
  <2>4. QED
    BY <1>2, <1>5, <2>2, <2>3
<1>6. QED
  BY <1>2, <1>4, <1>5 DEF H2InStep

LEMMA H2FrameRead ==
  ASSUME H2Parts, H2InStep, Exchange("client", 1, <<>>)
  PROVE  /\ net'.server = net.server /\ Len(net'.client) = Len(net.client) - 1
         /\ H2InTurn(H2Taken + 1, net'.client) /\ H2Ids(H2Taken + 1, net'.client)
<1>1. /\ Channels(H2Messages) /\ net.client # <<>> /\ H2Taken \in Nat /\ Len(net.client) \in Nat
      /\ H2InTurn(H2Taken, net.client) /\ H2Ids(H2Taken, net.client)
  BY H2Counts DEF H2Parts, H2InStep
<1>2. /\ Channels(H2Messages)' /\ Shrinks(net.client, net'.client) /\ net'.server = net.server
  BY <1>1, ClientTakes
<1>3. Len(net'.client) \in Nat
  BY <1>2 DEF Channels
<1>4. Len(net'.client) = Len(net.client) - 1
  BY <1>1, <1>2, <1>3 DEF Shrinks
<1>5. H2InTurn(H2Taken + 1, net'.client) /\ H2Ids(H2Taken + 1, net'.client)
  BY <1>1, <1>2, <1>3, InTurnTaken, IdsTaken
<1>6. QED
  BY <1>2, <1>4, <1>5

LEMMA H2LineWritten ==
  ASSUME mem \in H2Mem, H2Written, NEW s \in Nat \ {0}, s = mem.stream,
         mem' = [mem EXCEPT !.lines = Append(mem.lines, s), !.stream = s + 1]
  PROVE  /\ H2Written' /\ mem'.stream = s + 1
         /\ mem'.seen = mem.seen /\ mem'.cancelled = mem.cancelled
<1>1. /\ mem'.lines = Append(mem.lines, s) /\ mem'.stream = s + 1
      /\ mem'.seen = mem.seen /\ mem'.cancelled = mem.cancelled
  BY DEF H2Mem
<1>2. mem.lines = [k \in 1..s - 1 |-> k]
  BY DEF H2Written
<1>3. mem'.lines = [k \in 1..(s + 1) - 1 |-> k]
  BY <1>1, <1>2, LinesNext
<1>4. QED
  BY <1>1, <1>3 DEF H2Written

LEMMA H2ClientRuns ==
  ASSUME faults = {}, stopped = {}, protocol = "http2", SettingsStay, ReportedOnce, ReportedOnce',
         H2Parts, H2Parts', H2Run, H2Client
  PROVE  GoesWell("client") /\ H2Run' /\ Pair(net')
<1>1. /\ Pair(at) /\ Pair(results) /\ Pair(net) /\ Pair(net') /\ mem \in H2Mem
      /\ Channels(H2Messages)
      /\ net.server \in Seq(H2Messages) /\ net.client \in Seq(H2Messages)
      /\ scenario' = scenario /\ H2Streams' = H2Streams /\ H2Streams \in Nat \ {0}
      /\ scenario \in Http2Scenarios /\ "stop" \notin faults
      /\ (Fortunate <=> scenario \in {"normal", "multiplex"})
      /\ scenario # "multiplex" => H2Streams = 1
      /\ scenario = "multiplex" => H2Streams = Multiplexed
  BY H2Fortunate, H2Counts DEF ReportedOnce, SettingsStay, H2Streams, H2Parts, Channels, H2Run
<1>2. /\ \A place : place # "exit" /\ Goto("client", place) =>
           at'.client = place /\ at'.server = at.server /\ GoesWell("client")
      /\ \A printed : Finish("client", printed) => at'.client = "exit" /\ at'.server = at.server
  BY <1>1, Moves DEF GoesWell
<1>3. at.client # "exit"
  BY DEF H2Client, H2ClientStart, H2ClientSettings, H2ClientSettingsFail, H2ClientHeaders,
     H2ClientData, H2ClientLost, H2ClientSkips, H2ClientLostEnds
<1>4. ~mem.cancelled /\ H2Written /\ H2Together
  BY <1>3 DEF H2Run, H2ServerLast
<1>5. H2Opening \/ H2Streaming => H2Agreement'
  BY <1>1, <1>4, H2ClientAgrees DEF H2Agreement, H2Stages
<1>6. ReceiveFails("client") <=> at.server = "exit" /\ net.client = <<>>
  BY <1>1, CalmReceives
<1>7. CASE H2Opening
  <2>1. /\ at.server \in {"preface", "settings", "frames"} /\ at.client \in {"start", "settings"}
        /\ mem.seen = 0 /\ mem.stream = 1
    BY <1>7 DEF H2Opening, Stage
  <2>2. CASE H2ClientStart
    <3>1. Goto("client", "settings") /\ mem' = mem
      BY <2>1, <2>2 DEF H2ClientStart, Ended
    <3>2. at'.client = "settings" /\ at'.server = at.server /\ GoesWell("client")
      BY <1>2, <3>1
    <3>3. H2Opening'
      BY <1>5, <1>7, <2>1, <3>2, H2StreamsOn
    <3>4. H2Run'
      BY <1>1, <1>4, <3>1, <3>2, <3>3 DEF H2Run, H2Together, H2Written, H2Whole
    <3>5. QED
      BY <1>1, <3>2, <3>4
  <2>3. CASE H2ClientSettings
    <3>1. Goto("client", "headers") /\ mem' = mem
      BY <2>3 DEF H2ClientSettings
    <3>2. at'.client = "headers" /\ at'.server = at.server /\ GoesWell("client")
      BY <1>2, <3>1
    <3>3. H2Streaming'
      BY <1>5, <1>7, <2>1, <3>2, H2StreamsOn
    <3>4. H2Ids(H2Taken', net'.client)
      <4>1. /\ H2Taken' + Len(net'.client) = H2Sent' /\ at'.server \in {"frames", "body"}
        BY <3>3 DEF H2Streaming
      <4>2. H2Taken' = 0 /\ H2Sent' = 0
        BY <2>1, <3>1, <3>2, <4>1 DEF H2Taken, H2Sent
      <4>3. Len(net'.client) = 0
        <5>1. Len(net'.client) \in Nat
          BY DEF H2Parts, Channels
        <5>2. QED
          BY <4>1, <4>2, <5>1
      <4>4. QED
        BY <4>3 DEF H2Ids
    <3>5. H2Run'
      BY <1>1, <1>4, <3>1, <3>2, <3>3, <3>4 DEF H2Run, H2Together, H2Answering, H2Written, H2Whole
    <3>6. QED
      BY <1>1, <3>2, <3>5
  <2>4. QED
    BY <1>6, <2>1, <2>2, <2>3 DEF H2Client, H2ClientSettingsFail, H2ClientHeaders,
       H2ClientData, H2ClientLost, H2ClientSkips, H2ClientLostEnds
<1>8. CASE H2Refusing
  <2>1. /\ scenario = "hpack-overflow" /\ at.server = "exit" /\ at.client = "headers"
        /\ net.client # <<>> /\ Head(net.client).type = "RST_STREAM"
    BY <1>8 DEF H2Refusing
  <2>2. Finish("client", ABORT)
    BY <1>6, <2>1 DEF H2Client, H2ClientStart, H2ClientSettings, H2ClientSettingsFail,
       H2ClientHeaders, H2ClientData, H2ClientLost, H2ClientSkips, H2ClientLostEnds, H2Refused
  <2>3. H2Run'
    BY <1>1, <1>2, <2>1, <2>2 DEF H2Run, H2ServerLast, H2Whole
  <2>4. QED
    BY <1>1, <2>1, <2>2, <2>3 DEF GoesWell
<1>9. CASE H2Answering \/ H2AllSent
  <2>1. /\ at.client \in {"headers", "data"} /\ mem.stream \in 1..H2Streams
        /\ H2Taken + Len(net.client) = H2Sent
        /\ H2InTurn(H2Taken, net.client) /\ H2Ids(H2Taken, net.client)
        /\ scenario = "stream-cancellation" => at.client = "headers"
    BY <1>9 DEF H2Answering, H2Streaming, H2AllSent
  <2>2. /\ H2Taken \in Nat /\ H2Sent \in Nat /\ Len(net.client) \in Nat /\ mem.stream \in Nat \ {0}
        /\ Len(net.server) \in Nat
    BY <2>1, H2Counts
  <2>3. H2ClientHeaders \/ H2ClientData
    <3>1. ~ReceiveFails("client")
      <4>1. ASSUME at.server = "exit", net.client = <<>>
            PROVE  FALSE
        <5>1. mem.seen = Multiplexed /\ H2Streams = Multiplexed
          BY <1>1, <1>9, <4>1 DEF H2AllSent, H2Answering, H2Streaming
        <5>2. H2Sent = 2 * Multiplexed /\ Len(net.client) = 0
          BY <4>1, <5>1, H2Counts
        <5>3. H2Taken <= 2 * mem.stream - 1
          BY <2>1, <2>2, H2Counts
        <5>4. QED
          BY <2>1, <2>2, <5>1, <5>2, <5>3, Http2Assumption
      <4>2. QED
        BY <1>6, <4>1
    <3>2. QED
      BY <2>1, <3>1 DEF H2Client, H2ClientStart, H2ClientSettings, H2ClientSettingsFail,
         H2ClientLost, H2ClientSkips, H2ClientLostEnds
  <2>4. H2InStep
    BY <2>1, <2>3 DEF H2InStep, H2ClientHeaders, H2ClientData
  <2>5. /\ Head(net.client) = net.client[1] /\ Len(net.client) >= 1
        /\ at.client = "headers" => net.client[1].type = "HEADERS"
        /\ at.client = "data" => net.client[1].type = "DATA" /\ net.client[1].id = mem.stream
    BY <2>4, H2FrameIs
  <2>6. Exchange("client", 1, <<>>) =>
          /\ net'.server = net.server /\ Len(net'.client) = Len(net.client) - 1
          /\ H2InTurn(H2Taken + 1, net'.client) /\ H2Ids(H2Taken + 1, net'.client)
    BY <2>4, H2FrameRead
  <2>7. CASE H2ClientHeaders /\ scenario = "stream-cancellation"
    <3>. DEFINE m == H2Stream("RST_STREAM", mem.stream)
    <3>1. /\ Exchange("client", 1, <<m>>) /\ Finish("client", ABORT) /\ mem' = mem
          /\ at.client = "headers"
      BY <2>5, <2>7 DEF H2ClientHeaders, H2Refused
    <3>2. m \in H2Messages /\ m.type = "RST_STREAM"
      BY <2>2, H2MessagesAre
    <3>. HIDE DEF m
    <3>3. Shrinks(net.client, net'.client) /\ Gains(net.server, net'.server, m)
      BY <1>1, <2>4, <3>1, <3>2, ClientAnswers DEF H2InStep
    <3>4. /\ H2Streaming /\ at.server \in {"frames", "body"}
          /\ H2Requests(1, H2Begun, net.server) /\ H2Streams = 1
      BY <1>1, <1>9, <2>7 DEF H2Answering, H2AllSent, H2Streaming
    <3>5. H2Begun >= 1 /\ H2Begun \in Nat
      BY <2>1, <2>2, <2>5, <3>4, H2Counts
    <3>6. Len(net.server) = 1 - H2Begun
      BY <3>4, <3>5 DEF H2Requests
    <3>7. Len(net.server) = 0 /\ H2Begun = 1
      BY <2>2, <3>5, <3>6
    <3>8. Len(net'.server) = 1 /\ net'.server[1].type = "RST_STREAM"
      BY <3>2, <3>3, <3>7 DEF Gains
    <3>9. at.server = "body" => net'.client = <<>>
      <4>1. ASSUME at.server = "body"
            PROVE  Len(net.client) = 1
        <5>1. H2Sent = 1 /\ H2Taken = 0
          BY <2>1, <2>2, <3>1, <3>4, <3>7, <4>1, H2Counts
        <5>2. QED
          BY <2>1, <2>2, <5>1
      <4>2. net'.client \in Seq(H2Messages) /\ Len(net'.client) \in Nat
        BY DEF H2Parts, Channels
      <4>3. at.server = "body" => Len(net'.client) = 0
        BY <3>3, <4>1, <4>2 DEF Shrinks
      <4>4. QED
        BY <4>2, <4>3, EmptySeq
    <3>10. at'.client = "exit" /\ at'.server = at.server
      BY <1>2, <3>1
    <3>11. H2CancelSent'
      BY <1>1, <1>4, <2>7, <3>1, <3>4, <3>8, <3>9, <3>10 DEF H2CancelSent
    <3>12. H2Run'
      BY <1>1, <2>7, <3>10, <3>11 DEF H2Run, H2ServerLast, H2Whole
    <3>13. QED
      BY <1>1, <2>7, <3>1, <3>12 DEF GoesWell
  <2>8. CASE H2ClientHeaders /\ scenario # "stream-cancellation"
    <3>1. /\ Exchange("client", 1, <<>>) /\ Goto("client", "data") /\ mem' = mem
          /\ at.client = "headers"
      BY <2>5, <2>8 DEF H2ClientHeaders, H2Refused
    <3>2. at'.client = "data" /\ at'.server = at.server /\ GoesWell("client")
      BY <1>2, <3>1
    <3>3. H2Taken' = H2Taken + 1 /\ H2Sent' = H2Sent
      <4>1. H2Taken = 2 * (mem.stream - 1)
        BY <3>1, H2Counts
      <4>2. H2Taken' = 2 * (mem.stream - 1) + 1
        BY <3>1, <3>2 DEF H2Taken
      <4>3. QED
        BY <3>1, <3>2, <4>1, <4>2 DEF H2Sent
    <3>4. CASE H2Answering
      <4>1. H2Streaming'
        BY <1>5, <3>2, <3>4, H2StreamsOn DEF H2Answering, H2Streaming
      <4>2. H2Answering'
        BY <1>1, <2>6, <2>8, <3>1, <3>3, <4>1 DEF H2Answering
      <4>3. QED
        BY <1>1, <1>4, <3>1, <3>2, <4>2 DEF H2Run, H2Together, H2Written, H2Whole
    <3>5. CASE H2AllSent
      <4>1. H2Taken' + Len(net'.client) = H2Sent'
        BY <2>1, <2>2, <2>6, <3>1, <3>3
      <4>2. H2AllSent'
        BY <1>1, <2>6, <3>1, <3>2, <3>3, <3>5, <4>1 DEF H2AllSent
      <4>3. QED
        BY <1>1, <1>4, <3>1, <3>2, <4>2 DEF H2Run, H2Together, H2Written, H2Whole
    <3>6. QED
      BY <1>9, <3>4, <3>5
  <2>9. CASE H2ClientData
    <3>. DEFINE s == mem.stream
    <3>1. /\ at.client = "data" /\ Exchange("client", 1, <<>>)
          /\ mem' = [mem EXCEPT !.lines = Append(mem.lines, s), !.stream = s + 1]
          /\ H2ClientNextStream("headers") /\ scenario # "stream-cancellation"
      BY <2>1, <2>5, <2>9 DEF H2ClientData
    <3>2. /\ H2Written' /\ mem'.stream = s + 1
          /\ mem'.seen = mem.seen /\ mem'.cancelled = mem.cancelled
      BY Zenon, <1>1, <1>4, <2>2, <3>1, H2LineWritten
    <3>3. at'.server = at.server
      BY <1>2, <3>1 DEF H2ClientNextStream
    <3>4. CASE s < H2Streams
      <4>1. at'.client = "headers" /\ GoesWell("client")
        BY <1>2, <3>1, <3>4 DEF H2ClientNextStream
      <4>2. H2Taken' = H2Taken + 1 /\ H2Sent' = H2Sent /\ mem'.stream \in 1..H2Streams
        <5>1. H2Taken = 2 * s - 1
          BY <3>1, H2Counts
        <5>2. H2Taken' = 2 * ((s + 1) - 1)
          BY <2>2, <3>2, <4>1 DEF H2Taken
        <5>3. H2Taken' = H2Taken + 1 /\ s + 1 \in 1..H2Streams
          BY <1>1, <2>2, <3>4, <5>1, <5>2
        <5>4. QED
          BY <3>2, <3>3, <5>3 DEF H2Sent
      <4>3. CASE H2Answering
        <5>1. H2Streaming'
          BY <1>5, <3>3, <4>1, <4>3, H2StreamsOn DEF H2Answering, H2Streaming
        <5>2. H2Answering'
          BY <1>1, <2>6, <3>1, <4>1, <4>2, <5>1 DEF H2Answering
        <5>3. QED
          BY <1>1, <1>4, <3>2, <4>1, <5>2 DEF H2Run, H2Together, H2Whole
      <4>4. CASE H2AllSent
        <5>1. H2Taken' + Len(net'.client) = H2Sent'
          BY <2>1, <2>2, <2>6, <3>1, <4>2
        <5>2. H2AllSent'
          BY <1>1, <2>6, <3>1, <3>2, <3>3, <4>1, <4>2, <4>4, <5>1 DEF H2AllSent
        <5>3. QED
          BY <1>1, <1>4, <3>2, <4>1, <5>2 DEF H2Run, H2Together, H2Whole
      <4>5. QED
        BY <1>9, <4>3, <4>4
    <3>5. CASE ~(s < H2Streams)
      <4>1. at'.client = "exit" /\ Finish("client", OK)
        BY <1>2, <3>1, <3>5 DEF H2ClientNextStream
      <4>2. mem'.stream = H2Streams + 1 /\ H2Streams' = H2Streams
        BY <1>1, <2>1, <2>2, <3>2, <3>5
      <4>3. PrintsOk("client")'
        <5>1. results'.client = results.client \o OK /\ results.client = <<>>
          BY <1>1, <1>3, <4>1, Moves DEF ReportedOnce
        <5>2. QED
          BY <5>1, Printed DEF PrintsOk
      <4>4. CASE H2Answering
        <5>1. ~PrintsOk("server")'
          <6>1. at'.server # "exit"
            BY <3>3, <4>4 DEF H2Answering, H2Streaming
          <6>2. QED
            BY <6>1, Printed DEF ReportedOnce, PrintsOk
        <5>2. H2Served' /\ ~mem'.cancelled
          BY <1>5, <4>1, <4>3, <4>4, <5>1 DEF H2Answering, H2Agreement, H2Stages, H2Opening,
             H2Streaming, H2Refusing, H2Served, Stage
        <5>3. scenario = "normal"
          <6>1. scenario # "hpack-overflow"
            <7>1. H2Sent # 0
              BY <2>1, <2>2, <2>5
            <7>2. QED
              BY <4>4, <7>1 DEF H2Answering, H2Streaming
          <6>2. QED
            BY <1>1, <3>1, <5>2, <6>1 DEF H2Served, Http2Scenarios
        <5>4. H2Run'
          BY <1>1, <3>2, <4>1, <4>2, <5>2, <5>3
             DEF H2Run, H2ServerLast, H2Left, H2Served, H2Whole
        <5>5. QED
          BY <1>1, <4>1, <5>3, <5>4 DEF GoesWell
      <4>5. CASE H2AllSent
        <5>1. scenario = "multiplex" /\ at.server = "exit"
          BY <4>5 DEF H2AllSent
        <5>2. H2Run'
          BY <1>1, <3>2, <3>3, <4>1, <4>2, <5>1 DEF H2Run, H2ServerLast, H2Whole
        <5>3. QED
          BY <1>1, <4>1, <5>1, <5>2 DEF GoesWell
      <4>6. QED
        BY <1>9, <4>4, <4>5
    <3>6. QED
      BY <3>4, <3>5
  <2>10. QED
    BY <2>3, <2>7, <2>8, <2>9
<1>10. QED
  BY <1>4, <1>7, <1>8, <1>9 DEF H2Together

-----------------------------------------------------------------------------
(***************************************************************************)
(* QuicLike, undisturbed: the chunks that are stored are the whole file.   *)
(***************************************************************************)
\* A chunk that none comes behind goes to the end.
LEMMA PlacedLast ==
  ASSUME NEW C, NEW sorted \in Seq(C), NEW chunk \in C,
         \A i \in 1..Len(sorted) : ~ChunkBefore(chunk, sorted[i])
  PROVE  Placed(sorted, chunk) = Append(sorted, chunk)
<1>1. Len(sorted) \in Nat /\ DOMAIN sorted = 1..Len(sorted)
  OBVIOUS
<1>2. {i \in DOMAIN sorted : ChunkBefore(chunk, sorted[i])} = {}
  BY <1>1
<1>3. Placed(sorted, chunk) = InsertAt(sorted, Len(sorted) + 1, chunk)
  BY <1>2 DEF Placed
<1>4. InsertAt(sorted, Len(sorted) + 1, chunk) =
        SubSeq(sorted, 1, (Len(sorted) + 1) - 1) \o <<chunk>>
          \o SubSeq(sorted, Len(sorted) + 1, Len(sorted))
  BY DEF InsertAt
<1>5. (Len(sorted) + 1) - 1 = Len(sorted)
  BY <1>1
<1>6. SubSeq(sorted, 1, Len(sorted)) = sorted
  BY SubSeqFull
<1>7. SubSeq(sorted, Len(sorted) + 1, Len(sorted)) = <<>>
  BY <1>1, SubSeqEmpty
<1>8. <<chunk>> \in Seq(C) /\ sorted \o <<chunk>> = Append(sorted, chunk)
      /\ sorted \o <<chunk>> \in Seq(C)
  OBVIOUS
<1>9. (sorted \o <<chunk>>) \o <<>> = sorted \o <<chunk>>
  BY <1>8, ConcatEmptySeq
<1>10. QED
  BY <1>3, <1>4, <1>5, <1>6, <1>7, <1>8, <1>9

\* What is in order stays as it is.
LEMMA SortedInOrder ==
  ASSUME NEW C, NEW chunks \in Seq(C),
         \A i, j \in 1..Len(chunks) : i < j => ~ChunkBefore(chunks[j], chunks[i])
  PROVE  Sorted(chunks) = chunks
<1>. DEFINE n == Len(chunks)
            first(k) == SubSeq(chunks, 1, k)
<1>1. n \in Nat /\ \A i \in 1..n : chunks[i] \in C
  OBVIOUS
<1>2. PICK f : Sorts(f, chunks, n) /\ Sorted(chunks) = f[n]
  BY <1>1, SortedIs
<1>3. ASSUME NEW k \in 0..n
      PROVE  /\ first(k) \in Seq(C) /\ Len(first(k)) = k
             /\ \A i \in 1..k : first(k)[i] = chunks[i]
  <2>1. 1 \in Int /\ k \in Int /\ (\A i \in 1..k : chunks[i] \in C)
        /\ (IF 1 <= k THEN k - 1 + 1 ELSE 0) = k /\ k - 1 + 1 = k
    BY <1>1
  <2>2. /\ first(k) \in Seq(C)
        /\ Len(first(k)) = IF 1 <= k THEN k - 1 + 1 ELSE 0
        /\ \A i \in 1..k - 1 + 1 : first(k)[i] = chunks[1 + i - 1]
    BY <2>1, SubSeqProperties
  <2>3. \A i \in 1..k : 1 + i - 1 = i
    OBVIOUS
  <2>. HIDE DEF first
  <2>4. QED
    BY <2>1, <2>2, <2>3
<1>4. ASSUME NEW k \in 1..n
      PROVE  first(k) = Append(first(k - 1), chunks[k])
  <2>1. k \in 1..Len(chunks) /\ 1 \in 1..Len(chunks) /\ k \in 1..Len(chunks)
    BY <1>1
  <2>2. SubSeq(chunks, 1, k) = SubSeq(chunks, 1, k - 1) \o <<chunks[k]>>
    BY <2>1, SubSeqRecursiveSecond
  <2>3. k - 1 \in 0..n /\ chunks[k] \in C
    BY <1>1
  <2>4. first(k - 1) \in Seq(C)
    BY <1>3, <2>3
  <2>5. first(k - 1) \o <<chunks[k]>> = Append(first(k - 1), chunks[k])
    <3>. HIDE DEF first
    <3>1. QED
      BY <2>3, <2>4
  <2>6. QED
    BY <2>2, <2>5
<1>. HIDE DEF n, first
<1>. DEFINE S == {k \in 0..n : f[k] # first(k)}
<1>5. S = {}
  <2>. SUFFICES ASSUME S # {}
                PROVE  FALSE
    OBVIOUS
  <2>1. PICK k \in S : \A j \in S : k <= j
    <3>1. S \in SUBSET Nat
      BY <1>1
    <3>. HIDE DEF S
    <3>2. QED
      BY <3>1, Least
  <2>2. k \in 0..n /\ f[k] # first(k)
    OBVIOUS
  <2>3. f[k] = IF k = 0 THEN <<>> ELSE Placed(f[k - 1], chunks[k])
    BY <1>2, <2>2 DEF Sorts
  <2>4. CASE k = 0
    <3>1. 0 \in 0..n
      BY <1>1
    <3>2. first(0) \in Seq(C) /\ Len(first(0)) = 0
      BY <1>3, <3>1
    <3>3. first(0) = <<>>
      BY <3>2, EmptySeq
    <3>4. QED
      BY <2>2, <2>3, <2>4, <3>3
  <2>5. CASE k # 0
    <3>1. k - 1 \in 0..n /\ k - 1 \notin S /\ k \in 1..n
      BY <1>1, <2>1, <2>2, <2>5
    <3>2. f[k - 1] = first(k - 1)
      BY <3>1
    <3>3. PICK s : s = first(k - 1)
      OBVIOUS
    <3>4. s \in Seq(C) /\ Len(s) = k - 1 /\ \A i \in 1..k - 1 : s[i] = chunks[i]
      BY <1>3, <3>1, <3>3
    <3>5. chunks[k] \in C /\ \A i \in 1..k - 1 : ~ChunkBefore(chunks[k], chunks[i])
      <4>1. \A i \in 1..k - 1 : i \in 1..n /\ i < k
        BY <1>1, <3>1
      <4>2. QED
        BY <1>1, <3>1, <4>1 DEF n
    <3>6. \A i \in 1..Len(s) : ~ChunkBefore(chunks[k], s[i])
      BY <3>4, <3>5
    <3>7. Placed(s, chunks[k]) = Append(s, chunks[k])
      BY <3>4, <3>5, <3>6, PlacedLast
    <3>8. QED
      BY <1>4, <2>2, <2>3, <2>5, <3>1, <3>2, <3>3, <3>7
  <2>6. QED
    BY <2>4, <2>5
<1>6. n \in 0..n
  BY <1>1
<1>7. f[n] = first(n)
  BY <1>5, <1>6
<1>8. first(n) = chunks
  BY SubSeqFull DEF first, n
<1>9. QED
  BY <1>2, <1>7, <1>8

\* Of two chunks in the wrong order the second goes first.
LEMMA SortedSwapped ==
  ASSUME NEW a, NEW b, ChunkBefore(b, a)
  PROVE  Sorted(<<a, b>>) = <<b, a>>
<1>. DEFINE C == {a, b}
<1>1. PICK chunks : chunks = <<a, b>>
  OBVIOUS
<1>2. Len(chunks) = 2 /\ chunks[1] = a /\ chunks[2] = b
  BY <1>1
<1>3. PICK f : Sorts(f, chunks, 2) /\ Sorted(chunks) = f[2]
  <2>1. Len(chunks) \in Nat
    BY <1>2
  <2>2. \E f : Sorts(f, chunks, Len(chunks)) /\ Sorted(chunks) = f[Len(chunks)]
    BY <2>1, SortedIs
  <2>3. QED
    BY <1>2, <2>2
<1>4. f[0] = <<>> /\ f[1] = Placed(f[0], a) /\ f[2] = Placed(f[1], b)
  <2>1. \A i \in 0..2 : f[i] = IF i = 0 THEN <<>> ELSE Placed(f[i - 1], chunks[i])
    BY <1>3 DEF Sorts
  <2>2. 0 \in 0..2 /\ 1 \in 0..2 /\ 2 \in 0..2 /\ 1 - 1 = 0 /\ 2 - 1 = 1
    OBVIOUS
  <2>3. QED
    BY <1>2, <2>1, <2>2
<1>5. f[1] = <<a>>
  <2>1. <<>> \in Seq(C) /\ a \in C /\ \A i \in 1..Len(<<>>) : ~ChunkBefore(a, <<>>[i])
    OBVIOUS
  <2>2. Placed(<<>>, a) = Append(<<>>, a)
    BY <2>1, PlacedLast
  <2>3. QED
    BY <1>4, <2>2
<1>6. PICK s : s = <<a>>
  OBVIOUS
<1>7. s \in Seq(C) /\ Len(s) = 1 /\ s[1] = a /\ DOMAIN s = 1..1
  BY <1>6
<1>8. Placed(s, b) = InsertAt(s, 1, b)
  <2>1. \A i \in DOMAIN s : i = 1
    BY <1>7
  <2>2. 1 \in DOMAIN s
    BY <1>7
  <2>3. {i \in DOMAIN s : ChunkBefore(b, s[i])} = {1}
    BY <1>7, <2>1, <2>2
  <2>4. Min({1}) = 1 /\ {1} # {}
    BY DEF Min
  <2>5. QED
    BY <2>3, <2>4 DEF Placed
<1>9. InsertAt(s, 1, b) = SubSeq(s, 1, 1 - 1) \o <<b>> \o SubSeq(s, 1, Len(s))
  BY DEF InsertAt
<1>10. SubSeq(s, 1, 1 - 1) = <<>> /\ SubSeq(s, 1, Len(s)) = s
  BY <1>7, SubSeqEmpty, SubSeqFull
<1>11. <<>> \o <<b>> \o <<a>> = <<b, a>>
  <2>1. <<>> \o <<b>> = <<b>> /\ <<b>> \o <<a>> = <<b, a>>
    BY ShortChannels
  <2>2. QED
    BY <2>1
<1>12. Placed(<<a>>, b) = <<b, a>>
  BY <1>6, <1>8, <1>9, <1>10, <1>11
<1>13. QED
  BY <1>1, <1>3, <1>4, <1>5, <1>12

LEMMA AppendShort == \A x, y : Append(<<>>, x) = <<x>> /\ Append(<<x>>, y) = <<x, y>>
<1>. SUFFICES ASSUME NEW x, NEW y
              PROVE  Append(<<>>, x) = <<x>> /\ Append(<<x>>, y) = <<x, y>>
  BY Zenon
<1>1. Append(<<>>, x) = <<x>>
  OBVIOUS
<1>2. <<x>> \in Seq({x, y}) /\ Len(<<x>>) = 1 /\ <<x>>[1] = x
  OBVIOUS
<1>3. PICK s : s = Append(<<x>>, y)
  OBVIOUS
<1>4. s \in Seq({x, y}) /\ Len(s) = 2 /\ s[1] = x /\ s[2] = y
  BY <1>2, <1>3, AppendProperties
<1>5. <<x, y>> \in Seq({x, y}) /\ Len(<<x, y>>) = 2 /\ <<x, y>>[1] = x /\ <<x, y>>[2] = y
  OBVIOUS
<1>6. PICK t : t = <<x, y>>
  OBVIOUS
<1>7. s = t
  <2>1. \A i \in 1..2 : s[i] = t[i]
    BY <1>4, <1>5, <1>6
  <2>2. QED
    BY <1>4, <1>5, <1>6, <2>1, SeqEqual
<1>8. QED
  BY <1>1, <1>3, <1>6, <1>7

LEMMA FlattenedTwo ==
  ASSUME NEW T, NEW a \in Seq(T), NEW b \in Seq(T)
  PROVE  FlattenSeq(<<a, b>>) = a \o b
<1>1. <<>> \in Seq(Seq(T)) /\ <<a>> \in Seq(Seq(T))
  <2>. DEFINE R == Seq(T)
  <2>1. a \in R
    OBVIOUS
  <2>. HIDE DEF R
  <2>2. <<>> \in Seq(R) /\ <<a>> \in Seq(R)
    BY <2>1
  <2>3. QED
    BY <2>2 DEF R
<1>2. Append(<<>>, a) = <<a>> /\ Append(<<a>>, b) = <<a, b>>
  BY AppendShort
<1>3. FlattenSeq(<<>>) = <<>>
  BY DEF FlattenSeq
<1>4. FlattenSeq(<<a>>) = <<>> \o a
  BY <1>1, <1>2, <1>3, Flattened
<1>5. FlattenSeq(<<a, b>>) = FlattenSeq(<<a>>) \o b
  BY <1>1, <1>2, Flattened
<1>6. <<>> \o a = a
  BY ConcatEmptySeq
<1>7. QED
  BY <1>4, <1>5, <1>6

\* Where the first k parts of the file end.
PartEnd(k) == IF k * MaxPayload <= Len(original) THEN k * MaxPayload ELSE Len(original)

LEMMA Divided ==
  \A a \in Nat, b \in Nat \ {0} :
    a \div b \in Nat /\ (a \div b) * b <= a /\ a < (a \div b) * b + b
BY Z3

LEMMA Multiplied ==
  ASSUME NEW a \in Nat, NEW b \in Nat, a <= b, NEW m \in Nat
  PROVE  a * m <= b * m /\ (a + 1) * m = a * m + m /\ a * m \in Nat
<1>1. (b - a) \in Nat
  OBVIOUS
<1>2. PICK d \in Nat : d = b - a
  BY <1>1
<1>3. b = a + d
  BY <1>2
<1>4. (a + d) * m = a * m + d * m /\ (a + 1) * m = a * m + m /\ d * m \in Nat /\ a * m \in Nat
  BY Z3
<1>5. QED
  BY <1>3, <1>4

LEMMA PartEnds ==
  ASSUME original \in Seq(Data), ~Reordered
  PROVE  /\ StreamCount \in Nat
         /\ PartEnd(0) = 0 /\ PartEnd(StreamCount) = Len(original)
         /\ \A k \in 1..StreamCount :
              /\ (k - 1) * MaxPayload = PartEnd(k - 1) /\ PartEnd(k - 1) \in 0..Len(original)
              /\ PartEnd(k) \in PartEnd(k - 1)..Len(original)
<1>. PICK n \in Nat : n = Len(original)
  OBVIOUS
<1>. PICK m \in Nat \ {0} : m = MaxPayload
  BY QuicAssumption
<1>. PICK q : q = StreamCount
  OBVIOUS
<1>1. q \in Nat /\ q * m <= n + m - 1 /\ n + m - 1 < q * m + m
  <2>1. PICK a : a = n + m - 1
    OBVIOUS
  <2>2. a \in Nat
    BY <2>1
  <2>3. a \div m \in Nat /\ (a \div m) * m <= a /\ a < (a \div m) * m + m
    BY <2>2, Divided
  <2>4. q = a \div m
    BY <2>1 DEF StreamCount
  <2>5. QED
    BY <2>1, <2>3, <2>4
<1>2. PICK x : x = q * m
  OBVIOUS
<1>3. x \in Nat /\ n <= x
  <2>1. q * m \in Nat
    BY <1>1, Multiplied
  <2>2. x \in Nat
    BY <1>2, <2>1
  <2>3. x <= n + m - 1 /\ n + m - 1 < x + m
    BY <1>1, <1>2
  <2>4. QED
    BY <2>2, <2>3
<1>4. PartEnd(q) = n
  <2>1. PartEnd(q) = IF x <= n THEN x ELSE n
    BY <1>2 DEF PartEnd
  <2>2. QED
    BY <1>3, <2>1
<1>5. PartEnd(0) = 0
  <2>1. 0 * m = 0
    OBVIOUS
  <2>2. QED
    BY <2>1 DEF PartEnd
<1>6. ASSUME NEW k \in 1..q
      PROVE  /\ (k - 1) * m = PartEnd(k - 1) /\ PartEnd(k - 1) \in 0..n
             /\ PartEnd(k) \in PartEnd(k - 1)..n
  <2>1. PICK j \in Nat : j = k - 1 /\ k = j + 1 /\ k \in Nat /\ j + 1 <= q
    BY <1>1
  <2>2. PICK y, z : y = j * m /\ z = k * m
    OBVIOUS
  <2>3. (j + 1) * m <= q * m /\ (j + 1) * m = j * m + m /\ j * m \in Nat
    <3>1. j + 1 \in Nat /\ j <= q
      BY <1>1, <2>1
    <3>2. (j + 1) * m <= q * m
      BY <1>1, <2>1, <3>1, Multiplied
    <3>3. (j + 1) * m = j * m + m /\ j * m \in Nat
      BY <1>1, <2>1, <3>1, Multiplied
    <3>4. QED
      BY <3>2, <3>3
  <2>4. y \in Nat /\ z = y + m /\ z <= x
    BY <1>2, <2>1, <2>2, <2>3
  <2>5. x <= n + m - 1
    BY <1>1, <1>2
  <2>6. y <= n /\ y <= z /\ z \in Nat
    BY <1>3, <2>4, <2>5
  <2>7. /\ PartEnd(j) = IF y <= n THEN y ELSE n
        /\ PartEnd(k) = IF z <= n THEN z ELSE n
    BY <2>2 DEF PartEnd
  <2>8. PartEnd(j) = y /\ PartEnd(j) \in 0..n /\ PartEnd(k) \in PartEnd(j)..n
    BY <2>4, <2>6, <2>7
  <2>9. QED
    BY <2>1, <2>2, <2>8
<1>7. QED
  BY <1>1, <1>4, <1>5, <1>6

LEMMA PartOfOriginal ==
  ASSUME original \in Seq(Data), ~Reordered, NEW k \in Nat \ {0}
  PROVE  Part(original, k) = SubSeq(original, (k - 1) * MaxPayload + 1, PartEnd(k))
<1>. DEFINE all == {k * MaxPayload, Len(original), Len(original)}
<1>1. k * MaxPayload \in Nat /\ Len(original) \in Nat
  BY QuicAssumption, Multiplied
<1>2. PICK x \in Nat, n \in Nat : x = k * MaxPayload /\ n = Len(original)
  BY <1>1
<1>3. Min({x, n, n}) = IF x <= n THEN x ELSE n
  <2>1. CASE x <= n
    <3>1. \A y \in {x, n, n} : x <= y
      BY <2>1
    <3>2. \A z \in {x, n, n} : (\A y \in {x, n, n} : z <= y) => z = x
      BY <2>1
    <3>3. QED
      BY <2>1, <3>1, <3>2 DEF Min
  <2>2. CASE ~(x <= n)
    <3>1. \A y \in {x, n, n} : n <= y
      BY <2>2
    <3>2. \A z \in {x, n, n} : (\A y \in {x, n, n} : z <= y) => z = n
      BY <2>2
    <3>3. QED
      BY <2>2, <3>1, <3>2 DEF Min
  <2>3. QED
    BY <2>1, <2>2
<1>4. Min(all) = PartEnd(k)
  BY <1>2, <1>3 DEF PartEnd
<1>. HIDE DEF all
<1>5. Part(original, k) = SubSeq(original, (k - 1) * MaxPayload + 1, Min(all))
  BY DEF Part, all
<1>6. QED
  BY <1>4, <1>5

\* The first k parts, one behind the other.
LEMMA PartsJoined ==
  ASSUME original \in Seq(Data), ~Reordered
  PROVE  \A k \in 0..StreamCount :
           FlattenSeq([i \in 1..k |-> Part(original, i)]) = SubSeq(original, 1, PartEnd(k))
<1>. DEFINE parts(k) == [i \in 1..k |-> Part(original, i)]
            first(k) == SubSeq(original, 1, PartEnd(k))
            S == {k \in 0..StreamCount : FlattenSeq(parts(k)) # first(k)}
<1>1. StreamCount \in Nat /\ PartEnd(0) = 0
  BY PartEnds
<1>2. ASSUME NEW k \in Nat
      PROVE  /\ parts(k) \in Seq(Seq(Data)) /\ Len(parts(k)) = k
             /\ parts(k + 1) = Append(parts(k), Part(original, k + 1))
  <2>1. \A i \in 1..k + 1 : Part(original, i) \in Seq(Data)
    <3>1. \A i \in 1..k + 1 : i \in Nat \ {0}
      OBVIOUS
    <3>2. QED
      BY <3>1, PartIs
  <2>. DEFINE R == Seq(Data)
              g(i) == Part(original, i)
  <2>2. \A i \in 1..k + 1 : g(i) \in R
    BY <2>1
  <2>. HIDE DEF R, g
  <2>3. /\ [i \in 1..k |-> g(i)] \in Seq(R) /\ Len([i \in 1..k |-> g(i)]) = k
        /\ [i \in 1..k + 1 |-> g(i)] \in Seq(R)
        /\ Len([i \in 1..k + 1 |-> g(i)]) = k + 1
    BY <2>2
  <2>4. [i \in 1..k + 1 |-> g(i)] = Append([i \in 1..k |-> g(i)], g(k + 1))
    <3>1. PICK s, t : s = [i \in 1..k |-> g(i)] /\ t = [i \in 1..k + 1 |-> g(i)]
      OBVIOUS
    <3>2. PICK u : u = Append(s, g(k + 1))
      OBVIOUS
    <3>3. /\ u \in Seq(R) /\ Len(u) = k + 1 /\ (\A i \in 1..k : u[i] = s[i])
          /\ u[k + 1] = g(k + 1)
      <4>1. s \in Seq(R) /\ Len(s) = k /\ g(k + 1) \in R
        BY <2>2, <2>3, <3>1
      <4>2. QED
        BY <3>2, <4>1, AppendProperties
    <3>4. \A i \in 1..k + 1 : u[i] = t[i]
      BY <3>1, <3>3
    <3>5. u \in Seq(R) /\ t \in Seq(R) /\ Len(u) = Len(t) /\ \A i \in 1..Len(u) : u[i] = t[i]
      BY <2>3, <3>1, <3>3, <3>4
    <3>6. u = t
      BY <3>5, SeqEqual
    <3>7. QED
      BY <3>1, <3>2, <3>6
  <2>5. QED
    BY <2>3, <2>4 DEF R, g
<1>. HIDE DEF parts
<1>. SUFFICES S = {}
  BY DEF parts
<1>. SUFFICES ASSUME S # {}
              PROVE  FALSE
  OBVIOUS
<1>3. PICK k \in S : \A j \in S : k <= j
  <2>1. S \in SUBSET Nat
    BY <1>1
  <2>. HIDE DEF S
  <2>2. QED
    BY <2>1, Least
<1>4. k \in 0..StreamCount /\ FlattenSeq(parts(k)) # first(k)
  OBVIOUS
<1>5. CASE k = 0
  <2>1. parts(0) = <<>>
    BY DEF parts
  <2>2. FlattenSeq(<<>>) = <<>>
    BY Zenon DEF FlattenSeq
  <2>3. first(0) = <<>>
    BY <1>1, SubSeqEmpty
  <2>4. QED
    BY <1>4, <1>5, <2>1, <2>2, <2>3
<1>6. CASE k # 0
  <2>1. k - 1 \in 0..StreamCount /\ k - 1 \notin S /\ k \in 1..StreamCount /\ k - 1 \in Nat
        /\ k \in Nat \ {0} /\ (k - 1) + 1 = k
    BY <1>1, <1>3, <1>4, <1>6
  <2>2. FlattenSeq(parts(k - 1)) = first(k - 1)
    BY <2>1
  <2>3. FlattenSeq(parts(k)) = first(k - 1) \o Part(original, k)
    <3>1. parts(k) = Append(parts(k - 1), Part(original, k)) /\ parts(k - 1) \in Seq(Seq(Data))
      BY <1>2, <2>1
    <3>2. Part(original, k) \in Seq(Data)
      BY <2>1, PartIs
    <3>3. QED
      BY <2>2, <3>1, <3>2, Flattened
  <2>4. PICK a, b : a = PartEnd(k - 1) /\ b = PartEnd(k)
    OBVIOUS
  <2>5. a \in 0..Len(original) /\ b \in a..Len(original) /\ (k - 1) * MaxPayload = a
    BY <2>1, <2>4, PartEnds
  <2>6. Part(original, k) = SubSeq(original, a + 1, b)
    BY <2>1, <2>4, <2>5, PartOfOriginal
  <2>7. SubSeq(original, 1, a) \o SubSeq(original, a + 1, b) = SubSeq(original, 1, b)
    <3>1. 1 \in 1..Len(original) + 1 /\ a \in 1 - 1..Len(original) /\ b \in a..Len(original)
      BY <2>5
    <3>2. QED
      BY <3>1, ConcatAdjacentSubSeq
  <2>8. QED
    BY <1>4, <2>3, <2>4, <2>6, <2>7
<1>7. QED
  BY <1>5, <1>6

\* What the k-th stream carries, and as what it is sent.
QuicStream(k) ==
  [id |-> IF Reordered /\ k = 1 THEN 3 ELSE 1, seq |-> StreamSeq(k), payload |-> Part(original, k)]
QuicFrame(k) == StreamPacket(QuicStream(k).id, QuicStream(k).seq, QuicStream(k).payload)

LEMMA QuicStreamIs ==
  ASSUME NEW k
  PROVE  /\ QuicStream(k).id = IF Reordered /\ k = 1 THEN 3 ELSE 1
         /\ QuicStream(k).seq = StreamSeq(k) /\ QuicStream(k).payload = Part(original, k)
         /\ QuicFrame(k).type = "STREAM" /\ QuicFrame(k).id = QuicStream(k).id
         /\ QuicFrame(k).seq = QuicStream(k).seq /\ QuicFrame(k).payload = QuicStream(k).payload
         /\ QuicStream(k) = [id |-> QuicFrame(k).id, seq |-> QuicFrame(k).seq,
                             payload |-> QuicFrame(k).payload]
BY DEF QuicStream, QuicFrame, StreamPacket

\* The two halves of a reordered file.
LEMMA HalvesJoined ==
  ASSUME original \in Seq(Data), Reordered
  PROVE  Part(original, 2) \o Part(original, 1) = original
<1>. PICK half : half = Len(original) \div 2
  OBVIOUS
<1>. PICK n \in Nat : n = Len(original)
  OBVIOUS
<1>1. half \in Nat /\ half <= n
  <2>1. 2 \in Nat \ {0}
    OBVIOUS
  <2>2. n \div 2 \in Nat /\ (n \div 2) * 2 <= n
    BY <2>1, Divided
  <2>3. half \in Nat /\ half * 2 <= n
    BY <2>2
  <2>4. QED
    BY <2>3
<1>2. Part(original, 1) = SubSeq(original, n - half + 1, n)
  BY DEF Part
<1>3. Part(original, 2) = SubSeq(original, 1, n - half)
  BY DEF Part
<1>4. PICK k : k = n - half
  OBVIOUS
<1>5. 1 \in 1..n + 1 /\ k \in 1 - 1..n /\ n \in k..n /\ n = Len(original)
  BY <1>1, <1>4
<1>6. SubSeq(original, 1, k) \o SubSeq(original, k + 1, n) = SubSeq(original, 1, n)
  BY <1>5, ConcatAdjacentSubSeq
<1>7. SubSeq(original, 1, n) = original
  BY SubSeqFull
<1>8. QED
  BY <1>2, <1>3, <1>4, <1>6, <1>7

\* The chunks of all streams are the file.
LEMMA AssembledWhole ==
  ASSUME original \in Seq(Data)
  PROVE  Assembled([k \in 1..StreamCount |-> QuicStream(k)]) = original
<1>. PICK n : n = StreamCount
  OBVIOUS
<1>1. n \in Nat
  BY StreamsCounted
<1>. PICK chunks : chunks = [k \in 1..n |-> QuicStream(k)]
  OBVIOUS
<1>2. CASE ~Reordered
  <2>. DEFINE C == {QuicStream(k) : k \in 1..n}
  <2>1. chunks \in Seq(C) /\ Len(chunks) = n /\ \A k \in 1..n : chunks[k] = QuicStream(k)
    <3>. DEFINE g(k) == QuicStream(k)
    <3>1. \A k \in 1..n : g(k) \in C
      OBVIOUS
    <3>. HIDE DEF C, g
    <3>2. [k \in 1..n |-> g(k)] \in Seq(C) /\ Len([k \in 1..n |-> g(k)]) = n
      BY <1>1, <3>1
    <3>3. QED
      BY <3>2 DEF g
  <2>2. \A i, j \in 1..n : i < j => ~ChunkBefore(chunks[j], chunks[i])
    <3>1. ASSUME NEW i \in 1..n, NEW j \in 1..n, i < j
          PROVE  ~ChunkBefore(chunks[j], chunks[i])
      <4>1. PICK a, b : a = chunks[i] /\ b = chunks[j]
        OBVIOUS
      <4>2. a = QuicStream(i) /\ b = QuicStream(j)
        BY <2>1, <4>1
      <4>3. a.id = 1 /\ a.seq = i /\ b.id = 1 /\ b.seq = j
        BY <1>2, <4>2 DEF QuicStream, StreamSeq
      <4>4. ~(b.id < a.id) /\ ~(b.seq < a.seq)
        BY <1>1, <3>1, <4>3
      <4>5. QED
        BY <4>1, <4>4 DEF ChunkBefore
    <3>2. QED
      BY <3>1
  <2>3. Sorted(chunks) = chunks
    <3>. HIDE DEF C
    <3>1. QED
      BY <2>1, <2>2, SortedInOrder
  <2>4. [i \in DOMAIN chunks |-> chunks[i].payload] = [i \in 1..n |-> Part(original, i)]
    <3>1. DOMAIN chunks = 1..n
      OBVIOUS
    <3>2. \A i \in 1..n : chunks[i].payload = Part(original, i)
      BY <2>1, QuicStreamIs
    <3>3. QED
      BY <3>1, <3>2
  <2>5. FlattenSeq([i \in 1..n |-> Part(original, i)]) = SubSeq(original, 1, PartEnd(n))
    <3>1. n \in 0..n
      BY <1>1
    <3>2. QED
      BY <1>2, <3>1, PartsJoined
  <2>6. PartEnd(n) = Len(original) /\ SubSeq(original, 1, Len(original)) = original
    BY <1>2, PartEnds, SubSeqFull
  <2>7. QED
    BY <2>3, <2>4, <2>5, <2>6 DEF Assembled
<1>3. CASE Reordered
  <2>1. PICK a, b : a = QuicStream(1) /\ b = QuicStream(2)
    OBVIOUS
  <2>2. chunks = <<a, b>>
    <3>1. n = 2
      BY <1>3 DEF StreamCount
    <3>2. QED
      BY <2>1, <3>1
  <2>3. /\ a.id = 3 /\ a.payload = Part(original, 1)
        /\ b.id = 1 /\ b.payload = Part(original, 2)
    BY <1>3, <2>1 DEF QuicStream
  <2>4. Sorted(<<a, b>>) = <<b, a>>
    <3>1. ChunkBefore(b, a)
      BY <2>3 DEF ChunkBefore
    <3>2. QED
      BY <3>1, SortedSwapped
  <2>5. PICK sorted : sorted = <<b, a>>
    OBVIOUS
  <2>6. PICK p, q : p = Part(original, 2) /\ q = Part(original, 1)
    OBVIOUS
  <2>7. [i \in DOMAIN sorted |-> sorted[i].payload] = <<p, q>>
    <3>1. DOMAIN sorted = 1..2 /\ sorted[1].payload = p /\ sorted[2].payload = q
      BY <2>3, <2>5, <2>6
    <3>2. QED
      BY <3>1
  <2>8. FlattenSeq(<<p, q>>) = p \o q
    <3>1. p \in Seq(Data) /\ q \in Seq(Data)
      BY <2>6, PartIs
    <3>2. QED
      BY <3>1, FlattenedTwo
  <2>9. Assembled(chunks) = FlattenSeq([i \in DOMAIN sorted |-> sorted[i].payload])
    <3>1. Sorted(chunks) = sorted
      BY <2>2, <2>4, <2>5
    <3>2. QED
      BY <3>1 DEF Assembled
  <2>10. p \o q = original
    BY <1>3, <2>6, HalvesJoined
  <2>11. Assembled(chunks) = p \o q
    BY <2>7, <2>8, <2>9
  <2>12. chunks = [k \in 1..StreamCount |-> QuicStream(k)]
    OBVIOUS
  <2>13. QED
    BY <2>10, <2>11, <2>12
<1>4. QED
  BY <1>2, <1>3

\* Undisturbed, the server goes on with the next stream, or closes.
LEMMA QuicCalmGoesOn ==
  ASSUME protocol = "quic-like", ~TooLong, original = content, original \in Seq(Data),
         NEW k \in 0..StreamCount, NEW i, QuicGoesOn(i, k, "client")
  PROVE  \/ k = StreamCount /\ Exchange("server", i, <<ClosePacket(original)>>) /\ Finish("server", OK)
         \/ k < StreamCount /\ Exchange("server", i, <<QuicFrame(k + 1)>>) /\ Goto("server", "ack")
<1>1. StreamCount \in Nat /\ k \in Nat /\ k + 1 \in Nat \ {0}
  BY StreamsCounted
<1>2. ~ShortRead(k + 1)
  <2>1. Part(original, k + 1) \in Seq(Data)
    BY <1>1, PartIs
  <2>2. Len(Part(original, k + 1)) \in Nat
    BY <2>1
  <2>3. QED
    BY <2>2 DEF ShortRead
<1>3. ~HalfTooLong
  <2>. SUFFICES ASSUME Reordered
                PROVE  ~(Len(Part(original, 2)) > MaxPayload)
    BY DEF HalfTooLong
  <2>1. PICK half, n \in Nat : half = Len(original) \div 2 /\ n = Len(original)
    OBVIOUS
  <2>2. half \in Nat /\ half <= n
    <3>1. 2 \in Nat \ {0}
      OBVIOUS
    <3>2. n \div 2 \in Nat /\ (n \div 2) * 2 <= n
      BY <3>1, Divided
    <3>3. half \in Nat /\ half * 2 <= n
      BY <2>1, <3>2
    <3>4. QED
      BY <3>3
  <2>3. Part(original, 2) = SubSeq(original, 1, n - half)
    BY <2>1 DEF Part
  <2>4. PICK x : x = n - half
    OBVIOUS
  <2>5. x \in Int /\ x <= n /\ x >= 0 /\ 1 \in Int /\ \A j \in 1..x : original[j] \in Data
    BY <2>1, <2>2, <2>4
  <2>6. Len(SubSeq(original, 1, x)) = IF 1 <= x THEN x - 1 + 1 ELSE 0
    BY <2>5, SubSeqProperties
  <2>7. Len(Part(original, 2)) <= n
    BY <2>3, <2>4, <2>5, <2>6
  <2>8. n <= MaxPayload
    BY <2>1, QuicAssumption DEF TooLong
  <2>9. PICK y : y = Len(Part(original, 2))
    OBVIOUS
  <2>10. y = IF 1 <= x THEN x - 1 + 1 ELSE 0
    BY <2>3, <2>4, <2>6, <2>9
  <2>11. y \in Nat /\ MaxPayload \in Nat
    BY <2>5, <2>10, QuicAssumption
  <2>12. QED
    BY <2>7, <2>8, <2>9, <2>11
<1>4. Payloads(k + 1) = {Part(original, k + 1)}
  <2>1. Reordered => Len(original) <= MaxPayload
    BY QuicAssumption DEF TooLong
  <2>2. QED
    BY <2>1 DEF Payloads
<1>5. QuicFrame(k + 1) =
        StreamPacket(IF Reordered /\ k = 0 THEN 3 ELSE 1, StreamSeq(k + 1), Part(original, k + 1))
  <2>1. k + 1 = 1 <=> k = 0
    BY <1>1
  <2>2. QED
    BY <2>1 DEF QuicFrame, QuicStream
<1>6. CASE k = StreamCount
  BY <1>1, <1>2, <1>3, <1>6 DEF QuicGoesOn
<1>7. CASE k < StreamCount
  BY <1>1, <1>2, <1>3, <1>4, <1>5, <1>7 DEF QuicGoesOn
<1>8. QED
  BY <1>1, <1>6, <1>7

\* The client has stored the first n streams.
Kept(n) == mem.chunks = [k \in 1..n |-> QuicStream(k)]
ZeroRtt == scenario = "zero-rtt-replay-risk"

QuicGreeting ==
  \/ Stage("initial", "start", <<>>, <<>>)
  \/ ~ZeroRtt /\ Stage("initial", "handshake", <<Packet("INITIAL", "client")>>, <<>>)
  \/ ZeroRtt /\ Stage("initial", "handshake",
                      <<Packet("INITIAL", "client"), Packet("ZERO_RTT", "client")>>, <<>>)
  \/ ZeroRtt /\ Stage("zero_rtt", "handshake", <<Packet("ZERO_RTT", "client")>>, <<>>)
QuicAnswered ==
  \/ Stage("handshake_ack", "handshake", <<>>, <<Packet("HANDSHAKE", "server")>>)
  \/ Stage("handshake_ack", "streams", <<Packet("HANDSHAKE_ACK", "client")>>, <<>>)
QuicShaking == mem.acked = 0 /\ mem.chunks = <<>> /\ (QuicGreeting \/ QuicAnswered)
QuicStreaming ==
  /\ mem.acked < StreamCount
  /\ \/ Kept(mem.acked) /\ Stage("ack", "streams", <<>>, <<QuicFrame(mem.acked + 1)>>)
     \/ /\ Kept(mem.acked + 1)
        /\ Stage("ack", "streams", <<AckPacket("client", StreamSeq(mem.acked + 1))>>, <<>>)
QuicClosing ==
  Kept(StreamCount) /\ Stage("exit", "streams", <<>>, <<ClosePacket(original)>>)
QuicMem ==
  /\ \E peer : mem = [peer |-> peer, acked |-> mem.acked, chunks |-> mem.chunks]
  /\ mem.acked \in 0..StreamCount
QuicRun ==
  /\ scenario \in QuicScenarios /\ QuicMem
  /\ QuicShaking \/ QuicStreaming \/ QuicClosing \/ BothGone

LEMMA QuicFortunate == protocol = "quic-like" /\ scenario \in QuicScenarios => Fortunate
BY DEF Fortunate, LetIn, TcpFamily, ExpectedOk

\* The streams are the same after a step.
LEMMA QuicFramesStay ==
  ASSUME SettingsStay
  PROVE  /\ StreamCount' = StreamCount /\ ZeroRtt' = ZeroRtt
         /\ \A k : StreamSeq(k)' = StreamSeq(k)
         /\ \A k : QuicStream(k)' = QuicStream(k)
         /\ \A k : QuicFrame(k)' = QuicFrame(k)
         /\ \A n : mem'.chunks = [k \in 1..n |-> QuicStream(k)] => Kept(n)'
<1>1. Reordered' = Reordered /\ original' = original
  BY DEF SettingsStay, Reordered
<1>2. StreamCount' = StreamCount /\ \A k : StreamSeq(k)' = StreamSeq(k)
  BY StreamsStay
<1>3. \A k : Part(original, k)' = Part(original, k)
  BY <1>1 DEF Part
<1>4. \A k : QuicStream(k)' = QuicStream(k)
  BY <1>1, <1>2, <1>3 DEF QuicStream
<1>5. \A k : QuicFrame(k)' = QuicFrame(k)
  BY <1>4 DEF QuicFrame
<1>6. \A n : mem'.chunks = [k \in 1..n |-> QuicStream(k)] => Kept(n)'
  BY <1>4 DEF Kept
<1>7. QED
  BY <1>2, <1>4, <1>5, <1>6 DEF SettingsStay, ZeroRtt

\* A program that has something to receive waits for it.
LEMMA QuicServerWaits ==
  ASSUME faults = {}, Pair(net), QuicRun, at.server # "exit"
  PROVE  TimesOut("server") => FALSE
<1>1. TimesOut("server") => net.server = <<>>
           /\ (at.client = "exit" \/ (net.client = <<>> /\ at.client # "start"))
  BY CalmReceives
<1>2. CASE QuicShaking
  <2>1. /\ <<Packet("INITIAL", "client")>> # <<>> /\ <<Packet("ZERO_RTT", "client")>> # <<>>
        /\ <<Packet("INITIAL", "client"), Packet("ZERO_RTT", "client")>> # <<>>
        /\ <<Packet("HANDSHAKE", "server")>> # <<>> /\ <<Packet("HANDSHAKE_ACK", "client")>> # <<>>
    OBVIOUS
  <2>2. QED
    BY <1>1, <1>2, <2>1 DEF QuicShaking, QuicGreeting, QuicAnswered, Stage
<1>3. CASE QuicStreaming
  <2>1. \A x : <<x>> # <<>>
    BY ShortChannels
  <2>2. QED
    BY <1>1, <1>3, <2>1 DEF QuicStreaming, Stage
<1>4. QED
  BY <1>2, <1>3 DEF QuicRun, QuicClosing, BothGone, Stage

LEMMA QuicClientWaits ==
  ASSUME faults = {}, Pair(net), QuicRun, at.client \in {"handshake", "streams"}
  PROVE  TimesOut("client") => FALSE
<1>1. TimesOut("client") => net.client = <<>>
           /\ (at.server = "exit" \/ (net.server = <<>> /\ at.server # "start"))
  BY CalmReceives
<1>2. \A x : <<x>> # <<>>
  BY ShortChannels
<1>3. CASE QuicShaking
  <2>1. /\ <<Packet("INITIAL", "client"), Packet("ZERO_RTT", "client")>> # <<>>
    OBVIOUS
  <2>2. QED
    BY <1>1, <1>2, <1>3, <2>1 DEF QuicShaking, QuicGreeting, QuicAnswered, Stage
<1>4. CASE QuicStreaming
  BY <1>1, <1>2, <1>4 DEF QuicStreaming, Stage
<1>5. CASE QuicClosing
  BY <1>1, <1>2, <1>5 DEF QuicClosing, Stage
<1>6. QED
  BY <1>3, <1>4, <1>5 DEF QuicRun, BothGone

\* What the server does with the only datagram there is, and what the client does.
LEMMA QuicServerTakes ==
  ASSUME Pair(net), NEW x, net.server = <<x>>, NEW msgs, Exchange("server", 1, msgs)
  PROVE  net' = [server |-> <<>>, client |-> net.client \o msgs]
<1>1. net' = [server |-> RemoveAt(net.server, 1), client |-> net.client \o msgs]
  BY ExchangeIs
<1>2. QED
  BY <1>1, ShortRemoved

LEMMA QuicClientTakes ==
  ASSUME Pair(net), NEW x, net.client = <<x>>, NEW msgs, Exchange("client", 1, msgs)
  PROVE  net' = [server |-> net.server \o msgs, client |-> <<>>]
<1>1. net' = [server |-> net.server \o msgs, client |-> RemoveAt(net.client, 1)]
  BY ExchangeIs
<1>2. QED
  BY <1>1, ShortRemoved

LEMMA QuicMemIs ==
  ASSUME SettingsStay, QuicMem
  PROVE  /\ mem' = mem => QuicMem'
         /\ \A x : mem' = [mem EXCEPT !.peer = x] =>
              QuicMem' /\ mem'.acked = mem.acked /\ mem'.chunks = mem.chunks
         /\ \A x : \A k \in 0..StreamCount : mem' = [mem EXCEPT !.peer = x, !.acked = k] =>
              QuicMem' /\ mem'.acked = k /\ mem'.chunks = mem.chunks
         /\ \A c : mem' = [mem EXCEPT !.chunks = c] =>
              QuicMem' /\ mem'.acked = mem.acked /\ mem'.chunks = c
<1>1. PICK peer : mem = [peer |-> peer, acked |-> mem.acked, chunks |-> mem.chunks]
  BY DEF QuicMem
<1>2. mem.acked \in 0..StreamCount /\ StreamCount' = StreamCount
  BY QuicFramesStay DEF QuicMem
<1>3. ASSUME NEW x, NEW k \in 0..StreamCount, NEW c,
             mem' = [peer |-> x, acked |-> k, chunks |-> c]
      PROVE  QuicMem' /\ mem'.acked = k /\ mem'.chunks = c
  <2>1. mem'.acked = k /\ mem'.chunks = c
    BY <1>3
  <2>2. mem' = [peer |-> x, acked |-> mem'.acked, chunks |-> mem'.chunks]
    BY <1>3, <2>1
  <2>3. QED
    BY <1>2, <2>1, <2>2 DEF QuicMem
<1>4. ASSUME NEW x, mem' = [mem EXCEPT !.peer = x]
      PROVE  QuicMem' /\ mem'.acked = mem.acked /\ mem'.chunks = mem.chunks
  <2>1. mem' = [peer |-> x, acked |-> mem.acked, chunks |-> mem.chunks]
    BY <1>1, <1>4
  <2>2. QED
    BY <1>2, <1>3, <2>1
<1>5. ASSUME NEW x, NEW k \in 0..StreamCount, mem' = [mem EXCEPT !.peer = x, !.acked = k]
      PROVE  QuicMem' /\ mem'.acked = k /\ mem'.chunks = mem.chunks
  <2>1. mem' = [peer |-> x, acked |-> k, chunks |-> mem.chunks]
    BY <1>1, <1>5
  <2>2. QED
    BY <1>3, <2>1
<1>6. ASSUME NEW c, mem' = [mem EXCEPT !.chunks = c]
      PROVE  QuicMem' /\ mem'.acked = mem.acked /\ mem'.chunks = c
  <2>1. mem' = [peer |-> peer, acked |-> mem.acked, chunks |-> c]
    BY <1>1, <1>6
  <2>2. QED
    BY <1>2, <1>3, <2>1
<1>7. mem' = mem => QuicMem'
  BY <1>2 DEF QuicMem
<1>8. QED
  BY Zenon, <1>4, <1>5, <1>6, <1>7

\* The server, with k streams acknowledged, takes the only datagram and goes on.
LEMMA QuicServerGoesOn ==
  ASSUME protocol = "quic-like", ~TooLong, original = content, original \in Seq(Data),
         SettingsStay, ReportedOnce, Pair(net), scenario \in QuicScenarios,
         at.client = "streams", NEW x, net.server = <<x>>, net.client = <<>>,
         NEW k \in 0..StreamCount, QuicGoesOn(1, k, "client"),
         QuicMem', mem'.acked = k, mem'.chunks = [j \in 1..k |-> QuicStream(j)]
  PROVE  GoesWell("server") /\ QuicRun' /\ Pair(net')
<1>1. /\ scenario' = scenario /\ Fortunate /\ Pair(at) /\ Pair(results) /\ original' = original
  BY QuicFortunate DEF SettingsStay, ReportedOnce
<1>2. Kept(k)'
  BY QuicFramesStay
<1>3. CASE k = StreamCount /\ Exchange("server", 1, <<ClosePacket(original)>>) /\ Finish("server", OK)
  <2>1. net' = [server |-> <<>>, client |-> net.client \o <<ClosePacket(original)>>]
    BY <1>3, QuicServerTakes
  <2>2. net' = [server |-> <<>>, client |-> <<ClosePacket(original)>>]
    BY <2>1, ShortChannels
  <2>3. net'.server = <<>> /\ net'.client = <<ClosePacket(original)>> /\ Pair(net')
    BY <2>2 DEF Pair
  <2>4. at'.server = "exit" /\ at'.client = "streams"
    BY <1>1, <1>3, Moves
  <2>5. StreamCount' = k
    BY <1>3, QuicFramesStay
  <2>6. QuicClosing'
    BY <1>1, <1>2, <2>3, <2>4, <2>5 DEF QuicClosing, Stage, ClosePacket
  <2>7. QED
    BY <1>1, <1>3, <2>3, <2>6 DEF GoesWell, QuicRun
<1>4. CASE k < StreamCount /\ Exchange("server", 1, <<QuicFrame(k + 1)>>) /\ Goto("server", "ack")
  <2>1. net' = [server |-> <<>>, client |-> net.client \o <<QuicFrame(k + 1)>>]
    BY <1>4, QuicServerTakes
  <2>2. net' = [server |-> <<>>, client |-> <<QuicFrame(k + 1)>>]
    BY <2>1, ShortChannels
  <2>3. net'.server = <<>> /\ net'.client = <<QuicFrame(k + 1)>> /\ Pair(net')
    BY <2>2 DEF Pair
  <2>4. at'.server = "ack" /\ at'.client = "streams"
    BY <1>1, <1>4, Moves
  <2>5. StreamCount' = StreamCount /\ QuicFrame(k + 1)' = QuicFrame(k + 1)
    BY QuicFramesStay
  <2>6. mem'.acked < StreamCount' /\ Kept(mem.acked)' /\ net'.client = <<QuicFrame(mem.acked + 1)>>'
    <3>1. Kept(mem.acked)'
      BY <1>2 DEF Kept
    <3>2. QuicFrame(mem.acked + 1)' = QuicFrame(k + 1)
      <4>1. QuicFrame(mem.acked + 1)' = QuicFrame(k + 1)'
        BY DEF QuicFrame, QuicStream, StreamSeq, Part, Reordered
      <4>2. QED
        BY <2>5, <4>1
    <3>3. QED
      BY <1>4, <2>3, <2>5, <3>1, <3>2
  <2>7. QuicStreaming'
    BY <2>3, <2>4, <2>6 DEF QuicStreaming, Stage
  <2>8. "ack" # "exit" /\ GoesWell("server")
    BY <1>4 DEF GoesWell
  <2>9. QED
    BY <1>1, <2>3, <2>7, <2>8 DEF QuicRun
<1>5. QED
  BY <1>3, <1>4, QuicCalmGoesOn

LEMMA QuicServerRuns ==
  ASSUME faults = {}, protocol = "quic-like", ~TooLong, original = content,
         original \in Seq(Data), SettingsStay, ReportedOnce, Pair(net), QuicRun, QuicServer
  PROVE  GoesWell("server") /\ QuicRun' /\ Pair(net')
<1>1. /\ scenario \in QuicScenarios /\ scenario' = scenario /\ Fortunate
      /\ Pair(at) /\ Pair(results) /\ original' = original /\ QuicMem
  BY QuicFortunate DEF QuicRun, SettingsStay, ReportedOnce
<1>2. at.server # "exit" /\ StreamCount \in Nat
  BY Zenon, StreamsCounted DEF QuicServer, QuicServerInitial, QuicServerZeroRtt, QuicServerNoZeroRtt,
     QuicServerHandshakeAck, QuicServerAck, QuicServerFails
<1>3. ~QuicServerNoZeroRtt /\ ~QuicServerFails
  BY <1>2, QuicServerWaits DEF QuicServerNoZeroRtt, QuicServerFails
<1>4. \A i \in Arriving("server") : i = 1 /\ 1 \in DOMAIN net["server"]
  BY CalmReceives
<1>5. QuicShaking \/ QuicStreaming
  BY <1>2 DEF QuicRun, QuicClosing, BothGone, Stage
<1>6. ASSUME NEW place \in {"zero_rtt", "handshake_ack"}, Goto("server", place)
      PROVE  GoesWell("server") /\ at'.server = place /\ at'.client = at.client
  <2>1. place # "exit"
    OBVIOUS
  <2>2. QED
    BY <1>1, <1>6, <2>1, Moves DEF GoesWell
<1>7. CASE QuicServerInitial
  <2>1. QuicShaking /\ at.server = "initial" /\ mem.acked = 0 /\ mem.chunks = <<>> /\ QuicGreeting
    BY <1>5, <1>7 DEF QuicServerInitial, QuicStreaming, QuicShaking, QuicAnswered, Stage
  <2>2. PICK i \in Arriving("server") :
           /\ mem' = [mem EXCEPT !.peer = net.server[i].from]
           /\ \/ net.server[i].type # "INITIAL"
                 /\ Exchange("server", i, <<>>) /\ Finish("server", ABORT)
              \/ net.server[i].type = "INITIAL" /\ scenario = "zero-rtt-replay-risk"
                 /\ Exchange("server", i, <<>>) /\ Goto("server", "zero_rtt")
              \/ net.server[i].type = "INITIAL" /\ scenario # "zero-rtt-replay-risk"
                 /\ Exchange("server", i, IF net.server[i].from = "client"
                                          THEN <<Packet("HANDSHAKE", "server")>> ELSE <<>>)
                 /\ Goto("server", "handshake_ack")
    BY <1>7 DEF QuicServerInitial
  <2>3. i = 1 /\ net.server # <<>>
    BY <1>4, ShortRemoved
  <2>4. QuicMem' /\ mem'.acked = 0 /\ mem'.chunks = <<>>
    BY Zenon, <1>1, <2>1, <2>2, QuicMemIs
  <2>5. CASE ~ZeroRtt
    <3>1. Stage("initial", "handshake", <<Packet("INITIAL", "client")>>, <<>>)
      BY <2>1, <2>3, <2>5 DEF QuicGreeting, Stage
    <3>2. net.server[1].type = "INITIAL" /\ net.server[1].from = "client"
      BY <3>1 DEF Stage, Packet
    <3>3. Exchange("server", 1, <<Packet("HANDSHAKE", "server")>>) /\ Goto("server", "handshake_ack")
      BY <2>2, <2>3, <2>5, <3>2 DEF ZeroRtt
    <3>4. net' = [server |-> <<>>, client |-> net.client \o <<Packet("HANDSHAKE", "server")>>]
      BY <3>1, <3>3, QuicServerTakes DEF Stage
    <3>5. net' = [server |-> <<>>, client |-> <<Packet("HANDSHAKE", "server")>>]
      BY <3>1, <3>4, ShortChannels DEF Stage
    <3>6. net'.server = <<>> /\ net'.client = <<Packet("HANDSHAKE", "server")>> /\ Pair(net')
      BY <3>5 DEF Pair
    <3>7. GoesWell("server") /\ at'.server = "handshake_ack" /\ at'.client = "handshake"
      BY <1>6, <3>1, <3>3 DEF Stage
    <3>8. QuicShaking'
      BY <2>4, <3>6, <3>7 DEF QuicShaking, QuicAnswered, Stage
    <3>9. QED
      BY <1>1, <2>4, <3>6, <3>7, <3>8 DEF QuicRun
  <2>6. CASE ZeroRtt
    <3>1. Stage("initial", "handshake", <<Packet("INITIAL", "client"), Packet("ZERO_RTT", "client")>>, <<>>)
      BY <2>1, <2>3, <2>6 DEF QuicGreeting, Stage
    <3>2. net.server[1].type = "INITIAL"
      BY <3>1, ShortRemoved DEF Stage, Packet
    <3>3. Exchange("server", 1, <<>>) /\ Goto("server", "zero_rtt")
      BY <2>2, <2>3, <2>6, <3>2 DEF ZeroRtt
    <3>4. net' = [server |-> RemoveAt(net.server, 1), client |-> net.client \o <<>>]
      BY <3>3, ExchangeIs
    <3>5. net' = [server |-> <<Packet("ZERO_RTT", "client")>>, client |-> <<>>]
      BY <3>1, <3>4, ShortRemoved, ShortChannels DEF Stage
    <3>6. net'.server = <<Packet("ZERO_RTT", "client")>> /\ net'.client = <<>> /\ Pair(net')
      BY <3>5 DEF Pair
    <3>7. GoesWell("server") /\ at'.server = "zero_rtt" /\ at'.client = "handshake"
      BY <1>6, <3>1, <3>3 DEF Stage
    <3>8. ZeroRtt'
      BY <2>6, QuicFramesStay
    <3>9. QuicShaking'
      BY <2>4, <3>6, <3>7, <3>8 DEF QuicShaking, QuicGreeting, Stage
    <3>10. QED
      BY <1>1, <2>4, <3>6, <3>7, <3>9 DEF QuicRun
  <2>7. QED
    BY <2>5, <2>6
<1>8. CASE QuicServerZeroRtt
  <2>1. /\ mem.acked = 0 /\ mem.chunks = <<>>
        /\ Stage("zero_rtt", "handshake", <<Packet("ZERO_RTT", "client")>>, <<>>)
    BY <1>5, <1>8 DEF QuicServerZeroRtt, QuicStreaming, QuicShaking, QuicGreeting, QuicAnswered, Stage
  <2>2. PICK i \in Arriving("server") :
           /\ mem' = [mem EXCEPT !.peer = net.server[i].from]
           /\ Exchange("server", i,
                IF mem'.peer = "client" THEN <<Packet("HANDSHAKE", "server")>> ELSE <<>>)
    BY <1>8 DEF QuicServerZeroRtt
  <2>3. i = 1
    BY <1>4
  <2>4. QuicMem' /\ mem'.acked = 0 /\ mem'.chunks = <<>>
    BY Zenon, <1>1, <2>1, <2>2, QuicMemIs
  <2>5. mem'.peer = "client"
    <3>1. net.server[1].from = "client"
      BY <2>1 DEF Stage, Packet
    <3>2. PICK peer : mem = [peer |-> peer, acked |-> mem.acked, chunks |-> mem.chunks]
      BY <1>1 DEF QuicMem
    <3>3. mem' = [peer |-> "client", acked |-> mem.acked, chunks |-> mem.chunks]
      BY <2>2, <2>3, <3>1, <3>2
    <3>4. QED
      BY <3>3
  <2>6. Exchange("server", 1, <<Packet("HANDSHAKE", "server")>>) /\ Goto("server", "handshake_ack")
    BY <1>8, <2>2, <2>3, <2>5 DEF QuicServerZeroRtt
  <2>7. net' = [server |-> <<>>, client |-> net.client \o <<Packet("HANDSHAKE", "server")>>]
    BY <2>1, <2>6, QuicServerTakes DEF Stage
  <2>8. net' = [server |-> <<>>, client |-> <<Packet("HANDSHAKE", "server")>>]
    BY <2>1, <2>7, ShortChannels DEF Stage
  <2>9. net'.server = <<>> /\ net'.client = <<Packet("HANDSHAKE", "server")>> /\ Pair(net')
    BY <2>8 DEF Pair
  <2>10. GoesWell("server") /\ at'.server = "handshake_ack" /\ at'.client = "handshake"
    BY <1>6, <2>1, <2>6 DEF Stage
  <2>11. QuicShaking'
    BY <2>4, <2>9, <2>10 DEF QuicShaking, QuicAnswered, Stage
  <2>12. QED
    BY <1>1, <2>4, <2>9, <2>10, <2>11 DEF QuicRun
<1>9. CASE QuicServerHandshakeAck
  <2>1. /\ mem.acked = 0 /\ mem.chunks = <<>> /\ QuicAnswered
    BY <1>5, <1>9 DEF QuicServerHandshakeAck, QuicStreaming, QuicShaking, QuicGreeting, Stage
  <2>2. PICK i \in Arriving("server") :
           /\ mem' = [mem EXCEPT !.peer = net.server[i].from]
           /\ \/ net.server[i].type = "HANDSHAKE_ACK" /\ QuicGoesOn(i, 0, net.server[i].from)
              \/ net.server[i].type # "HANDSHAKE_ACK"
                 /\ Exchange("server", i, <<>>) /\ Finish("server", ABORT)
    BY <1>9 DEF QuicServerHandshakeAck
  <2>3. i = 1 /\ net.server # <<>>
    BY <1>4, ShortRemoved
  <2>4. Stage("handshake_ack", "streams", <<Packet("HANDSHAKE_ACK", "client")>>, <<>>)
    BY <2>1, <2>3 DEF QuicAnswered, Stage
  <2>5. net.server[1].type = "HANDSHAKE_ACK" /\ net.server[1].from = "client"
    BY <2>4 DEF Stage, Packet
  <2>6. QuicGoesOn(1, 0, "client")
    BY <2>2, <2>3, <2>5
  <2>7. QuicMem' /\ mem'.acked = 0 /\ mem'.chunks = <<>>
    BY Zenon, <1>1, <2>1, <2>2, QuicMemIs
  <2>8. <<>> = [j \in 1..0 |-> QuicStream(j)] /\ 0 \in 0..StreamCount
    BY <1>2
  <2>9. /\ at.client = "streams" /\ net.server = <<Packet("HANDSHAKE_ACK", "client")>>
        /\ net.client = <<>>
    BY <2>4 DEF Stage
  <2>10. QED
    BY <1>1, <2>6, <2>7, <2>8, <2>9, QuicServerGoesOn
<1>10. CASE QuicServerAck
  <2>1. QuicStreaming
    BY <1>5, <1>10 DEF QuicServerAck, QuicShaking, QuicGreeting, QuicAnswered, Stage
  <2>2. PICK k : k = mem.acked + 1
    OBVIOUS
  <2>3. PICK i \in Arriving("server") :
          \/ Acknowledges(net.server[i], k)
             /\ mem' = [mem EXCEPT !.peer = net.server[i].from, !.acked = k]
             /\ QuicGoesOn(i, k, net.server[i].from)
          \/ ~Acknowledges(net.server[i], k)
             /\ mem' = [mem EXCEPT !.peer = net.server[i].from]
             /\ Exchange("server", i, <<>>) /\ Finish("server", ABORT)
    BY Zenon, <1>10, <2>2 DEF QuicServerAck
  <2>4. i = 1 /\ net.server # <<>>
    BY <1>4, ShortRemoved
  <2>5. /\ Kept(k) /\ Stage("ack", "streams", <<AckPacket("client", StreamSeq(k))>>, <<>>)
    BY <2>1, <2>2, <2>4 DEF QuicStreaming, Stage
  <2>6. net.server[1].from = "client" /\ Acknowledges(net.server[1], k)
    BY <2>5 DEF Stage, AckPacket, Acknowledges
  <2>7. mem' = [mem EXCEPT !.peer = "client", !.acked = k] /\ QuicGoesOn(1, k, "client")
    BY <2>3, <2>4, <2>6
  <2>8. k \in 0..StreamCount
    BY <1>1, <1>2, <2>1, <2>2 DEF QuicMem, QuicStreaming
  <2>9. QuicMem' /\ mem'.acked = k /\ mem'.chunks = mem.chunks
    BY Zenon, <1>1, <2>7, <2>8, QuicMemIs
  <2>10. mem'.chunks = [j \in 1..k |-> QuicStream(j)]
    BY <2>5, <2>9 DEF Kept
  <2>11. /\ at.client = "streams" /\ net.server = <<AckPacket("client", StreamSeq(k))>>
         /\ net.client = <<>>
    BY <2>5 DEF Stage
  <2>12. QED
    BY <1>1, <2>7, <2>8, <2>9, <2>10, <2>11, QuicServerGoesOn
<1>11. QED
  BY <1>3, <1>7, <1>8, <1>9, <1>10 DEF QuicServer

\* There is room for all streams, and the next one goes behind those that are kept.
LEMMA QuicStored ==
  ASSUME protocol = "quic-like", ~TooLong, original \in Seq(Data),
         NEW n \in 0..StreamCount, n < StreamCount, Kept(n)
  PROVE  QuicStore(mem.chunks, QuicFrame(n + 1)) = [k \in 1..n + 1 |-> QuicStream(k)]
<1>. DEFINE g(k) == QuicStream(k)
<1>1. StreamCount \in Nat /\ n \in Nat /\ ~(StreamCount > Capacity) /\ Capacity \in Nat
  BY StreamsCounted, QuicAssumption DEF TooLong
<1>2. PICK old : old = mem.chunks
  OBVIOUS
<1>3. old = [k \in 1..n |-> g(k)]
  BY <1>2 DEF Kept
<1>4. PICK C : C = {g(k) : k \in 1..n + 1}
  OBVIOUS
<1>5. \A k \in 1..n + 1 : g(k) \in C
  BY <1>4
<1>6. QuicFrame(n + 1).id = g(n + 1).id /\ QuicFrame(n + 1).seq = g(n + 1).seq
      /\ QuicFrame(n + 1).payload = g(n + 1).payload
      /\ g(n + 1) = [id |-> QuicFrame(n + 1).id, seq |-> QuicFrame(n + 1).seq,
                     payload |-> QuicFrame(n + 1).payload]
  BY QuicStreamIs
<1>. HIDE DEF g
<1>7. old \in Seq(C) /\ Len(old) = n
  BY <1>1, <1>3, <1>5
<1>8. Len(old) < Capacity
  BY <1>1, <1>7
<1>9. QuicStore(old, QuicFrame(n + 1)) = Append(old, g(n + 1))
  BY <1>6, <1>8 DEF QuicStore
<1>10. PICK new : new = Append(old, g(n + 1))
  OBVIOUS
<1>11. g(n + 1) \in C
  BY <1>1, <1>5
<1>12. /\ new \in Seq(C) /\ Len(new) = n + 1 /\ (\A i \in 1..n : new[i] = old[i])
       /\ new[n + 1] = g(n + 1)
  BY <1>7, <1>10, <1>11, AppendProperties
<1>13. PICK t : t = [k \in 1..n + 1 |-> g(k)]
  OBVIOUS
<1>14. t \in Seq(C) /\ Len(t) = n + 1 /\ \A k \in 1..n + 1 : t[k] = g(k)
  BY <1>1, <1>5, <1>13
<1>15. \A i \in 1..n + 1 : new[i] = t[i]
  <2>1. \A i \in 1..n : new[i] = g(i)
    BY <1>3, <1>12
  <2>2. QED
    BY <1>1, <1>12, <1>14, <2>1
<1>16. new = t
  BY <1>12, <1>14, <1>15, SeqEqual
<1>17. QED
  BY <1>2, <1>9, <1>10, <1>13, <1>16 DEF g

LEMMA QuicClientRuns ==
  ASSUME faults = {}, protocol = "quic-like", ~TooLong, original = content,
         original \in Seq(Data), SettingsStay, ReportedOnce, Pair(net), QuicRun, QuicClient
  PROVE  GoesWell("client") /\ QuicRun' /\ Pair(net')
<1>1. /\ scenario \in QuicScenarios /\ scenario' = scenario /\ Fortunate
      /\ Pair(at) /\ Pair(results) /\ original' = original /\ QuicMem
  BY QuicFortunate DEF QuicRun, SettingsStay, ReportedOnce
<1>2. at.client # "exit" /\ StreamCount \in Nat
  BY StreamsCounted DEF QuicClient, QuicClientStart, QuicClientHandshake, QuicClientStream,
     QuicClientClose, QuicClientIgnores, QuicClientFails
<1>3. ~QuicClientFails
  BY QuicClientWaits DEF QuicClientFails
<1>4. \A i \in Arriving("client") : i = 1 /\ 1 \in DOMAIN net["client"]
  BY CalmReceives
<1>5. QuicShaking \/ QuicStreaming \/ QuicClosing
  BY <1>2 DEF QuicRun, BothGone
<1>6. ASSUME NEW place \in {"handshake", "streams"}, Goto("client", place)
      PROVE  GoesWell("client") /\ at'.client = place /\ at'.server = at.server
  <2>1. place # "exit"
    OBVIOUS
  <2>2. QED
    BY <1>1, <1>6, <2>1, Moves DEF GoesWell
<1>7. CASE QuicClientStart
  <2>1. mem.acked = 0 /\ mem.chunks = <<>> /\ Stage("initial", "start", <<>>, <<>>) /\ mem' = mem
    BY <1>5, <1>7 DEF QuicClientStart, QuicStreaming, QuicClosing, QuicShaking, QuicGreeting,
       QuicAnswered, Stage
  <2>2. QuicMem' /\ mem'.acked = 0 /\ mem'.chunks = <<>> /\ ZeroRtt' = ZeroRtt
    BY Zenon, <1>1, <2>1, QuicMemIs, QuicFramesStay
  <2>3. GoesWell("client") /\ at'.client = "handshake" /\ at'.server = "initial"
    BY <1>6, <1>7, <2>1 DEF QuicClientStart, Stage
  <2>4. CASE ~ZeroRtt
    <3>1. Send("client", <<Packet("INITIAL", "client")>> \o <<>>)
      BY <1>7, <2>4 DEF QuicClientStart, ZeroRtt
    <3>2. <<Packet("INITIAL", "client")>> \o <<>> = <<Packet("INITIAL", "client")>>
      <4>1. <<Packet("INITIAL", "client")>> \in Seq({Packet("INITIAL", "client")})
        OBVIOUS
      <4>2. QED
        BY <4>1, ConcatEmptySeq
    <3>3. net' = [server |-> net.server \o <<Packet("INITIAL", "client")>>, client |-> net.client]
      BY <3>1, <3>2, SendIs
    <3>4. net' = [server |-> <<Packet("INITIAL", "client")>>, client |-> <<>>]
      BY <2>1, <3>3, ShortChannels DEF Stage
    <3>5. net'.server = <<Packet("INITIAL", "client")>> /\ net'.client = <<>> /\ Pair(net')
      BY <3>4 DEF Pair
    <3>6. QuicShaking'
      BY <2>2, <2>3, <2>4, <3>5 DEF QuicShaking, QuicGreeting, Stage
    <3>7. QED
      BY <1>1, <2>2, <2>3, <3>5, <3>6 DEF QuicRun
  <2>5. CASE ZeroRtt
    <3>1. Send("client", <<Packet("INITIAL", "client")>> \o <<Packet("ZERO_RTT", "client")>>)
      BY <1>7, <2>5 DEF QuicClientStart, ZeroRtt
    <3>2. Send("client", <<Packet("INITIAL", "client"), Packet("ZERO_RTT", "client")>>)
      BY <3>1, ShortChannels
    <3>3. net' = [server |-> net.server \o <<Packet("INITIAL", "client"), Packet("ZERO_RTT", "client")>>,
                  client |-> net.client]
      BY <3>2, SendIs
    <3>4. net' = [server |-> <<Packet("INITIAL", "client"), Packet("ZERO_RTT", "client")>>,
                  client |-> <<>>]
      BY <2>1, <3>3, ShortChannels DEF Stage
    <3>5. /\ net'.server = <<Packet("INITIAL", "client"), Packet("ZERO_RTT", "client")>>
          /\ net'.client = <<>> /\ Pair(net')
      BY <3>4 DEF Pair
    <3>6. QuicShaking'
      BY <2>2, <2>3, <2>5, <3>5 DEF QuicShaking, QuicGreeting, Stage
    <3>7. QED
      BY <1>1, <2>2, <2>3, <3>5, <3>6 DEF QuicRun
  <2>6. QED
    BY <2>4, <2>5
<1>8. CASE QuicClientHandshake
  <2>1. PICK i \in Arriving("client") :
          \/ net.client[i].type = "HANDSHAKE"
             /\ Exchange("client", i, <<Packet("HANDSHAKE_ACK", "client")>>)
             /\ Goto("client", "streams")
          \/ net.client[i].type # "HANDSHAKE"
             /\ Exchange("client", i, <<>>) /\ Finish("client", ABORT)
    BY <1>8 DEF QuicClientHandshake
  <2>2. i = 1 /\ net.client # <<>> /\ at.client = "handshake" /\ mem' = mem
    BY <1>4, <1>8, ShortRemoved DEF QuicClientHandshake
  <2>3. /\ mem.acked = 0 /\ mem.chunks = <<>>
        /\ Stage("handshake_ack", "handshake", <<>>, <<Packet("HANDSHAKE", "server")>>)
    BY <1>5, <2>2 DEF QuicStreaming, QuicClosing, QuicShaking, QuicGreeting, QuicAnswered, Stage
  <2>4. net.client[1].type = "HANDSHAKE"
    BY <2>3 DEF Stage, Packet
  <2>5. Exchange("client", 1, <<Packet("HANDSHAKE_ACK", "client")>>) /\ Goto("client", "streams")
    BY <2>1, <2>2, <2>4
  <2>6. net' = [server |-> net.server \o <<Packet("HANDSHAKE_ACK", "client")>>, client |-> <<>>]
    BY <2>3, <2>5, QuicClientTakes DEF Stage
  <2>7. net' = [server |-> <<Packet("HANDSHAKE_ACK", "client")>>, client |-> <<>>]
    BY <2>3, <2>6, ShortChannels DEF Stage
  <2>8. net'.server = <<Packet("HANDSHAKE_ACK", "client")>> /\ net'.client = <<>> /\ Pair(net')
    BY <2>7 DEF Pair
  <2>9. GoesWell("client") /\ at'.client = "streams" /\ at'.server = "handshake_ack"
    BY <1>6, <2>3, <2>5 DEF Stage
  <2>10. QuicMem' /\ mem'.acked = 0 /\ mem'.chunks = <<>>
    BY Zenon, <1>1, <2>2, <2>3, QuicMemIs
  <2>11. QuicShaking'
    BY <2>8, <2>9, <2>10 DEF QuicShaking, QuicAnswered, Stage
  <2>12. QED
    BY <1>1, <2>8, <2>9, <2>10, <2>11 DEF QuicRun
<1>9. CASE QuicClientStream \/ QuicClientClose \/ QuicClientIgnores
  <2>1. PICK i \in Arriving("client") :
          \/ /\ QuicClientStream /\ net.client[i].type = "STREAM"
             /\ mem' = [mem EXCEPT !.chunks = QuicStore(mem.chunks, net.client[i])]
             /\ Exchange("client", i, <<AckPacket("client", net.client[i].seq)>>)
          \/ /\ QuicClientClose /\ net.client[i].type = "CLOSE"
             /\ written' = Assembled(mem.chunks)
             /\ \/ written' = net.client[i].digest /\ Publish(written') /\ Finish("client", OK)
                \/ written' # net.client[i].digest /\ UNCHANGED committed /\ Finish("client", ABORT)
             /\ Exchange("client", i, <<>>)
          \/ QuicClientIgnores /\ net.client[i].type \notin {"STREAM", "CLOSE"}
    BY <1>9 DEF QuicClientStream, QuicClientClose, QuicClientIgnores
  <2>2. i = 1 /\ net.client # <<>> /\ at.client = "streams"
    BY <1>4, <1>9, ShortRemoved DEF QuicClientStream, QuicClientClose, QuicClientIgnores
  <2>3. ~QuicShaking
    BY <2>2 DEF QuicShaking, QuicGreeting, QuicAnswered, Stage
  <2>4. CASE QuicStreaming
    <3>1. PICK n : n = mem.acked
      OBVIOUS
    <3>2. n \in 0..StreamCount /\ n < StreamCount
      BY <1>1, <2>4, <3>1 DEF QuicMem, QuicStreaming
    <3>3. Kept(n) /\ Stage("ack", "streams", <<>>, <<QuicFrame(n + 1)>>)
      BY <2>2, <2>4, <3>1 DEF QuicStreaming, Stage
    <3>4. net.client[1] = QuicFrame(n + 1)
      BY <3>3 DEF Stage
    <3>5. QuicFrame(n + 1).type = "STREAM" /\ QuicFrame(n + 1).seq = StreamSeq(n + 1)
      BY QuicStreamIs
    <3>6. /\ QuicClientStream
          /\ mem' = [mem EXCEPT !.chunks = QuicStore(mem.chunks, QuicFrame(n + 1))]
          /\ Exchange("client", 1, <<AckPacket("client", StreamSeq(n + 1))>>)
      BY <2>1, <2>2, <3>4, <3>5
    <3>7. QuicStore(mem.chunks, QuicFrame(n + 1)) = [k \in 1..n + 1 |-> QuicStream(k)]
      BY <3>2, <3>3, QuicStored
    <3>8. mem' = [mem EXCEPT !.chunks = [k \in 1..n + 1 |-> QuicStream(k)]]
      BY <3>6, <3>7
    <3>9. QuicMem' /\ mem'.acked = n /\ mem'.chunks = [k \in 1..n + 1 |-> QuicStream(k)]
      <4>1. PICK c : c = [k \in 1..n + 1 |-> QuicStream(k)]
        OBVIOUS
      <4>2. mem' = [mem EXCEPT !.chunks = c]
        BY <3>8, <4>1
      <4>3. QuicMem' /\ mem'.acked = mem.acked /\ mem'.chunks = c
        BY Zenon, <1>1, <4>2, QuicMemIs
      <4>4. QED
        BY <3>1, <4>1, <4>3
    <3>10. Kept(n + 1)' /\ StreamCount' = StreamCount /\ StreamSeq(n + 1)' = StreamSeq(n + 1)
      BY <3>9, QuicFramesStay
    <3>11. net' = [server |-> net.server \o <<AckPacket("client", StreamSeq(n + 1))>>, client |-> <<>>]
      BY <3>3, <3>6, QuicClientTakes DEF Stage
    <3>12. net' = [server |-> <<AckPacket("client", StreamSeq(n + 1))>>, client |-> <<>>]
      BY <3>3, <3>11, ShortChannels DEF Stage
    <3>13. /\ net'.server = <<AckPacket("client", StreamSeq(n + 1))>> /\ net'.client = <<>>
           /\ Pair(net')
      BY <3>12 DEF Pair
    <3>14. at' = at /\ results' = results
      BY <3>6 DEF QuicClientStream
    <3>15. StreamSeq(mem.acked + 1)' = StreamSeq(n + 1) /\ Kept(mem.acked + 1)'
      <4>1. StreamSeq(mem.acked + 1)' = StreamSeq(n + 1)'
        BY <3>9 DEF StreamSeq, Reordered
      <4>2. QED
        BY <3>9, <3>10, <4>1 DEF Kept
    <3>16. QuicStreaming'
      BY <3>2, <3>3, <3>9, <3>10, <3>13, <3>14, <3>15 DEF QuicStreaming, Stage, AckPacket
    <3>17. QED
      BY <1>1, <3>9, <3>13, <3>14, <3>16 DEF QuicRun, GoesWell
  <2>5. CASE QuicClosing
    <3>1. Stage("exit", "streams", <<>>, <<ClosePacket(original)>>)
      BY <2>5 DEF QuicClosing
    <3>2. net.client[1].type = "CLOSE" /\ net.client[1].digest = original
      BY <3>1 DEF Stage, ClosePacket
    <3>3. Assembled(mem.chunks) = original
      BY <2>5, AssembledWhole DEF QuicClosing, Kept
    <3>4. QuicClientClose /\ Finish("client", OK) /\ Exchange("client", 1, <<>>)
      BY <2>1, <2>2, <3>2, <3>3
    <3>5. net' = [server |-> net.server \o <<>>, client |-> <<>>]
      BY <3>1, <3>4, QuicClientTakes DEF Stage
    <3>6. Pair(net') /\ at'.client = "exit" /\ at'.server = "exit" /\ mem' = mem
      BY <1>1, <3>1, <3>4, <3>5, Moves DEF Pair, QuicClientClose, Stage
    <3>7. QuicRun'
      BY Zenon, <1>1, <3>6, QuicMemIs DEF QuicRun, BothGone
    <3>8. QED
      BY <1>1, <3>4, <3>6, <3>7 DEF GoesWell
  <2>6. QED
    BY <1>5, <2>3, <2>4, <2>5
<1>10. QED
  BY <1>3, <1>7, <1>8, <1>9 DEF QuicClient

-----------------------------------------------------------------------------
(***************************************************************************)
(* All protocols: undisturbed, a run goes as its documentation says.       *)
(***************************************************************************)
\* Where the two programs of each protocol are.
Runs ==
  /\ protocol = "dns" => DnsRun
  /\ protocol = "mqtt" => MqttRun
  /\ protocol = "radius" => RadiusRun
  /\ protocol = "sip" => SipRun
  /\ protocol = "quic-like" => QuicRun
  /\ protocol \in WebFamily => WebRun
  /\ protocol = "websocket-basic" => WsRun
  /\ protocol \in TcpFamily => TcpRun
  /\ protocol = "http2" => H2Run

RunInv == Calm => stopped = {} /\ Pair(net) /\ Foretold /\ Runs

\* The passwords are what they were at the start.
LEMMA TcpPasswordsStay ==
  ASSUME mem \in TcpMem, TcpServer \/ TcpClient
  PROVE  mem'.passwords = mem.passwords
<1>1. "passwords" \in DOMAIN mem
  BY DEF TcpMem
<1>2. ASSUME NEW x, NEW y, mem' = [mem EXCEPT !.attempt = x, !.authed = y]
      PROVE  mem'.passwords = mem.passwords
  BY <1>1, <1>2
<1>3. ASSUME NEW x, mem' = [mem EXCEPT !.sent = x]
      PROVE  mem'.passwords = mem.passwords
  BY <1>1, <1>3
<1>4. ASSUME NEW x, mem' = [mem EXCEPT !.given = x]
      PROVE  mem'.passwords = mem.passwords
  BY <1>1, <1>4
<1>5. ASSUME NEW x, mem' = [mem EXCEPT !.seen = x]
      PROVE  mem'.passwords = mem.passwords
  BY <1>1, <1>5
<1>6. CASE TcpServerPassword
  <2>1. PICK x, y : mem' = [mem EXCEPT !.attempt = x, !.authed = y]
    BY Zenon, <1>6 DEF TcpServerPassword
  <2>2. QED
    BY Zenon, <1>2, <2>1
<1>7. CASE TcpServerSendsUnit
  <2>1. PICK x : mem' = [mem EXCEPT !.sent = x]
    BY Zenon, <1>7 DEF TcpServerSendsUnit
  <2>2. QED
    BY Zenon, <1>3, <2>1
<1>8. CASE TcpClientAuth
  <2>1. mem' = mem \/ mem' = [mem EXCEPT !.given = mem.given + 1]
    BY Zenon, <1>8 DEF TcpClientAuth
  <2>2. QED
    BY Zenon, <1>4, <2>1
<1>9. CASE TcpClientData
  <2>1. mem' = mem \/ mem' = [mem EXCEPT !.seen = Head(net.client).seq]
    BY Zenon, <1>9 DEF TcpClientData
  <2>2. QED
    BY Zenon, <1>5, <2>1
<1>10. CASE \/ TcpServerJoin \/ TcpServerUnexpected \/ TcpServerReceiveFails \/ TlsServerHello
            \/ TlsServerFinished \/ TcpServerTerminates \/ TcpServerSendBreaks
  <2>1. mem' = mem
    BY Zenon, <1>10 DEF TcpServerJoin, TcpServerUnexpected, TcpServerReceiveFails, TlsServerHello,
         TlsServerFinished, TcpServerTerminates, TcpServerSendBreaks
  <2>2. QED
    BY <2>1
<1>11. CASE \/ TcpClientStart \/ TcpClientRefused \/ TcpClientReceiveFails \/ TlsClientHello
            \/ TlsClientFinished \/ TcpClientTerminate
  <2>1. mem' = mem
    BY Zenon, <1>11 DEF TcpClientStart, TcpClientRefused, TcpClientReceiveFails, TlsClientHello,
         TlsClientFinished, TcpClientTerminate
  <2>2. QED
    BY <2>1
<1>12. QED
  BY Zenon, <1>6, <1>7, <1>8, <1>9, <1>10, <1>11 DEF TcpServer, TcpClient

LEMMA WebPasswordsStay ==
  ASSUME protocol = "http-basic", "passwords" \in DOMAIN mem, WebServer \/ WebClient
  PROVE  mem'.passwords = mem.passwords
<1>1. \/ mem' = mem
      \/ \E x : mem' = [mem EXCEPT !.asked = x]
      \/ mem' = [mem EXCEPT !.authed = TRUE]
      \/ mem' = [mem EXCEPT !.step = 3]
  <2>1. CASE WebServer
    <3>1. mem' = mem \/ mem' = HttpServed(Head(net.server))
      BY <2>1 DEF WebServer, WebServerServes, WebServerInterrupted, WebServed
    <3>2. \A m : \/ HttpServed(m) = mem
                 \/ HttpServed(m) = [mem EXCEPT !.authed = TRUE]
                 \/ HttpServed(m) = [mem EXCEPT !.step = 3]
      <4>1. "auth" # "upload"
        OBVIOUS
      <4>2. ASSUME NEW m, m.path = "auth"
            PROVE  HttpServed(m) = [mem EXCEPT !.authed = TRUE]
        BY Zenon, <4>1, <4>2 DEF HttpServed
      <4>3. ASSUME NEW m, m.path = "upload"
            PROVE  HttpServed(m) = [mem EXCEPT !.step = 3]
        BY Zenon, <4>1, <4>3 DEF HttpServed
      <4>4. ASSUME NEW m, m.path # "auth", m.path # "upload"
            PROVE  HttpServed(m) = mem
        BY Zenon, <4>4 DEF HttpServed
      <4>5. QED
        BY Zenon, <4>2, <4>3, <4>4
    <3>3. QED
      BY Zenon, <3>1, <3>2
  <2>2. CASE WebClient
    BY <2>2 DEF WebClient, WebClientStart, WebClientResponse, WebClientFails
  <2>3. QED
    BY <2>1, <2>2
<1>2. ASSUME NEW x, mem' = [mem EXCEPT !.asked = x]
      PROVE  mem'.passwords = mem.passwords
  BY <1>2
<1>3. mem' = [mem EXCEPT !.authed = TRUE] => mem'.passwords = mem.passwords
  OBVIOUS
<1>4. mem' = [mem EXCEPT !.step = 3] => mem'.passwords = mem.passwords
  OBVIOUS
<1>5. QED
  BY Zenon, <1>1, <1>2, <1>3, <1>4

LEMMA WsPasswordsStay == WsServer \/ WsClient => mem' = mem
BY DEF WsServer, WsClient, WsServerUpgrade, WsServerSendsText, WsServerSendBreaks, WsServerPong,
       WsServerFails, WsClientStart, WsClientUpgraded, WsClientText, WsClientPing, WsClientClose,
       WsClientFails

\* What the documentation expects is the same after a step.
LEMMA FortuneStays ==
  ASSUME TypesInv, Server \/ Client
  PROVE  Fortunate' <=> Fortunate
<1>1. protocol' = protocol /\ scenario' = scenario
  BY SettingsKept DEF Next, SettingsStay
<1>2. /\ protocol \in TcpFamily => TcpServer \/ TcpClient
      /\ protocol = "http-basic" => WebServer \/ WebClient
      /\ protocol = "websocket-basic" => WsServer \/ WsClient
  BY DEF Server, Client, TcpFamily, WebFamily
<1>3. protocol \in TcpFamily => mem'.passwords = mem.passwords
  BY <1>2, TcpPasswordsStay DEF TypesInv, TcpInv, TcpShape
<1>4. protocol = "http-basic" => mem'.passwords = mem.passwords
  <2>1. protocol = "http-basic" => "passwords" \in DOMAIN mem
    BY DEF TypesInv, WebTyped, WebCounts, WebFamily
  <2>2. QED
    BY <1>2, <2>1, WebPasswordsStay
<1>5. protocol = "websocket-basic" => mem'.passwords = mem.passwords
  BY <1>2, WsPasswordsStay
<1>6. LetIn' <=> LetIn
  BY <1>1, <1>3, <1>4, <1>5 DEF LetIn
<1>7. ExpectedOk(protocol)' = ExpectedOk(protocol)
  BY <1>1 DEF ExpectedOk
<1>8. QED
  BY <1>1, <1>6, <1>7 DEF Fortunate

\* A run starts as it should.
LEMMA RunsBegin == Init /\ Calm => RunInv
<1>. SUFFICES ASSUME Init, Calm
              PROVE  RunInv
  OBVIOUS
<1>1. protocol \notin Shared /\ scenario # "replay-invite"
  BY DEF Calm
<1>2. PICK first \in {"initial", "request", "query", "join", "CONNECT", "accept", "upgrade", "preface"} :
        ProgramsInit(first)
  BY <1>1 DEF Init, QuicInit, RadiusInit, SipInit, DnsInit, TcpInit, MqttInit, WebInit, WsInit,
     Http2Init, PacketInit, DigestInit, RequestInit, FramesInit, Shared
<1>3. /\ at.server = first /\ at.client = "start" /\ net.server = <<>> /\ net.client = <<>>
      /\ stopped = {} /\ Pair(net)
  BY <1>2, PlacesInit
<1>4. Foretold
  BY <1>2, <1>3 DEF Foretold, Ended, Programs
<1>5. ASSUME NEW place, ProgramsInit(place)
      PROVE  Stage(place, "start", <<>>, <<>>)
  BY <1>5, PlacesInit DEF Stage
<1>6. protocol = "dns" => DnsRun
  BY <1>5 DEF Init, QuicInit, RadiusInit, SipInit, DnsInit, TcpInit, MqttInit, WebInit, WsInit,
     Http2Init, PacketInit, DigestInit, RequestInit, FramesInit, DnsRun
<1>7. protocol = "mqtt" => MqttRun
  BY <1>5 DEF Init, QuicInit, RadiusInit, SipInit, DnsInit, TcpInit, MqttInit, WebInit, WsInit,
     Http2Init, PacketInit, DigestInit, RequestInit, FramesInit, MqttRun, MqttGreeting
<1>8. protocol = "radius" => RadiusRun
  <2>. SUFFICES ASSUME protocol = "radius"
                PROVE  RadiusRun
    OBVIOUS
  <2>1. RadiusInit
    BY DEF Init, QuicInit, SipInit, DnsInit, TcpInit, MqttInit, WebInit, WsInit,
       Http2Init, PacketInit, DigestInit, RequestInit, FramesInit
  <2>2. PICK nonce : mem = [nonce |-> nonce, last |-> "none", accepted |-> "nobody"]
    BY <2>1 DEF RadiusInit
  <2>3. /\ mem = [nonce |-> mem.nonce, last |-> mem.last, accepted |-> mem.accepted]
        /\ mem.last = "none" /\ mem.accepted = "nobody"
    BY <2>2
  <2>4. QED
    BY <1>5, <2>1, <2>3 DEF RadiusInit, RadiusRun, RadiusOpening
<1>9. protocol = "sip" => SipRun
  <2>. SUFFICES ASSUME protocol = "sip"
                PROVE  SipRun
    OBVIOUS
  <2>1. SipInit
    BY DEF Init, QuicInit, RadiusInit, DnsInit, TcpInit, MqttInit, WebInit, WsInit,
       Http2Init, PacketInit, DigestInit, RequestInit, FramesInit
  <2>2. mem = [call |-> "none", saw |-> {}, left |-> 3]
    BY <2>1 DEF SipInit
  <2>3. /\ mem = [call |-> mem.call, saw |-> mem.saw, left |-> mem.left]
        /\ mem.call = "none" /\ mem.saw = {} /\ mem.left = 3
    BY <2>2
  <2>4. QED
    BY <1>1, <1>5, <2>1, <2>3 DEF SipInit, SipRun, SipRegistering
<1>10. protocol = "quic-like" => QuicRun
  <2>. SUFFICES ASSUME protocol = "quic-like"
                PROVE  QuicRun
    OBVIOUS
  <2>1. QuicInit
    BY DEF Init, RadiusInit, SipInit, DnsInit, TcpInit, MqttInit, WebInit, WsInit,
       Http2Init, PacketInit, DigestInit, RequestInit, FramesInit
  <2>2. mem = [peer |-> "nobody", acked |-> 0, chunks |-> <<>>]
    BY <2>1 DEF QuicInit
  <2>3. /\ mem = [peer |-> "nobody", acked |-> mem.acked, chunks |-> mem.chunks]
        /\ mem.acked = 0 /\ mem.chunks = <<>>
    BY <2>2
  <2>4. StreamCount \in Nat
    BY SettingsTypedInitially, StreamsCounted DEF SettingsTyped
  <2>5. QuicMem
    BY <2>3, <2>4 DEF QuicMem
  <2>6. QED
    BY <1>5, <2>1, <2>3, <2>5 DEF QuicInit, QuicRun, QuicShaking, QuicGreeting
<1>11. protocol \in WebFamily => WebRun
  <2>. SUFFICES ASSUME protocol \in WebFamily
                PROVE  WebRun
    OBVIOUS
  <2>1. WebInit
    BY DEF Init, QuicInit, RadiusInit, SipInit, DnsInit, TcpInit, MqttInit, WsInit,
       Http2Init, PacketInit, DigestInit, RequestInit, FramesInit, WebFamily
  <2>2. PICK passwords \in Attempts :
          mem = [passwords |-> passwords, asked |-> 0, authed |-> FALSE, last |-> "none", step |-> 0]
    BY <2>1 DEF WebInit
  <2>3. mem.passwords = passwords /\ mem.asked = 0 /\ ~mem.authed /\ mem.last = "none" /\ mem.step = 0
    BY <2>2
  <2>4. Secret \in BOOLEAN
    BY <2>3, SecretIs
  <2>5. WebServedSoFar(0)
    BY <2>3 DEF WebServedSoFar
  <2>6. WebFirst
    BY <1>5, <2>1, <2>3, <2>5 DEF WebInit, WebFirst
  <2>7. WebScenario
    BY <2>1 DEF WebInit, WebScenario
  <2>8. QED
    BY <2>4, <2>6, <2>7 DEF WebRun
<1>12. protocol = "websocket-basic" => WsRun
  BY <1>5 DEF Init, QuicInit, RadiusInit, SipInit, DnsInit, TcpInit, MqttInit, WebInit, WsInit,
     Http2Init, PacketInit, DigestInit, RequestInit, FramesInit, WsRun, WsUpgrading
<1>13. protocol \in TcpFamily => TcpRun
  <2>. SUFFICES ASSUME protocol \in TcpFamily
                PROVE  TcpRun
    OBVIOUS
  <2>1. TcpInit
    BY DEF Init, QuicInit, RadiusInit, SipInit, DnsInit, WebInit, MqttInit, WsInit,
       Http2Init, PacketInit, DigestInit, RequestInit, FramesInit, TcpFamily
  <2>2. PICK passwords \in Attempts :
          mem = [passwords |-> passwords, given |-> 0, attempt |-> 0, authed |-> FALSE,
                 sent |-> 0, seen |-> 0]
    BY <2>1 DEF TcpInit
  <2>3. mem.given = 0 /\ mem.attempt = 0
    BY <2>2
  <2>4. QED
    BY <1>5, <2>1, <2>3 DEF TcpInit, TcpRun, TcpJoining
<1>14. protocol = "http2" => H2Run
  <2>. SUFFICES ASSUME protocol = "http2"
                PROVE  H2Run
    OBVIOUS
  <2>1. Http2Init
    BY DEF Init, QuicInit, RadiusInit, SipInit, DnsInit, TcpInit, MqttInit, WebInit, WsInit,
       PacketInit, DigestInit, RequestInit, FramesInit
  <2>2. mem = [seen |-> 0, cancelled |-> FALSE, stream |-> 1, lines |-> <<>>]
    BY <2>1 DEF Http2Init
  <2>3. mem.seen = 0 /\ ~mem.cancelled /\ mem.stream = 1 /\ mem.lines = <<>>
    BY <2>2
  <2>4. H2Written
    BY <2>3 DEF H2Written
  <2>5. H2Together
    BY <1>5, <2>1, <2>3 DEF Http2Init, H2Together, H2Opening
  <2>6. H2Whole
    BY <1>3 DEF H2Whole
  <2>7. QED
    BY <2>1, <2>3, <2>4, <2>5, <2>6 DEF Http2Init, H2Run
<1>15. QED
  BY <1>3, <1>4, <1>6, <1>7, <1>8, <1>9, <1>10, <1>11, <1>12, <1>13, <1>14 DEF RunInv, Runs

\* A step that changes nothing.
Stutters ==
  /\ protocol' = protocol /\ scenario' = scenario /\ faults' = faults /\ at' = at
  /\ results' = results /\ stopped' = stopped /\ net' = net /\ mem' = mem
  /\ original' = original /\ content' = content /\ written' = written

LEMMA DatagramRunsStay ==
  ASSUME Stutters
  PROVE  /\ DnsRun => DnsRun'
         /\ RadiusRun => RadiusRun'
         /\ SipRun => SipRun'
         /\ SettingsStay /\ QuicRun => QuicRun'
<1>1. DnsRun => DnsRun'
  BY DEF Stutters, DnsRun, Stage, BothGone, DnsAnswers, DnsAnswer, DnsLine
<1>2. RadiusRun => RadiusRun'
  BY DEF Stutters, RadiusRun, RadiusOpening, RadiusRefused, RadiusAccepted, RadiusClosing, Stage,
     BothGone, RadiusClientRequest
<1>3. SipRun => SipRun'
  BY DEF Stutters, SipRun, SipRegistering, SipRegisteredOnly, SipInviting, SipInvited,
     SipLeaving, Stage, BothGone
<1>4. SettingsStay /\ QuicRun => QuicRun'
  <2>. SUFFICES ASSUME SettingsStay, QuicRun
                PROVE  QuicRun'
    OBVIOUS
  <2>1. /\ StreamCount' = StreamCount /\ ZeroRtt' = ZeroRtt
        /\ \A k : StreamSeq(k)' = StreamSeq(k)
        /\ \A k : QuicFrame(k)' = QuicFrame(k)
        /\ \A n : mem.chunks = [k \in 1..n |-> QuicStream(k)] => Kept(n)'
    BY QuicFramesStay DEF Stutters
  <2>2. QED
    BY <2>1 DEF Stutters, QuicRun, QuicMem, QuicShaking, QuicGreeting, QuicAnswered, QuicStreaming,
       QuicClosing, Kept, Stage, BothGone
<1>5. QED
  BY <1>1, <1>2, <1>3, <1>4

LEMMA StreamRunsStay ==
  ASSUME Stutters
  PROVE  /\ MqttRun => MqttRun'
         /\ WebRun => WebRun'
         /\ WsRun => WsRun'
         /\ TcpRun => TcpRun'
         /\ H2Run => H2Run'
<1>1. MqttRun => MqttRun'
  BY Zenon DEF Stutters, MqttRun, MqttGreeting, MqttSubscribed, MqttRefused, MqttReplayed, MqttReplay,
     MqttPublished, Stage, BothGone
<1>2. WebRun => WebRun'
  <2>1. Script' = Script /\ Secret' = Secret
    BY DEF Stutters, Script, Secret, HttpScript, OauthScript
  <2>2. Admitted' <=> Admitted
    BY <2>1 DEF Stutters, Admitted
  <2>3. \A k : (WebMore(k)' <=> WebMore(k)) /\ WebAnswer(k)' = WebAnswer(k)
               /\ (WebServedSoFar(k)' <=> WebServedSoFar(k))
    BY <2>1, <2>2 DEF Stutters, WebMore, WebAnswer, WebServedSoFar
  <2>4. \A k : (WebAsking(k) => WebAsking(k)') /\ (WebAnswered(k) => WebAnswered(k)')
               /\ (WebLast(k) => WebLast(k)')
    BY <2>1, <2>3 DEF Stutters, WebAsking, WebAnswered, WebLast, Stage
  <2>5. (WebScenario => WebScenario') /\ (WebFirst => WebFirst') /\ (BothGone => BothGone')
    BY <2>3 DEF Stutters, WebScenario, WebFirst, BothGone, Stage
  <2>6. QED
    BY <2>1, <2>2, <2>4, <2>5 DEF Stutters, WebRun
<1>3. WsRun => WsRun'
  BY DEF Stutters, WsRun, WsUpgrading, WsTurnedAway, WsWelcome, WsTextDue, WsPingSent,
     WsClosedEarly, WsUnanswered, WsClosing, WsReads, Secret, Stage, BothGone
<1>4. TcpRun => TcpRun'
  <2>1. (TcpJoining => TcpJoining') /\ (TcpAsked => TcpAsked') /\ (TcpAnswered => TcpAnswered')
    BY DEF Stutters, TcpJoining, TcpAsked, TcpAnswered, WrongSoFar, Stage
  <2>2. HasPassword => HasPassword'
    BY DEF Stutters, HasPassword
  <2>3. (TcpRejected => TcpRejected') /\ (TlsShaking => TlsShaking')
    BY <2>2 DEF Stutters, TcpRejected, TlsShaking, TlsHelloing, TlsFinishing, HasPassword, Stage
  <2>4. \A o : /\ TcpReads(o) => TcpReads(o)'
               /\ TcpWhole(o) => TcpWhole(o)'
               /\ TcpSpoilt(o) => TcpSpoilt(o)'
    BY DEF Stutters, TcpReads, TcpWhole, TcpSpoilt, Whole, OneUnit, Terminated
  <2>5. (TcpSending => TcpSending') /\ (TcpAbandoned => TcpAbandoned') /\ (BothGone => BothGone')
    BY <2>2, <2>4 DEF Stutters, TcpSending, TcpAbandoned, BothGone
  <2>6. QED
    BY <2>1, <2>3, <2>5 DEF TcpRun
<1>5. H2Run => H2Run'
  <2>1. /\ H2Streams' = H2Streams /\ H2Taken' = H2Taken /\ H2Sent' = H2Sent /\ H2Begun' = H2Begun
        /\ (H2Written => H2Written') /\ (BothGone => BothGone')
    BY DEF Stutters, H2Streams, H2Taken, H2Sent, H2Begun, H2Written, BothGone
  <2>2. /\ H2Opening => H2Opening'
        /\ H2Answering => H2Answering'
        /\ H2Refusing => H2Refusing'
        /\ H2AllSent => H2AllSent'
    BY <2>1 DEF Stutters, H2Opening, H2Answering, H2Streaming, H2Refusing, H2AllSent, Stage
  <2>3. H2ServerLast => H2ServerLast'
    BY DEF Stutters, H2ServerLast, H2Left, H2CancelSent, H2CancelRead
  <2>4. H2Whole => H2Whole'
    BY <2>1 DEF Stutters, H2Whole
  <2>5. QED
    BY <2>1, <2>2, <2>3, <2>4 DEF Stutters, H2Run, H2Together
<1>6. QED
  BY <1>1, <1>2, <1>3, <1>4, <1>5

\* Without signals no program is stopped.
LEMMA StoppedStays ==
  ASSUME faults = {}, stopped = {}, Server \/ Client
  PROVE  stopped' = {}
BY DatagramSignals, StreamSignals, SharedSignals DEF Server, Client, SignalsStay

LEMMA CalmStays ==
  ASSUME SettingsStay
  PROVE  Calm' <=> Calm
<1>1. /\ protocol' = protocol /\ scenario' = scenario /\ faults' = faults
      /\ original' = original /\ content' = content /\ StreamCount' = StreamCount
  BY StreamsStay DEF SettingsStay
<1>2. TooLong' <=> TooLong
  BY <1>1 DEF TooLong, Reordered
<1>3. NothingToSpoil' <=> NothingToSpoil
  BY <1>1 DEF NothingToSpoil
<1>4. QED
  BY <1>1, <1>2, <1>3 DEF Calm

\* The parts of the invariants that the steps need.
LEMMA RunsTyped ==
  ASSUME TypesInv
  PROVE  /\ ReportedOnce /\ RadiusInv /\ TcpInv /\ QuicInv /\ WsInv /\ original \in Seq(Data)
         /\ protocol \in WebFamily => WebCounts
         /\ protocol = "http2" => H2Parts
<1>1. SettingsTyped /\ ResultsInv /\ TcpInv /\ QuicInv /\ WebTyped
  BY DEF TypesInv
<1>2. ReportedOnce /\ RadiusInv /\ WsInv /\ H2Inv
  BY <1>1 DEF ResultsInv
<1>3. QED
  BY <1>1, <1>2 DEF SettingsTyped, WebTyped, H2Inv, H2Parts

\* The two programs of one protocol.
LEMMA OneProtocol ==
  ASSUME protocol' = protocol, protocol \notin Shared
  PROVE  /\ protocol = "dns" /\ DnsRun' => Runs'
         /\ protocol = "mqtt" /\ MqttRun' => Runs'
         /\ protocol = "radius" /\ RadiusRun' => Runs'
         /\ protocol = "sip" /\ SipRun' => Runs'
         /\ protocol = "quic-like" /\ QuicRun' => Runs'
         /\ protocol \in WebFamily /\ WebRun' => Runs'
         /\ protocol = "websocket-basic" /\ WsRun' => Runs'
         /\ protocol \in TcpFamily /\ TcpRun' => Runs'
         /\ protocol = "http2" /\ H2Run' => Runs'
BY DEF Runs, TcpFamily, WebFamily

LEMMA ServerRuns ==
  ASSUME Calm, stopped = {}, SettingsStay, TypesInv, TypesInv', Pair(net), Runs, Server
  PROVE  GoesWell("server") /\ Pair(net') /\ Runs'
<1>1. /\ faults = {} /\ original = content /\ ~TooLong /\ ~NothingToSpoil
      /\ protocol \notin Shared /\ protocol' = protocol
  BY DEF Calm, SettingsStay
<1>2. /\ ReportedOnce /\ TcpInv /\ WsInv /\ original \in Seq(Data)
      /\ protocol \in WebFamily => WebCounts
      /\ protocol = "http2" => H2Parts
  BY RunsTyped
<1>3. protocol = "http2" => ReportedOnce' /\ H2Parts'
  <2>1. ResultsInv'
    BY DEF TypesInv
  <2>2. ReportedOnce' /\ H2Inv'
    BY <2>1 DEF ResultsInv
  <2>3. QED
    BY <1>1, <2>2 DEF H2Inv, H2Parts
<1>4. CASE protocol = "dns"
  BY <1>1, <1>2, <1>4, DnsServerRuns, OneProtocol DEF Runs, Server, TcpFamily, WebFamily
<1>5. CASE protocol = "mqtt"
  BY <1>1, <1>2, <1>5, MqttServerRuns, OneProtocol DEF Runs, Server, TcpFamily, WebFamily
<1>6. CASE protocol = "radius"
  BY <1>1, <1>2, <1>6, RadiusServerRuns, OneProtocol DEF Runs, Server, TcpFamily, WebFamily
<1>7. CASE protocol = "sip"
  BY <1>1, <1>2, <1>7, SipServerRuns, OneProtocol DEF Runs, Server, TcpFamily, WebFamily
<1>8. CASE protocol = "quic-like"
  BY <1>1, <1>2, <1>8, QuicServerRuns, OneProtocol DEF Runs, Server, TcpFamily, WebFamily
<1>9. CASE protocol \in WebFamily
  BY <1>1, <1>2, <1>9, WebServerRuns, OneProtocol DEF Runs, Server, TcpFamily, WebFamily
<1>10. CASE protocol = "websocket-basic"
  BY <1>1, <1>2, <1>10, WsServerRuns, OneProtocol DEF Runs, Server, TcpFamily, WebFamily
<1>11. CASE protocol \in TcpFamily
  BY <1>1, <1>2, <1>11, TcpServerRuns, OneProtocol DEF Runs, Server, TcpFamily, WebFamily
<1>12. CASE protocol = "http2"
  BY <1>1, <1>2, <1>3, <1>12, H2ServerRuns, OneProtocol DEF Runs, Server, TcpFamily, WebFamily
<1>13. QED
  BY <1>1, <1>4, <1>5, <1>6, <1>7, <1>8, <1>9, <1>10, <1>11, <1>12 DEF Server, Shared

LEMMA ClientRuns ==
  ASSUME Calm, stopped = {}, SettingsStay, TypesInv, TypesInv', Pair(net), Runs, Client
  PROVE  GoesWell("client") /\ Pair(net') /\ Runs'
<1>1. /\ faults = {} /\ original = content /\ ~TooLong /\ ~NothingToSpoil
      /\ protocol \notin Shared /\ protocol' = protocol
  BY DEF Calm, SettingsStay
<1>2. /\ ReportedOnce /\ TcpInv /\ WsInv /\ original \in Seq(Data)
      /\ protocol \in WebFamily => WebCounts
      /\ protocol = "http2" => H2Parts
  BY RunsTyped
<1>3. protocol = "http2" => ReportedOnce' /\ H2Parts'
  <2>1. ResultsInv'
    BY DEF TypesInv
  <2>2. ReportedOnce' /\ H2Inv'
    BY <2>1 DEF ResultsInv
  <2>3. QED
    BY <1>1, <2>2 DEF H2Inv, H2Parts
<1>4. CASE protocol = "dns"
  BY <1>1, <1>2, <1>4, DnsClientRuns, OneProtocol DEF Runs, Client, TcpFamily, WebFamily
<1>5. CASE protocol = "mqtt"
  BY <1>1, <1>2, <1>5, MqttClientRuns, OneProtocol DEF Runs, Client, TcpFamily, WebFamily
<1>6. CASE protocol = "radius"
  BY <1>1, <1>2, <1>6, RadiusClientRuns, OneProtocol DEF Runs, Client, TcpFamily, WebFamily
<1>7. CASE protocol = "sip"
  BY <1>1, <1>2, <1>7, SipClientRuns, OneProtocol DEF Runs, Client, TcpFamily, WebFamily
<1>8. CASE protocol = "quic-like"
  BY <1>1, <1>2, <1>8, QuicClientRuns, OneProtocol DEF Runs, Client, TcpFamily, WebFamily
<1>9. CASE protocol \in WebFamily
  BY <1>1, <1>2, <1>9, WebClientRuns, OneProtocol DEF Runs, Client, TcpFamily, WebFamily
<1>10. CASE protocol = "websocket-basic"
  BY <1>1, <1>2, <1>10, WsClientRuns, OneProtocol DEF Runs, Client, TcpFamily, WebFamily
<1>11. CASE protocol \in TcpFamily
  BY <1>1, <1>2, <1>11, TcpClientRuns, OneProtocol DEF Runs, Client, TcpFamily, WebFamily
<1>12. CASE protocol = "http2"
  BY <1>1, <1>2, <1>3, <1>12, H2ClientRuns, OneProtocol DEF Runs, Client, TcpFamily, WebFamily
<1>13. QED
  BY <1>1, <1>4, <1>5, <1>6, <1>7, <1>8, <1>9, <1>10, <1>11, <1>12 DEF Client, Shared

LEMMA RunStep ==
  ASSUME TypesInv, RunInv, [Next]_demoVars
  PROVE  RunInv'
<1>1. SettingsStay /\ TypesInv'
  BY SettingsKept, TypesStep
<1>2. SUFFICES ASSUME Calm, stopped = {}, Pair(net), Foretold, Runs
               PROVE  stopped' = {} /\ Pair(net') /\ Foretold' /\ Runs'
  BY <1>1, CalmStays DEF RunInv
<1>3. ReportedOnce /\ RadiusInv /\ faults = {} /\ protocol # "packet"
  <2>1. ReportedOnce /\ RadiusInv
    BY RunsTyped
  <2>2. faults = {} /\ protocol # "packet"
    BY <1>2 DEF Calm, Shared
  <2>3. QED
    BY <2>1, <2>2
<1>4. ASSUME Server \/ Client
      PROVE  Fortunate' <=> Fortunate
  BY <1>4, FortuneStays
<1>5. ASSUME NEW p \in Programs, Acts(p), GoesWell(p), Fortunate' <=> Fortunate
      PROVE  Foretold'
  <2>1. CASE at[p] # "exit"
    BY <1>1, <1>2, <1>3, <1>5, <2>1, ForetoldKept
  <2>2. CASE UNCHANGED <<at, results>>
    BY <1>1, <1>2, <1>5, <2>2 DEF Foretold, Ended, SettingsStay
  <2>3. QED
    BY <1>5, <2>1, <2>2 DEF Acts
<1>6. CASE Server
  <2>1. GoesWell("server") /\ Pair(net') /\ Runs' /\ stopped' = {} /\ Acts("server")
    BY <1>1, <1>2, <1>3, <1>6, ServerRuns, StoppedStays, StepActs
  <2>2. QED
    BY <1>4, <1>5, <1>6, <2>1 DEF Programs
<1>7. CASE Client
  <2>1. GoesWell("client") /\ Pair(net') /\ Runs' /\ stopped' = {} /\ Acts("client")
    BY <1>1, <1>2, <1>3, <1>7, ClientRuns, StoppedStays, StepActs
  <2>2. QED
    BY <1>4, <1>5, <1>7, <2>1 DEF Programs
<1>8. ~(Lose \/ Duplicate \/ Strangers)
  BY <1>3 DEF Lose, Duplicate, Strangers, OtherSends
<1>9. CASE UNCHANGED demoVars
  <2>1. Stutters
    BY <1>9 DEF demoVars, Stutters
  <2>2. Runs'
    BY <1>1, <1>2, <2>1, DatagramRunsStay, StreamRunsStay DEF Runs, Stutters
  <2>3. Fortunate' <=> Fortunate
    BY <2>1 DEF Fortunate, LetIn, ExpectedOk, Stutters
  <2>4. Foretold'
    BY <1>2, <2>1, <2>3 DEF Foretold, Ended, Stutters
  <2>5. QED
    BY <1>2, <2>1, <2>2, <2>4 DEF Stutters, Pair
<1>10. QED
  BY <1>6, <1>7, <1>8, <1>9 DEF Next

\* What is delivered when both programs have reported OK.
LEMMA DeliveredFollows ==
  ASSUME TypesInv, UnpublishedInv, Calm, Runs, BothGone, Fortunate, results.client = OK
  PROVE  Delivered
<1>1. faults = {} /\ original = content
  BY DEF Calm
<1>2. PrintsOk("client")
  BY Printed DEF PrintsOk
<1>3. CASE protocol \in TcpFamily
  <2>1. committed = <<written>> /\ written = Announced
    BY <1>1, <1>2, <1>3, RunsTyped DEF TcpInv, OutputInv
  <2>2. committed = <<original>>
    BY <1>1, <2>1 DEF Announced
  <2>3. protocol \in FileProtocols
    BY <1>3 DEF FileProtocols
  <2>4. protocol \notin {"websocket-basic", "http2", "dns"}
    BY <1>3 DEF TcpFamily
  <2>5. QED
    BY <2>2, <2>3, <2>4 DEF Delivered
<1>4. CASE protocol = "quic-like"
  <2>1. committed = <<written>> /\ written = original
    BY <1>1, <1>2, <1>4, RunsTyped DEF QuicInv, QuicParts, QuicOutput
  <2>2. QED
    BY <1>4, <2>1 DEF Delivered, FileProtocols
<1>5. CASE protocol = "websocket-basic"
  <2>1. written = SubSeq(content, 1, Len(WsText))
    BY <1>1, <1>2, <1>5, RunsTyped DEF WsInv, WsParts, WsResult, PrintsOk
  <2>2. QED
    BY <1>5, <2>1 DEF Delivered, FileProtocols, TcpFamily
<1>6. CASE protocol = "http2"
  <2>1. H2Written /\ mem.stream = H2Streams + 1
    BY <1>6, H2Fortunate DEF Runs, H2Run, H2Whole, BothGone
  <2>2. mem.stream - 1 = H2Streams
    BY <2>1, Http2Assumption DEF H2Streams
  <2>3. mem.lines = [k \in 1..H2Streams |-> k]
    BY <2>1, <2>2 DEF H2Written
  <2>4. QED
    BY <1>6, <2>3 DEF Delivered, FileProtocols, TcpFamily
<1>7. CASE protocol = "dns"
  <2>1. mem.lines = <<DnsLine>>
    BY <1>7 DEF Runs, DnsRun, BothGone, Stage
  <2>2. QED
    BY <1>7, <2>1 DEF Delivered, FileProtocols, TcpFamily
<1>8. CASE protocol \notin FileProtocols \cup {"websocket-basic", "http2", "dns"}
  BY <1>8 DEF Delivered
<1>9. QED
  BY <1>3, <1>4, <1>5, <1>6, <1>7, <1>8 DEF FileProtocols

\* What is published when both have failed.
LEMMA NothingPublished ==
  ASSUME TypesInv, UnpublishedInv, Calm, Runs, ~Fortunate, results.client # OK
  PROVE  committed = <<>>
<1>1. CASE protocol \in TcpFamily
  BY <1>1, RunsTyped DEF TcpInv, OutputInv
<1>2. protocol # "quic-like"
  BY QuicFortunate DEF Runs, QuicRun
<1>3. QED
  BY <1>1, <1>2 DEF UnpublishedInv, FileProtocols

LEMMA FailurePrinted ==
  /\ "OK" \notin Range(<<>>) /\ "OK" \notin Range(ABORT) /\ "OK" \notin Range(ABORT \o ABORT)
  /\ ABORT # <<>> /\ ABORT \o ABORT # <<>> /\ ABORT # OK /\ ABORT \o ABORT # OK
<1>1. ABORT \in Seq({"ABORT"}) /\ ABORT # <<>> /\ ABORT # OK
  BY DEF ABORT, OK
<1>2. PICK twice \in Seq({"ABORT"}) : twice = ABORT \o ABORT
  BY <1>1, ConcatProperties
<1>3. twice # <<>> /\ twice # OK
  <2>1. Len(twice) = 2
    BY <1>1, <1>2, ConcatProperties DEF ABORT
  <2>2. QED
    BY <2>1 DEF OK
<1>4. "OK" \notin Range(twice)
  BY DEF Range
<1>5. QED
  BY <1>1, <1>2, <1>3, <1>4, Printed

LEMMA TestedOnly == scenario \notin Untested => scenario # "replay-invite"
BY DEF Untested

LEMMA OutcomeFollows == TypesInv /\ UnpublishedInv /\ RunInv => TestedOutcome
<1>. SUFFICES ASSUME TypesInv, UnpublishedInv, RunInv, Calm, BothEnded
              PROVE  IF LetIn /\ scenario \in ExpectedOk(protocol)
                     THEN (\A p \in Programs : results[p] = OK) /\ Delivered
                     ELSE BothFail
  BY Zenon, TestedOnly DEF TestedOutcome, Calm
<1>1. Foretold /\ Runs
  BY DEF RunInv
<1>2. Ended("server") /\ Ended("client") /\ BothGone
  BY DEF BothEnded, Programs, Ended, BothGone
<1>3. CASE Fortunate
  <2>1. \A p \in Programs : results[p] = OK
    BY <1>1, <1>2, <1>3 DEF Foretold, Programs
  <2>2. Delivered
    BY <1>1, <1>2, <1>3, <2>1, DeliveredFollows DEF Programs
  <2>3. QED
    BY Zenon, <1>3, <2>1, <2>2 DEF Fortunate
<1>4. CASE ~Fortunate
  <2>1. /\ results.client \in {ABORT, ABORT \o ABORT}
        /\ \/ results.server \in {ABORT, ABORT \o ABORT}
           \/ scenario = "tampered-app-data" /\ results.server = <<>>
    BY <1>1, <1>2, <1>4 DEF Foretold, Programs
  <2>2. committed = <<>>
    BY <1>1, <1>4, <2>1, FailurePrinted, NothingPublished
  <2>3. BothFail
    BY <2>1, <2>2, FailurePrinted DEF BothFail, PrintsOk, Programs
  <2>4. QED
    BY Zenon, <1>4, <2>3 DEF Fortunate
<1>5. QED
  BY <1>3, <1>4

\* Undisturbed, every scenario that test/run_tests.py runs ends as it expects: a client that is
\* to be let in, in a scenario that is to succeed, ends with both programs reporting OK and
\* everything delivered, the file under its final name, the WebSocket text, every HTTP/2 stream,
\* the count of the DNS answers; otherwise both programs report ABORT, or a SIGPIPE keeps the
\* server of tampered-app-data from reporting, and nothing is published.
THEOREM RunsAsTested == Spec => []TestedOutcome
<1>. DEFINE Inv == TypesInv /\ UnpublishedInv /\ RunInv
<1>1. Init => Inv
  BY TypesInitially, UnpublishedInitially, RunsBegin DEF RunInv
<1>2. Inv /\ [Next]_demoVars => Inv'
  BY TypesStep, UnpublishedKept, RunStep
<1>3. Inv => TestedOutcome
  BY OutcomeFollows
<1>. HIDE DEF Inv
<1>4. QED
  BY <1>1, <1>2, <1>3, PTL DEF Spec
=============================================================================
