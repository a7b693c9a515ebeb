------------------------------ MODULE DnsDemo ------------------------------
(***************************************************************************)
(* dns_demo_server.c and dns_demo_client.c: one query, and one receive for *)
(* its answer.                                                             *)
(***************************************************************************)
EXTENDS DemoPrograms

DnsScenarios == {"normal", "spoofed-response", "nxdomain-redir", "doh-tls"}

DnsQuery(from) == [type |-> "query", from |-> from]
DnsOtherMessages == {DnsQuery("other")}

DnsInit ==
  /\ protocol = "dns"
  /\ scenario \in DnsScenarios
  /\ faults \in DatagramFaults
  /\ ProgramsInit("query")
  /\ NoFiles
  \* lines: what the client has written to its output
  /\ mem = [lines |-> <<>>]

\* build_response: without an address, the count of answers is 0.
DnsAnswer(address) ==
  IF address = "none" THEN [rcode |-> 3, ancount |-> 0, address |-> "none"]
  ELSE [rcode |-> 0, ancount |-> 1, address |-> address]

\* One message each.
DnsAnswers ==
  CASE scenario = "spoofed-response" -> <<DnsAnswer("6.6.6.6"), DnsAnswer("1.2.3.4")>>
    [] scenario = "nxdomain-redir" -> <<DnsAnswer("none")>>
    [] OTHER -> <<DnsAnswer("1.2.3.4")>>

\* The server answers one query, whoever sent it.
DnsServerQuery ==
  /\ at.server = "query"
  /\ \E i \in Arriving("server") :
       Exchange("server", i, IF net.server[i].from = "client" THEN DnsAnswers ELSE <<>>)
  /\ Finish("server", OK)
  /\ UNCHANGED <<quietVars, mem>>

DnsServerFails ==
  /\ at.server = "query" /\ TimesOut("server")
  /\ Finish("server", ABORT)
  /\ UNCHANGED <<quietVars, net, mem>>

DnsServer == DnsServerQuery \/ DnsServerFails

DnsClientStart ==
  /\ at.client = "start"
  /\ Send("client", <<DnsQuery("client")>>)
  /\ Goto("client", "response")
  /\ UNCHANGED <<quietVars, mem>>

\* The summary the client writes of an answer: its address is not in it.
DnsSummary(m) == [rcode |-> m.rcode, ancount |-> m.ancount]

\* The one datagram the client takes is the first that comes, also when a second one
\* has the true address; its transaction id is not compared.
DnsClientResponse ==
  /\ at.client = "response"
  /\ \E i \in Arriving("client") :
       /\ mem' = [mem EXCEPT !.lines = <<DnsSummary(net.client[i])>>]
       /\ Exchange("client", i, <<>>)
  /\ Finish("client", OK)
  /\ UNCHANGED quietVars

DnsClientFails ==
  /\ at.client = "response" /\ TimesOut("client")
  /\ Finish("client", ABORT)
  /\ UNCHANGED <<quietVars, net, mem>>

DnsClient == DnsClientStart \/ DnsClientResponse \/ DnsClientFails

DnsNext == DnsServer \/ DnsClient
=============================================================================
