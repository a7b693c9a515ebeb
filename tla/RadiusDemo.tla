----------------------------- MODULE RadiusDemo -----------------------------
(***************************************************************************)
(* radius_demo_server.c and radius_demo_client.c: an Access-Request, and,  *)
(* if it is accepted, an Accounting-Request.  Every authentication scheme  *)
(* is a predicate here: whether the request proves the password, and       *)
(* whether a response was computed from the request's authenticator.       *)
(***************************************************************************)
EXTENDS DemoPrograms

RadiusScenarios == {"normal", "chap-vs-pap", "shared-secret-leak", "replay-attack"}

\* auth: the request's authenticator, named for the client that drew it; "zero"
\* is one that begins with a zero byte.  proves: the PAP or CHAP attribute is
\* that of the password, and there is a user name.
AccessRequest(from, auth, proves) ==
  [type |-> "request", from |-> from, auth |-> auth, proves |-> proves]
AccountingRequest(from) == [type |-> "accounting", from |-> from]

\* What the server answers; a response's authenticator is computed from the
\* request's, the reject of a replay echoes it.
AccessResponse(accept, auth) ==
  [type |-> IF accept THEN "accept" ELSE "reject", of |-> auth]
ReplayReject == [type |-> "reject", of |-> "echoed"]
AccountingResponse == [type |-> "accounted"]

RadiusOtherMessages ==
  {AccessRequest("other", "other", TRUE), AccessRequest("other", "other", FALSE),
   AccountingRequest("other")}

RadiusInit ==
  /\ protocol = "radius"
  /\ scenario \in RadiusScenarios
  /\ faults \in DatagramFaults
  /\ ProgramsInit("request")
  /\ NoFiles
  \* nonce: the client's authenticator; last: last_auth;
  \* accepted: whose request was, "nobody" while rc is 1
  /\ \E nonce \in {"client", "zero"} :
       mem = [nonce |-> nonce, last |-> "none", accepted |-> "nobody"]

RadiusReply(m, msg) == IF m.from = "client" THEN <<msg>> ELSE <<>>

-----------------------------------------------------------------------------
(***************************************************************************)
(* The server.                                                             *)
(***************************************************************************)

\* last_auth[0] != 0 stands for there being one.
RadiusReplayed(m) ==
  scenario = "replay-attack" /\ mem.last \notin {"none", "zero"} /\ m.auth = mem.last

RadiusAccepts(m) == scenario # "shared-secret-leak" /\ m.proves

\* Mutant: rc becomes 0 with the first request that is answered.
RadiusEnd_Answered(accepted) == IF mem.last = "none" THEN ABORT ELSE OK

\* After the loop, however it was left: rc is 0 once a request has been accepted.
RadiusEnd(accepted) == IF accepted = "nobody" THEN ABORT ELSE OK

RadiusServerRequest ==
  /\ at.server = "request"
  /\ \E i \in Arriving("server") :
       LET m == net.server[i]
       IN  /\ m.type = "request"
           /\ \/ RadiusReplayed(m)
                 /\ Exchange("server", i, RadiusReply(m, ReplayReject))
                 /\ Finish("server", ABORT \o RadiusEnd(mem.accepted))
                 /\ UNCHANGED mem
              \/ ~RadiusReplayed(m) /\ RadiusAccepts(m)
                 /\ Exchange("server", i, RadiusReply(m, AccessResponse(TRUE, m.auth)))
                 /\ Goto("server", "accounting")
                 /\ mem' = [mem EXCEPT !.last = m.auth, !.accepted = m.from]
              \/ ~RadiusReplayed(m) /\ ~RadiusAccepts(m)
                 /\ Exchange("server", i, RadiusReply(m, AccessResponse(FALSE, m.auth)))
                 /\ Goto("server", "request")
                 /\ mem' = [mem EXCEPT !.last = m.auth]
  /\ UNCHANGED quietVars

RadiusServerIgnores ==
  /\ at.server = "request"
  /\ \E i \in Arriving("server") :
       net.server[i].type # "request" /\ Exchange("server", i, <<>>)
  /\ UNCHANGED <<quietVars, at, results, mem>>

\* After an accept, any request counts as a replay in that scenario.
RadiusReplaysAccepted(m) == scenario = "replay-attack" /\ m.type = "request"

RadiusServerAccounting ==
  /\ at.server = "accounting"
  /\ \E i \in Arriving("server") :
       LET m == net.server[i]
       IN  \/ m.type = "accounting"
              /\ Exchange("server", i, RadiusReply(m, AccountingResponse))
              /\ Finish("server", RadiusEnd(mem.accepted))
              /\ UNCHANGED mem
           \/ RadiusReplaysAccepted(m)
              /\ Exchange("server", i, RadiusReply(m, ReplayReject))
              /\ mem' = [mem EXCEPT !.accepted = "nobody"]
              /\ Finish("server", RadiusEnd(mem'.accepted))
           \/ m.type = "request" /\ ~RadiusReplaysAccepted(m)
              /\ Exchange("server", i, <<>>)
              /\ Goto("server", "accounting")
              /\ UNCHANGED mem
  /\ UNCHANGED quietVars

\* The receive fails.
RadiusServerFails ==
  /\ at.server \in {"request", "accounting"} /\ TimesOut("server")
  /\ Finish("server", RadiusEnd(mem.accepted))
  /\ UNCHANGED <<quietVars, net, mem>>

RadiusServer ==
  \/ RadiusServerRequest \/ RadiusServerIgnores
  \/ RadiusServerAccounting \/ RadiusServerFails

-----------------------------------------------------------------------------
(***************************************************************************)
(* The client.                                                             *)
(***************************************************************************)
RadiusClientRequest == AccessRequest("client", mem.nonce, TRUE)

RadiusClientStart ==
  /\ at.client = "start"
  /\ Send("client", <<RadiusClientRequest>>)
  /\ Goto("client", "response")
  /\ UNCHANGED <<quietVars, mem>>

\* The authenticator is verified before the code is looked at.
RadiusClientResponse ==
  /\ at.client = "response"
  /\ \E i \in Arriving("client") :
       LET m == net.client[i]
           accepted == m.type = "accept" /\ m.of = mem.nonce
       IN  \/ ~accepted
              /\ Exchange("client", i, <<>>) /\ Finish("client", ABORT)
           \/ accepted /\ scenario = "replay-attack"
              /\ Exchange("client", i, <<RadiusClientRequest>>)
              /\ Goto("client", "replayed")
           \/ accepted /\ scenario # "replay-attack"
              /\ Exchange("client", i, <<AccountingRequest("client")>>)
              /\ Goto("client", "accounted")
  /\ UNCHANGED <<quietVars, mem>>

RadiusClientNoResponse ==
  /\ at.client = "response" /\ TimesOut("client")
  /\ Finish("client", ABORT)
  /\ UNCHANGED <<quietVars, net, mem>>

\* Whatever comes, or does not, ends the client: a replay with ABORT, an
\* accounting with OK.
RadiusClientEnd ==
  /\ at.client \in {"replayed", "accounted"}
  /\ \/ TimesOut("client") /\ UNCHANGED net
     \/ \E i \in Arriving("client") : Exchange("client", i, <<>>)
  /\ Finish("client", IF at.client = "replayed" THEN ABORT ELSE OK)
  /\ UNCHANGED <<quietVars, mem>>

RadiusClient ==
  \/ RadiusClientStart \/ RadiusClientResponse
  \/ RadiusClientNoResponse \/ RadiusClientEnd

RadiusNext == RadiusServer \/ RadiusClient
=============================================================================
