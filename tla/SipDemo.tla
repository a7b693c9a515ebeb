------------------------------ MODULE SipDemo ------------------------------
(***************************************************************************)
(* sip_demo_server.c and sip_demo_client.c: a REGISTER in every scenario,  *)
(* then in two of them an INVITE.  Only the Call-ID and the status code of *)
(* a message are looked at.                                                *)
(***************************************************************************)
EXTENDS DemoPrograms

\* "none": UDP_SECURE_SCENARIO is not set.
SipScenarios == {"none", "register", "no-sips-downgrade", "invite-bye", "replay-invite"}

SipRequest(method, from) == [method |-> method, from |-> from]
SipStatus(code) == [code |-> code]

\* A stranger's INVITE has a Call-ID of its own.
SipOtherMessages == {SipRequest(method, "other") : method \in {"REGISTER", "INVITE", "BYE"}}

SipInit ==
  /\ protocol = "sip"
  /\ scenario \in SipScenarios
  /\ faults \in DatagramFaults
  /\ ProgramsInit("request")
  /\ NoFiles
  \* call: whose INVITE last_call_id is; saw: the saw_ flags that are set;
  \* left: the receives the client still gives its INVITE
  /\ mem = [call |-> "none", saw |-> {}, left |-> 3]

SipReply(m, codes) == IF m.from = "client" THEN [i \in DOMAIN codes |-> SipStatus(codes[i])] ELSE <<>>

-----------------------------------------------------------------------------
(***************************************************************************)
(* The server.  It waits in one place until its loop ends.                 *)
(***************************************************************************)
SipServerRegister ==
  /\ at.server = "request"
  /\ \E i \in Arriving("server") :
       /\ net.server[i].method = "REGISTER"
       /\ Exchange("server", i, SipReply(net.server[i], <<200>>))
  /\ \/ scenario = "invite-bye" /\ Goto("server", "request")
     \/ scenario # "invite-bye" /\ Finish("server", OK)
  /\ UNCHANGED <<quietVars, mem>>

SipServerInvite ==
  /\ at.server = "request"
  /\ \E i \in Arriving("server") :
       LET m == net.server[i]
       IN  /\ m.method = "INVITE"
           /\ \/ m.from # mem.call
                 /\ Exchange("server", i, SipReply(m, <<100, 180, 200>>))
                 /\ mem' = [mem EXCEPT !.call = m.from, !.saw = @ \cup {"INVITE"}]
                 /\ Goto("server", "request")
              \/ m.from = mem.call
                 /\ Exchange("server", i, <<>>)
                 /\ Finish("server", ABORT \o ABORT)
                 /\ UNCHANGED mem
  /\ UNCHANGED quietVars

\* The loop ends with rc = 0 at the last of the three, an ACK after a BYE included.
SipEnds(saw, method) ==
  \/ method = "ACK" /\ "BYE" \in saw
  \/ method = "BYE" /\ {"INVITE", "ACK"} \subseteq saw

SipServerAckOrBye ==
  /\ at.server = "request"
  /\ \E i \in Arriving("server") :
       LET m == net.server[i]
       IN  /\ m.method \in {"ACK", "BYE"}
           /\ mem' = [mem EXCEPT !.saw = @ \cup {m.method}]
           /\ Exchange("server", i,
                IF m.method = "BYE" THEN SipReply(m, <<200>>) ELSE <<>>)
           /\ \/ SipEnds(mem.saw, m.method) /\ Finish("server", OK)
              \/ ~SipEnds(mem.saw, m.method) /\ Goto("server", "request")
  /\ UNCHANGED quietVars

SipServerFails ==
  /\ at.server = "request" /\ TimesOut("server")
  /\ Finish("server", ABORT)
  /\ UNCHANGED <<quietVars, net, mem>>

SipServer ==
  \/ SipServerRegister \/ SipServerInvite \/ SipServerAckOrBye \/ SipServerFails

-----------------------------------------------------------------------------
(***************************************************************************)
(* The client.                                                             *)
(***************************************************************************)
SipClientStart ==
  /\ at.client = "start"
  /\ Send("client", <<SipRequest("REGISTER", "client")>>)
  /\ Goto("client", "registered")
  /\ UNCHANGED <<quietVars, mem>>

\* The first response to a REGISTER is its 200, the only code it is answered with.
SipClientRegistered ==
  /\ at.client = "registered"
  /\ \E i \in Arriving("client") :
       /\ net.client[i].code = 200
       /\ \/ scenario \in {"invite-bye", "replay-invite"}
             /\ Exchange("client", i, <<SipRequest("INVITE", "client")>>)
             /\ Goto("client", "invited")
          \/ scenario \notin {"invite-bye", "replay-invite"}
             /\ Exchange("client", i, <<>>)
             /\ Finish("client", OK)
  /\ UNCHANGED <<quietVars, mem>>

SipClientNotRegistered ==
  /\ at.client = "registered" /\ TimesOut("client")
  /\ Finish("client", ABORT)
  /\ UNCHANGED <<quietVars, net, mem>>

\* What follows the responses to the INVITE, however many there were.
SipAfterInvite ==
  \/ scenario = "invite-bye" /\ Goto("client", "bye")
  \/ scenario = "replay-invite" /\ Finish("client", ABORT)

SipMessagesAfterInvite ==
  IF scenario = "invite-bye"
  THEN <<SipRequest("ACK", "client"), SipRequest("BYE", "client")>>
  ELSE <<SipRequest("INVITE", "client")>>

\* Any message is one of the three responses that are waited for.
SipClientInvited ==
  /\ at.client = "invited"
  /\ mem' = [mem EXCEPT !.left = @ - 1]
  /\ \E i \in Arriving("client") :
       \/ mem.left > 1 /\ Exchange("client", i, <<>>) /\ Goto("client", "invited")
       \/ mem.left = 1 /\ Exchange("client", i, SipMessagesAfterInvite) /\ SipAfterInvite
  /\ UNCHANGED quietVars

SipClientInviteFails ==
  /\ at.client = "invited" /\ TimesOut("client")
  /\ Send("client", SipMessagesAfterInvite) /\ SipAfterInvite
  /\ UNCHANGED <<quietVars, mem>>

\* The answer to the BYE is waited for, and nothing is made of it.
SipClientBye ==
  /\ at.client = "bye"
  /\ \/ TimesOut("client") /\ UNCHANGED net
     \/ \E i \in Arriving("client") : Exchange("client", i, <<>>)
  /\ Finish("client", OK)
  /\ UNCHANGED <<quietVars, mem>>

SipClient ==
  \/ SipClientStart \/ SipClientRegistered \/ SipClientNotRegistered
  \/ SipClientInvited \/ SipClientInviteFails \/ SipClientBye

SipNext == SipServer \/ SipClient
=============================================================================
