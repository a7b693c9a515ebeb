------------------------------ MODULE MqttDemo ------------------------------
(***************************************************************************)
(* mqtt_demo_server.c and mqtt_demo_client.c: CONNECT, SUBSCRIBE, PUBLISH  *)
(* and DISCONNECT.  There is no framing: one recv is taken for one packet, *)
(* and only its first byte is looked at, so what follows it in the same    *)
(* recv is dropped.  No send is checked, and no loop reads stop_requested. *)
(***************************************************************************)
EXTENDS DemoPrograms

MqttScenarios == {"normal", "qos2-replay", "unauth-subscribe", "cleartext-eavesdrop"}

MqttInit ==
  /\ protocol = "mqtt"
  /\ scenario \in MqttScenarios
  /\ faults \in StreamFaults
  /\ ProgramsInit("CONNECT")
  /\ NoFiles
  /\ mem = <<>>

MqttTakes(p, packet, msgs) == net[p] # <<>> /\ Head(net[p]) = packet /\ ReceiveOne(p, msgs)

-----------------------------------------------------------------------------
(***************************************************************************)
(* The server.  It waits for the packets in this order.                    *)
(***************************************************************************)
MqttServerConnect ==
  /\ at.server = "CONNECT"
  /\ MqttTakes("server", "CONNECT", <<"CONNACK">>)
  /\ Goto("server", "SUBSCRIBE")
  /\ UNCHANGED <<quietVars, mem>>

\* The topic the client asks for in that scenario is the restricted one.
MqttAllowed(topic) == ~(scenario = "unauth-subscribe" /\ topic = "admin/secret")

MqttTopic == IF scenario = "unauth-subscribe" THEN "admin/secret" ELSE "sensors/temp"

MqttServerSubscribe ==
  /\ at.server = "SUBSCRIBE"
  /\ \/ MqttAllowed(MqttTopic)
        /\ MqttTakes("server", "SUBSCRIBE", <<"SUBACK">>) /\ Goto("server", "PUBLISH")
     \/ ~MqttAllowed(MqttTopic)
        /\ MqttTakes("server", "SUBSCRIBE", <<"SUBACK 0x80">>) /\ Finish("server", ABORT)
  /\ UNCHANGED <<quietVars, mem>>

\* QoS 2 in one scenario, else QoS 0, which is not answered.
MqttServerPublish ==
  /\ at.server = "PUBLISH"
  /\ \/ scenario = "qos2-replay"
        /\ MqttTakes("server", "PUBLISH", <<"PUBREC">>) /\ Goto("server", "pause")
     \/ scenario # "qos2-replay"
        /\ MqttTakes("server", "PUBLISH", <<>>) /\ Goto("server", "DISCONNECT")
  /\ UNCHANGED <<quietVars, mem>>

\* The second PUBREC, 100 ms after the first one or, after a signal, sooner.
MqttServerRepeats ==
  /\ at.server = "pause"
  /\ Send("server", <<"PUBREC">>)
  /\ Finish("server", ABORT)
  /\ UNCHANGED <<quietVars, mem>>

\* A send to a client that has ended may kill the server.
MqttServerBreaks ==
  /\ at.server = "pause" /\ Ended("client") /\ net.client # <<>>
  /\ Killed("server")
  /\ UNCHANGED <<quietVars, net, mem>>

\* Whatever this receive returns, the server is content.
MqttServerDisconnect ==
  /\ at.server = "DISCONNECT"
  /\ \/ MqttTakes("server", "DISCONNECT", <<>>)
     \/ ReceiveFails("server") /\ UNCHANGED net
  /\ Finish("server", OK)
  /\ UNCHANGED <<quietVars, mem>>

MqttServerFails ==
  /\ at.server \in {"CONNECT", "SUBSCRIBE", "PUBLISH"} /\ ReceiveFails("server")
  /\ Finish("server", ABORT)
  /\ UNCHANGED <<quietVars, net, mem>>

MqttServer ==
  \/ MqttServerConnect \/ MqttServerSubscribe \/ MqttServerPublish \/ MqttServerRepeats
  \/ MqttServerBreaks \/ MqttServerDisconnect \/ MqttServerFails

-----------------------------------------------------------------------------
(***************************************************************************)
(* The client.                                                             *)
(***************************************************************************)
MqttClientStart ==
  /\ at.client = "start"
  /\ \/ Ended("server") /\ UNCHANGED net /\ Finish("client", ABORT)
     \/ ~Ended("server") /\ Send("client", <<"CONNECT">>) /\ Goto("client", "CONNACK")
  /\ UNCHANGED <<quietVars, mem>>

MqttClientConnack ==
  /\ at.client = "CONNACK"
  /\ MqttTakes("client", "CONNACK", <<"SUBSCRIBE">>)
  /\ Goto("client", "SUBACK")
  /\ UNCHANGED <<quietVars, mem>>

\* The PUBLISH follows the SUBACK, and with QoS 0 the DISCONNECT follows at once.
\* The second of the two may find the connection reset, and kill the client.
MqttClientSuback ==
  /\ at.client = "SUBACK"
  /\ \/ scenario = "qos2-replay"
        /\ MqttTakes("client", "SUBACK", <<"PUBLISH">>) /\ Goto("client", "PUBREC")
     \/ scenario # "qos2-replay"
        /\ MqttTakes("client", "SUBACK", <<"PUBLISH", "DISCONNECT">>)
        /\ \/ Finish("client", OK)
           \/ Ended("server") /\ Killed("client")
     \/ MqttTakes("client", "SUBACK 0x80", <<>>) /\ Finish("client", ABORT)
  /\ UNCHANGED <<quietVars, mem>>

MqttClientPubrec ==
  /\ at.client = "PUBREC"
  /\ MqttTakes("client", "PUBREC", <<>>)
  /\ Goto("client", "PUBREC again")
  /\ UNCHANGED <<quietVars, mem>>

MqttReplaySeen(packet) == packet = "PUBREC"

MqttClientPubrecAgain ==
  /\ at.client = "PUBREC again"
  /\ net.client # <<>>
  /\ LET seen == MqttReplaySeen(Head(net.client))
     IN  /\ Exchange("client", 1, IF seen THEN <<>> ELSE <<"DISCONNECT">>)
         /\ Finish("client", IF seen THEN ABORT ELSE OK)
  /\ UNCHANGED <<quietVars, mem>>

\* No second PUBREC, as when one recv has returned both: the client goes on.
MqttClientNoReplay ==
  /\ at.client = "PUBREC again" /\ ReceiveFails("client")
  /\ Send("client", <<"DISCONNECT">>) /\ Finish("client", OK)
  /\ UNCHANGED <<quietVars, mem>>

MqttClientFails ==
  /\ at.client \in {"CONNACK", "SUBACK", "PUBREC"} /\ ReceiveFails("client")
  /\ Finish("client", ABORT)
  /\ UNCHANGED <<quietVars, net, mem>>

MqttClient ==
  \/ MqttClientStart \/ MqttClientConnack \/ MqttClientSuback \/ MqttClientPubrec
  \/ MqttClientPubrecAgain \/ MqttClientNoReplay \/ MqttClientFails

MqttNext == MqttServer \/ MqttClient
=============================================================================
