----------------------------- MODULE UdpSession -----------------------------
(***************************************************************************)
(* One run of the basic UDP protocol: main of server.c with transfer_file, *)
(* main of client.c in its basic mode, and the UDP network between them.   *)
(* The client joins, answers each PASS_REQ with its next password, and     *)
(* after PASS_ACCEPT receives DATA in sequence and a TERMINATE with the    *)
(* SHA-1 digest; nothing is acknowledged or sent twice.                    *)
(*                                                                         *)
(* A network direction is the sequence of the datagrams in flight.  What   *)
(* the environment may do is chosen at the start (faults), so that one     *)
(* instance covers a quiet network and several disturbed ones.             *)
(***************************************************************************)
EXTENDS Integers, Sequences, SequencesExt

CONSTANTS Data,       \* what one DATA packet can carry
          Files,      \* the contents the input file can have
          Passwords,  \* the passwords a user can type
          Secret,     \* the server's password
          FaultSets,  \* the environments considered, see FaultKinds
          MaxLoss,    \* how many datagrams the network may lose
          MaxStray    \* how many datagrams other peers send

(***************************************************************************)
(* "loss", "duplicate" and "reorder" are the network's.  "delay": a packet *)
(* may take longer than UDP_SECURE_TIMEOUT_MS.  "stray": other peers send  *)
(* to either port.  "stop": SIGINT or SIGTERM.  "kill": SIGKILL.  "io": a  *)
(* system call fails, or the interactive client's input ends.              *)
(***************************************************************************)
FaultKinds == {"loss", "duplicate", "reorder", "delay", "stray", "stop", "kill", "io"}

ASSUME FilesAssumption == Files \subseteq Seq(Data)
ASSUME PasswordAssumption == Secret \in Passwords
ASSUME EnvironmentAssumption ==
  FaultSets \subseteq SUBSET FaultKinds /\ MaxLoss \in Nat /\ MaxStray \in Nat

VARIABLES
  faults,    \* the environment of this behaviour
  stopping,  \* the programs whose stop_requested is set
  \* the server
  digest,    \* the contents sha1_file() saw
  content,   \* the contents transfer_file() reads later
  server,    \* where it is: see ServerStates
  peer,      \* who sent JOIN_REQ
  attempt,   \* the round of the authentication loop, from 1
  packetId,  \* the next DATA packet's identifier
  \* the client
  typed,     \* the three passwords of the command line
  client,    \* where it is: see ClientStates
  used,      \* how many of them it has sent
  out,       \* what it has written; expected_packet_id is its length
  committed, \* the contents renamed onto the output path, in order
  \* the network
  toClient, toServer, lost, strays

serverVars == <<digest, content, server, peer, attempt, packetId>>
clientVars == <<typed, client, used, out, committed>>
budgets == <<lost, strays>>
vars == <<faults, stopping, digest, content, server, peer, attempt, packetId,
          typed, client, used, out, committed, toClient, toServer, lost, strays>>

ServerStates == {"join", "auth", "send"}
ClientStates == {"start", "auth", "transfer"}
Finished == {"ok", "abort", "killed"}
Peers == {"client", "other"}

(***************************************************************************)
(* Packets, with the peer each comes from.                                 *)
(***************************************************************************)
Control(type) == [from |-> "server", type |-> type]
DataPacket(i) == [from |-> "server", type |-> "DATA", id |-> i, data |-> content[i + 1]]
Terminate == [from |-> "server", type |-> "TERMINATE", digest |-> digest]
JoinReq(who) == [from |-> who, type |-> "JOIN_REQ"]
PassResp(who, word) == [from |-> who, type |-> "PASS_RESP", word |-> word]
\* parse_packet() refuses it.
Malformed == [from |-> "other", type |-> "malformed"]

\* The datagrams a receiver may get next: the network keeps the order unless it
\* reorders.
Arriving(channel) ==
  {k \in DOMAIN channel : k = 1 \/ "reorder" \in faults}

\* What may be in flight after the k-th datagram has arrived.
After(channel, k) ==
  {RemoveAt(channel, k)} \cup (IF "duplicate" \in faults THEN {channel} ELSE {})

\* The server sends p to its peer, whoever that is.
SendToPeer(p) ==
  toClient' = IF peer' = "client" THEN Append(toClient, p) ELSE toClient

Init ==
  /\ faults \in FaultSets
  /\ stopping = {}
  /\ digest \in Files
  /\ content \in Files      \* the file may have changed since sha1_file()
  /\ server = "join"
  /\ peer = "none"
  /\ attempt = 1
  /\ packetId = 0
  /\ typed \in [1..3 -> Passwords]
  /\ client = "start"
  /\ used = 0
  /\ out = <<>>
  /\ committed = <<>>
  /\ toClient = <<>> /\ toServer = <<>>
  /\ lost = 0 /\ strays = 0

(***************************************************************************)
(* The server.                                                             *)
(***************************************************************************)

\* The first datagram decides: JOIN_REQ names the peer, which is asked for a
\* password, and everything else ends the server.
ServerJoin(k) ==
  /\ server = "join"
  /\ k \in Arriving(toServer)
  /\ LET m == toServer[k] IN
       IF m.type = "JOIN_REQ"
       THEN /\ peer' = m.from
            /\ SendToPeer(Control("PASS_REQ"))
            /\ server' = IF "server" \in stopping THEN "abort" ELSE "auth"
       ELSE /\ server' = "abort"
            /\ UNCHANGED <<peer, toClient>>
  /\ toServer' \in After(toServer, k)
  /\ UNCHANGED <<faults, stopping, digest, content, attempt, packetId, clientVars, budgets>>

\* A well-formed packet of another peer costs no attempt.
ServerIgnore(k) ==
  /\ server = "auth"
  /\ k \in Arriving(toServer)
  /\ toServer[k].from # peer /\ toServer[k].type # "malformed"
  /\ server' = IF "server" \in stopping THEN "abort" ELSE "auth"
  /\ toServer' \in After(toServer, k)
  /\ UNCHANGED <<faults, stopping, digest, content, peer, attempt, packetId, clientVars,
                 toClient, budgets>>

\* What cannot be parsed, or is no PASS_RESP, ends the server.
ServerUnexpected(k) ==
  /\ server = "auth"
  /\ k \in Arriving(toServer)
  /\ LET m == toServer[k]
     IN  m.type = "malformed" \/ (m.from = peer /\ m.type # "PASS_RESP")
  /\ server' = "abort"
  /\ toServer' \in After(toServer, k)
  /\ UNCHANGED <<faults, stopping, digest, content, peer, attempt, packetId, clientVars,
                 toClient, budgets>>

PasswordOk_LastRound(m) == m.word = Secret \/ attempt = 3
PasswordOk(m) == m.word = Secret

MaxAttempts_Two == 2
MaxAttempts_Four == 4
MaxAttempts == 3

\* A password: accepted, refused for good, or asked for again.
ServerPassword(k) ==
  /\ server = "auth"
  /\ k \in Arriving(toServer)
  /\ toServer[k].from = peer /\ toServer[k].type = "PASS_RESP"
  /\ peer' = peer
  /\ IF PasswordOk(toServer[k])
     THEN /\ SendToPeer(Control("PASS_ACCEPT"))
          /\ server' = IF "server" \in stopping THEN "abort" ELSE "send"
          /\ UNCHANGED attempt
     ELSE IF attempt = MaxAttempts
     THEN /\ SendToPeer(Control("REJECT"))
          /\ server' = "abort"
          /\ UNCHANGED attempt
     ELSE /\ SendToPeer(Control("PASS_REQ"))
          /\ server' = IF "server" \in stopping THEN "abort" ELSE "auth"
          /\ attempt' = attempt + 1
  /\ toServer' \in After(toServer, k)
  /\ UNCHANGED <<faults, stopping, digest, content, packetId, clientVars, budgets>>

\* transfer_file() sends the next chunk, unless it is told to stop.
ServerSendData ==
  /\ server = "send"
  /\ packetId < Len(content)
  /\ peer' = peer
  /\ IF "server" \in stopping
     THEN /\ server' = "abort"
          /\ UNCHANGED <<packetId, toClient>>
     ELSE /\ SendToPeer(DataPacket(packetId))
          /\ packetId' = packetId + 1
          /\ UNCHANGED server
  /\ UNCHANGED <<faults, stopping, digest, content, attempt, clientVars, toServer, budgets>>

\* After the last chunk TERMINATE goes out once, and the server says OK.
ServerTerminate ==
  /\ server = "send"
  /\ packetId = Len(content)
  /\ peer' = peer
  /\ SendToPeer(Terminate)
  /\ server' = "ok"
  /\ UNCHANGED <<faults, stopping, digest, content, attempt, packetId, clientVars,
                 toServer, budgets>>

ServerWaits_Auth == server = "auth"
ServerWaits == server \in {"join", "auth"}

\* Nothing arrives within UDP_SECURE_TIMEOUT_MS: a packet, or the start of the
\* client, takes longer, or nothing is in flight and the client waits or is over.
ServerTimeout ==
  /\ ServerWaits
  /\ \/ "delay" \in faults
     \/ toServer = <<>> /\ client \in Finished
     \/ toServer = <<>> /\ toClient = <<>> /\ client # "start"
  /\ server' = "abort"
  /\ UNCHANGED <<faults, stopping, digest, content, peer, attempt, packetId, clientVars,
                 toClient, toServer, budgets>>

ServerFails ==
  /\ server \in ServerStates
  /\ \/ "io" \in faults /\ server' = "abort"
     \/ "kill" \in faults /\ server' = "killed"
  /\ UNCHANGED <<faults, stopping, digest, content, peer, attempt, packetId, clientVars,
                 toClient, toServer, budgets>>

(***************************************************************************)
(* The client.                                                             *)
(***************************************************************************)
ClientJoin ==
  /\ client = "start"
  /\ toServer' = Append(toServer, JoinReq("client"))
  /\ client' = IF "client" \in stopping THEN "abort" ELSE "auth"
  /\ UNCHANGED <<faults, stopping, serverVars, typed, used, out, committed, toClient,
                 budgets>>

\* PASS_REQ is answered with the next password, if there is one.
ClientAnswer(k) ==
  /\ client = "auth"
  /\ k \in Arriving(toClient)
  /\ toClient[k].from = "server" /\ toClient[k].type = "PASS_REQ"
  /\ IF used < 3
     THEN /\ used' = used + 1
          /\ toServer' = Append(toServer, PassResp("client", typed[used + 1]))
          /\ client' = IF "client" \in stopping THEN "abort" ELSE "auth"
     ELSE /\ client' = "abort"
          /\ UNCHANGED <<used, toServer>>
  /\ toClient' \in After(toClient, k)
  /\ UNCHANGED <<faults, stopping, serverVars, typed, out, committed, budgets>>

ClientAccept(k) ==
  /\ client = "auth"
  /\ k \in Arriving(toClient)
  /\ toClient[k].from = "server" /\ toClient[k].type = "PASS_ACCEPT"
  /\ client' = IF "client" \in stopping THEN "abort" ELSE "transfer"
  /\ toClient' \in After(toClient, k)
  /\ UNCHANGED <<faults, stopping, serverVars, typed, used, out, committed, toServer,
                 budgets>>

InSequence_NotOld(m) == m.id >= Len(out)
InSequence(m) == m.id = Len(out)

\* DATA in sequence is written.
ClientData(k) ==
  /\ client = "transfer"
  /\ k \in Arriving(toClient)
  /\ LET m == toClient[k] IN
       /\ m.from = "server" /\ m.type = "DATA" /\ InSequence(m)
       /\ out' = Append(out, m.data)
  /\ client' = IF "client" \in stopping THEN "abort" ELSE "transfer"
  /\ toClient' \in After(toClient, k)
  /\ UNCHANGED <<faults, stopping, serverVars, typed, used, committed, toServer, budgets>>

Matches_Unchecked(m) == TRUE
Matches(m) == out = m.digest

\* TERMINATE: the file is renamed into place if its digest is the server's.
ClientTerminate(k) ==
  /\ client = "transfer"
  /\ k \in Arriving(toClient)
  /\ toClient[k].from = "server" /\ toClient[k].type = "TERMINATE"
  /\ IF Matches(toClient[k])
     THEN client' = "ok" /\ committed' = Append(committed, out)
     ELSE client' = "abort" /\ UNCHANGED committed
  /\ toClient' \in After(toClient, k)
  /\ UNCHANGED <<faults, stopping, serverVars, typed, used, out, toServer, budgets>>

\* Everything else ends the client: another peer's packet, one that cannot be
\* parsed, REJECT, DATA out of sequence, and whatever does not belong here.
ClientUnexpected(k) ==
  /\ k \in Arriving(toClient)
  /\ LET m == toClient[k] IN
       \/ client \in {"auth", "transfer"} /\ m.from # "server"
       \/ client = "auth" /\ m.type \notin {"PASS_REQ", "PASS_ACCEPT"}
       \/ client = "transfer" /\ m.type \notin {"DATA", "TERMINATE"}
       \/ client = "transfer" /\ m.type = "DATA" /\ ~InSequence(m)
  /\ client' = "abort"
  /\ toClient' \in After(toClient, k)
  /\ UNCHANGED <<faults, stopping, serverVars, typed, used, out, committed, toServer,
                 budgets>>

ClientTimeout ==
  /\ client \in {"auth", "transfer"}
  /\ \/ "delay" \in faults
     \/ toClient = <<>> /\ server \in Finished
     \/ toClient = <<>> /\ toServer = <<>> /\ server \in {"join", "auth"}
  /\ client' = "abort"
  /\ UNCHANGED <<faults, stopping, serverVars, typed, used, out, committed, toClient,
                 toServer, budgets>>

ClientFails ==
  /\ client \in ClientStates
  /\ \/ "io" \in faults /\ client' = "abort"
     \/ "kill" \in faults /\ client' = "killed"
  /\ UNCHANGED <<faults, stopping, serverVars, typed, used, out, committed, toClient,
                 toServer, budgets>>

(***************************************************************************)
(* Signals, other peers, the network, and the specification.               *)
(***************************************************************************)

\* handle_signal() sets stop_requested; the programs look at it in their loops,
\* and not while they wait for a packet.
Signal(who) ==
  /\ "stop" \in faults
  /\ who \notin stopping
  /\ stopping' = stopping \cup {who}
  /\ UNCHANGED <<faults, serverVars, clientVars, toClient, toServer, budgets>>

OtherSends ==
  /\ "stray" \in faults
  /\ strays < MaxStray
  /\ strays' = strays + 1
  /\ \/ /\ \E m \in {JoinReq("other"), Malformed}
                     \cup {PassResp("other", w) : w \in Passwords} :
             toServer' = Append(toServer, m)
        /\ UNCHANGED toClient
     \/ toClient' = Append(toClient, Malformed) /\ UNCHANGED toServer
  /\ UNCHANGED <<faults, stopping, serverVars, clientVars, lost>>

Lose ==
  /\ "loss" \in faults
  /\ lost < MaxLoss
  /\ lost' = lost + 1
  /\ \/ \E k \in DOMAIN toClient : toClient' = RemoveAt(toClient, k) /\ UNCHANGED toServer
     \/ \E k \in DOMAIN toServer : toServer' = RemoveAt(toServer, k) /\ UNCHANGED toClient
  /\ UNCHANGED <<faults, stopping, serverVars, clientVars, strays>>

\* Both programs have exited.
Exited ==
  /\ server \in Finished /\ client \in Finished
  /\ UNCHANGED vars

ServerReceive(k) ==
  ServerJoin(k) \/ ServerIgnore(k) \/ ServerUnexpected(k) \/ ServerPassword(k)

ClientReceive(k) ==
  \/ ClientAnswer(k) \/ ClientAccept(k) \/ ClientData(k) \/ ClientTerminate(k)
  \/ ClientUnexpected(k)

ServerStep ==
  \/ \E k \in DOMAIN toServer : ServerReceive(k)
  \/ ServerSendData \/ ServerTerminate \/ ServerTimeout

ClientStep ==
  ClientJoin \/ (\E k \in DOMAIN toClient : ClientReceive(k)) \/ ClientTimeout

Next ==
  \/ ServerStep \/ ServerFails \/ ClientStep \/ ClientFails
  \/ \E who \in {"server", "client"} : Signal(who)
  \/ OtherSends \/ Lose \/ Exited

Spec == Init /\ [][Next]_vars

\* Each program keeps running and is scheduled again and again; nothing is
\* assumed of the network, of other peers or of signals.
FairSpec == Spec /\ WF_vars(ServerStep) /\ WF_vars(ClientStep)

(***************************************************************************)
(* Correctness.                                                            *)
(***************************************************************************)
ToClientPackets ==
  [from : {"server"}, type : {"PASS_REQ", "PASS_ACCEPT", "REJECT"}]
    \cup [from : {"server"}, type : {"DATA"}, id : Nat, data : Data]
    \cup [from : {"server"}, type : {"TERMINATE"}, digest : Files]
    \cup {Malformed}

ToServerPackets ==
  [from : Peers, type : {"JOIN_REQ"}] \cup {Malformed}
    \cup [from : Peers, type : {"PASS_RESP"}, word : Passwords]

\* Every variable holds a value of its kind; the attempts of both sides stay
\* within three and the server never sends a chunk the file does not have.
TypeOK ==
  /\ faults \in FaultSets /\ stopping \subseteq {"server", "client"}
  /\ digest \in Files /\ content \in Files
  /\ server \in ServerStates \cup Finished
  /\ peer \in Peers \cup {"none"}
  /\ attempt \in 1..3
  /\ packetId \in 0..Len(content)
  /\ typed \in [1..3 -> Passwords]
  /\ client \in ClientStates \cup Finished
  /\ used \in 0..3
  /\ out \in Seq(Data)
  /\ committed \in Seq(Seq(Data))
  /\ toClient \in Seq(ToClientPackets)
  /\ toServer \in Seq(ToServerPackets)
  /\ lost \in 0..MaxLoss /\ strays \in 0..MaxStray

TypedSecret == \E i \in 1..used : typed[i] = Secret

\* No file goes to a client that has not sent the password: server.c leaves the
\* authentication loop for the transfer only when it has, and client.c never
\* believes itself accepted otherwise, whatever is duplicated or reordered.
TransferOnlyWithSecret ==
  (client \in {"transfer", "ok"} \/ (server \in {"send", "ok"} /\ peer = "client"))
    => TypedSecret

\* As long as nothing is duplicated the two programs agree on the passwords tried:
\* the server's round and the client's count are in step, and REJECT comes only
\* after three passwords of which none was right.
AttemptsInStep ==
  "duplicate" \notin faults =>
    /\ server = "auth" /\ peer = "client" => attempt - 1 <= used /\ used <= attempt
    /\ Control("REJECT") \in Range(toClient) => used = 3 /\ ~TypedSecret

\* What the client has written is a prefix of what the server read: DATA out of
\* sequence ends it.
WritesInSequence == IsPrefix(out, content)

\* The output path is replaced at most once, and only by the file whose digest
\* the server took at its start.
OutputIsWholeFile ==
  /\ committed \in {<<>>, <<digest>>}
  /\ client = "ok" <=> committed # <<>>

\* With nothing disturbing them the programs end as README.md describes: three
\* wrong passwords abort both, a right one among the three delivers the file, and
\* a file that changed after the server's start is refused by the client.
UndisturbedOutcome ==
  faults = {} =>
    <>[] IF Secret \in Range(typed)
         THEN server = "ok" /\ client = (IF content = digest THEN "ok" ELSE "abort")
         ELSE server = "abort" /\ client = "abort"

\* Whatever happens, both programs end: each receive has a timeout, packets of
\* other peers only restart the server's, and nothing is waited for without one.
BothEnd == <>(server \in Finished /\ client \in Finished)

\* server.c:716 ends with "three password attempts failed": REJECT is sent only
\* after the client has sent three passwords.
RejectAfterThreePasswords ==
  Control("REJECT") \in Range(toClient) => used = 3
=============================================================================
