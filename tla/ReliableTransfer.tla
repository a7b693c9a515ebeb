-------------------------- MODULE ReliableTransfer --------------------------
(***************************************************************************)
(* The udp-reliable file transfer: transfer_file_reliable of server.c with *)
(* its chunk table, transfer_file_reliable of client.c with its reorder    *)
(* buffer, and the UDP network between them, from the moment the server    *)
(* has sent PASS_ACCEPT.                                                   *)
(*                                                                         *)
(* A network direction is the set of the datagrams in flight: they arrive  *)
(* in any order, one that arrives may stay in flight (a duplicate), and    *)
(* Lose takes one away.  UDP_SECURE_RELIABLE_DUP_IDS sends a chunk twice,  *)
(* which is such a duplicate.  A chunk's identifier i names chunks[i + 1]. *)
(* The digest of a file stands for the file: two files with the same SHA-1 *)
(* are not told apart by the program either.                               *)
(***************************************************************************)
EXTENDS Integers, Sequences, FiniteSets

CONSTANTS Data,        \* what one chunk can contain
          Files,       \* the contents the input file can have
          Window,      \* env_reliable_window_size()
          LossIds,     \* UDP_SECURE_RELIABLE_LOSS_IDS
          ReorderIds,  \* UDP_SECURE_RELIABLE_REORDER_IDS
          Faults,      \* what the environment may do, see FaultKinds
          MaxLoss      \* how many datagrams the network may lose

(***************************************************************************)
(* "duplicate": a datagram may arrive more than once.  "delay": it may     *)
(* take longer than the client's receive timeout.  "late": copies of       *)
(* handshake packets may still be in flight.  "stray": datagrams of other  *)
(* peers or malformed ones arrive.  "stop": SIGINT or SIGTERM.  "kill":    *)
(* SIGKILL.  "io": a system call (sendto, fwrite, rename...) fails.        *)
(***************************************************************************)
FaultKinds == {"duplicate", "delay", "late", "stray", "stop", "kill", "io"}

ASSUME FilesAssumption == Files \subseteq Seq(Data)
ASSUME WindowAssumption == Window \in Nat \ {0}
ASSUME IdsAssumption == LossIds \subseteq Nat /\ ReorderIds \subseteq Nat
ASSUME EnvironmentAssumption == Faults \subseteq FaultKinds /\ MaxLoss \in Nat

VARIABLES
  \* the server
  digest,    \* the contents sha1_file() saw when the server started
  chunks,    \* the contents load_reliable_chunks() read later
  server,    \* where it is: see ServerStates
  base,      \* chunks before base are acknowledged
  next,      \* next_to_send
  acked,     \* the chunks with acked set
  sent,      \* the chunks with send_count > 0
  held,      \* the chunks with reorder_pending set
  terms,     \* terminate_sent
  \* the client
  client,    \* where it is: see ClientStates
  expected,  \* expected_packet_id
  buffered,  \* identifier -> contents of the chunks that are present
  out,       \* what has been written to the temporary file
  committed, \* the contents renamed onto the output path, in order
  \* the network
  toClient, toServer, lost

serverVars == <<digest, chunks, server, base, next, acked, sent, held, terms>>
clientVars == <<client, expected, buffered, out, committed>>
vars == <<digest, chunks, server, base, next, acked, sent, held, terms,
          client, expected, buffered, out, committed, toClient, toServer, lost>>

ServerStates == {"loop", "fill", "release", "retransmit", "terminate"}
ClientStates == {"auth", "transfer"}
Finished == {"ok", "abort", "killed"}

Count == Len(chunks)
ChunkIds == 0..(Count - 1)

(***************************************************************************)
(* Packets.                                                                *)
(***************************************************************************)
DataPacket(i) == [type |-> "DATA", id |-> i, data |-> chunks[i + 1]]
Terminate(k) == [type |-> "TERMINATE", copy |-> k, digest |-> digest]
Ack_OffByOne(n) == [type |-> "ACK", id |-> n + 1]
Ack(n) == [type |-> "ACK", id |-> n]
Nack(n) == [type |-> "NACK", id |-> n]
PassAccept == [type |-> "PASS_ACCEPT"]
PassReq == [type |-> "PASS_REQ"]
PassResp == [type |-> "PASS_RESP"]
JoinReq == [type |-> "JOIN_REQ"]

\* A datagram m that arrives leaves the network, or a duplicate of it stays.
After(channel, m) ==
  {channel \ {m}} \cup (IF "duplicate" \in Faults THEN {channel} ELSE {})

Init ==
  /\ digest \in Files
  /\ chunks \in Files      \* the file may have changed since sha1_file()
  /\ server = "loop"
  /\ base = 0 /\ next = 0
  /\ acked = {} /\ sent = {} /\ held = {}
  /\ terms = 0
  /\ client = "auth"
  /\ expected = 0
  /\ buffered = [i \in {} |-> i]   \* nothing is present
  /\ out = <<>>
  /\ committed = <<>>
  /\ \E late \in SUBSET {PassReq} :
        /\ late # {} => "late" \in Faults
        /\ toClient = late \cup {PassAccept}
  /\ \E late \in SUBSET {PassResp, JoinReq} :
        /\ late # {} => "late" \in Faults
        /\ toServer = late
  /\ lost = 0

(***************************************************************************)
(* The server.                                                             *)
(***************************************************************************)

\* The loop goes on while a chunk is not acknowledged.
Unfinished_Unsent == next < Count
Unfinished == base < Count

\* The loop's head: while (!stop_requested && base < chunk_count).
ServerLoop ==
  /\ server = "loop"
  /\ server' = IF Unfinished THEN "fill" ELSE "terminate"
  /\ UNCHANGED <<digest, chunks, base, next, acked, sent, held, terms,
                 clientVars, toClient, toServer, lost>>

ServerStop ==
  /\ "stop" \in Faults
  /\ server = "loop"
  /\ server' = "abort"
  /\ UNCHANGED <<digest, chunks, base, next, acked, sent, held, terms,
                 clientVars, toClient, toServer, lost>>

\* send_reliable_chunk holds a chunk back when it is about to be sent for the
\* first time and its reorder_first_send flag has not been used.
HoldsBack(i) == i \in ReorderIds \ (sent \cup held)

\* The DATA packets that sending the chunks I puts on the wire: the first
\* transmission of a chunk of LossIds is dropped.
OnWire(I) == {DataPacket(i) : i \in {j \in I : j \in sent \/ j \notin LossIds}}

\* send_reliable_chunk on each chunk of I, none of which is held back.
Send(I) ==
  /\ sent' = sent \cup I
  /\ toClient' = toClient \cup OnWire(I)

\* send_reliable_chunk(chunks[i]).
SendOrHold(i) ==
  IF HoldsBack(i)
  THEN held' = held \cup {i} /\ UNCHANGED <<sent, toClient>>
  ELSE Send({i}) /\ UNCHANGED held

WindowOpen_OneMore == next < Count /\ next <= base + Window
WindowOpen == next < Count /\ next < base + Window

\* The window has room: the next chunk is sent, or held back.
ServerFill ==
  /\ server = "fill"
  /\ WindowOpen
  /\ SendOrHold(next)
  /\ server' = "release"
  /\ UNCHANGED <<digest, chunks, base, next, acked, terms, clientVars, toServer, lost>>

\* The chunks release_delayed_chunks(chunks, next_to_send + 1) looks at.
Releasable_Overtaken == {i \in held : i < next /\ i \notin acked}
Releasable == {i \in held : i < next + 1 /\ i \notin acked}

ServerRelease ==
  /\ server = "release"
  /\ held' = held \ Releasable
  /\ Send(Releasable)
  /\ next' = next + 1
  /\ server' = "fill"
  /\ UNCHANGED <<digest, chunks, base, acked, terms, clientVars, toServer, lost>>

AwaitsFeedback == server = "fill" /\ ~WindowOpen

\* base advances over the chunks that are acknowledged.
Advanced(b, marked) ==
  /\ b \in base..Count
  /\ base..(b - 1) \subseteq marked
  /\ b < Count => b \notin marked

ServerReceiveAck(m) ==
  /\ AwaitsFeedback
  /\ m \in toServer /\ m.type = "ACK"
  /\ LET upto == IF m.id > Count THEN Count ELSE m.id
     IN  acked' = acked \cup base..(upto - 1)
  /\ \E b \in base..Count : Advanced(b, acked') /\ base' = b
  /\ server' = "retransmit"
  /\ toServer' \in After(toServer, m)
  /\ UNCHANGED <<digest, chunks, next, sent, held, terms, clientVars, toClient, lost>>

ServerReceiveNack(m) ==
  /\ AwaitsFeedback
  /\ m \in toServer /\ m.type = "NACK"
  /\ IF m.id < Count /\ m.id \notin acked
     THEN SendOrHold(m.id)
     ELSE UNCHANGED <<sent, held, toClient>>
  /\ server' = "retransmit"
  /\ toServer' \in After(toServer, m)
  /\ UNCHANGED <<digest, chunks, base, next, acked, terms, clientVars, lost>>

\* A packet of another type is logged and ignored.
ServerIgnore(m) ==
  /\ AwaitsFeedback
  /\ m \in toServer /\ m.type \notin {"ACK", "NACK"}
  /\ server' = "retransmit"
  /\ toServer' \in After(toServer, m)
  /\ UNCHANGED <<digest, chunks, base, next, acked, sent, held, terms, clientVars,
                 toClient, lost>>

\* No feedback within 80 ms, or a packet of another peer, which is ignored.
ServerNoFeedback ==
  /\ AwaitsFeedback
  /\ server' = "retransmit"
  /\ UNCHANGED <<digest, chunks, base, next, acked, sent, held, terms, clientVars,
                 toClient, toServer, lost>>

Outstanding == {i \in base..(next - 1) : i \notin acked \cup held /\ i \in sent}

\* The chunks of I have waited for retransmit_timeout.
ServerRetransmit(I) ==
  /\ server = "retransmit"
  /\ I \subseteq Outstanding
  /\ Send(I)
  /\ server' = "loop"
  /\ UNCHANGED <<digest, chunks, base, next, acked, held, terms, clientVars,
                 toServer, lost>>

TerminateCopies_Two == 2
TerminateCopies_Four == 4
TerminateCopies == 3

\* TERMINATE goes out three times; nothing waits for its acknowledgement.
ServerTerminate ==
  /\ server = "terminate"
  /\ IF terms < TerminateCopies
     THEN /\ toClient' = toClient \cup {Terminate(terms)}
          /\ terms' = terms + 1
          /\ UNCHANGED server
     ELSE /\ server' = "ok"
          /\ UNCHANGED <<toClient, terms>>
  /\ UNCHANGED <<digest, chunks, base, next, acked, sent, held, clientVars,
                 toServer, lost>>

\* The input file cannot be opened, sendto() fails, or the feedback that arrives
\* cannot be parsed.
ServerFails ==
  /\ \/ "io" \in Faults /\ server \in ServerStates
     \/ "stray" \in Faults /\ AwaitsFeedback
  /\ server' = "abort"
  /\ UNCHANGED <<digest, chunks, base, next, acked, sent, held, terms, clientVars,
                 toClient, toServer, lost>>

ServerKilled ==
  /\ "kill" \in Faults
  /\ server \notin Finished
  /\ server' = "killed"
  /\ UNCHANGED <<digest, chunks, base, next, acked, sent, held, terms, clientVars,
                 toClient, toServer, lost>>

(***************************************************************************)
(* The client.                                                             *)
(***************************************************************************)

\* The authentication loop ends.
ClientAccept(m) ==
  /\ client = "auth"
  /\ m \in toClient /\ m.type = "PASS_ACCEPT"
  /\ client' = "transfer"
  /\ toClient' \in After(toClient, m)
  /\ UNCHANGED <<serverVars, expected, buffered, out, committed, toServer, lost>>

\* A late PASS_REQ is answered, unless the passwords are used up.
ClientAnswer(m) ==
  /\ client = "auth"
  /\ m \in toClient /\ m.type = "PASS_REQ"
  /\ \/ toServer' = toServer \cup {PassResp} /\ UNCHANGED client
     \/ client' = "abort" /\ UNCHANGED toServer
  /\ toClient' \in After(toClient, m)
  /\ UNCHANGED <<serverVars, expected, buffered, out, committed, lost>>

\* Any other packet ends the client: in the authentication loop everything that
\* is neither PASS_REQ nor PASS_ACCEPT, in the transfer everything that is
\* neither DATA nor TERMINATE.
ClientUnexpected(m) ==
  /\ m \in toClient
  /\ \/ client = "auth" /\ m.type \notin {"PASS_REQ", "PASS_ACCEPT"}
     \/ client = "transfer" /\ m.type \notin {"DATA", "TERMINATE"}
  /\ client' = "abort"
  /\ toClient' \in After(toClient, m)
  /\ UNCHANGED <<serverVars, expected, buffered, out, committed, toServer, lost>>

\* DATA the client has already written: it acknowledges again.
ClientDuplicate(m) ==
  /\ client = "transfer"
  /\ m \in toClient /\ m.type = "DATA" /\ m.id < expected
  /\ toServer' = toServer \cup {Ack(expected)}
  /\ toClient' \in After(toClient, m)
  /\ UNCHANGED <<serverVars, client, expected, buffered, out, committed, lost>>

\* buffered with m stored, unless its place is taken.
Stored(m) ==
  [i \in DOMAIN buffered \cup {m.id} |->
     IF i \in DOMAIN buffered THEN buffered[i] ELSE m.data]

\* The first chunk after expected that is not present.
Drained(present, upto) ==
  /\ expected <= upto
  /\ expected..(upto - 1) \subseteq present
  /\ upto \notin present

\* The chunk a NACK asks for when m leaves a gap.
Missing_Successor(m) == m.id + 1
Missing(m) == expected

\* DATA the client still needs: stored, a NACK if it leaves a gap, every chunk
\* that is now in order written, and the cumulative ACK.
ClientData(m) ==
  /\ client = "transfer"
  /\ m \in toClient /\ m.type = "DATA" /\ m.id >= expected
  /\ \E upto \in {expected} \cup {i + 1 : i \in DOMAIN Stored(m)} :
        /\ Drained(DOMAIN Stored(m), upto)
        /\ out' = out \o [k \in 1..(upto - expected) |-> Stored(m)[expected + k - 1]]
        /\ buffered' = [i \in DOMAIN Stored(m) \ (expected..(upto - 1)) |-> Stored(m)[i]]
        /\ expected' = upto
        /\ toServer' = toServer \cup {Ack(upto)}
             \cup (IF m.id > expected THEN {Nack(Missing(m))} ELSE {})
  /\ toClient' \in After(toClient, m)
  /\ UNCHANGED <<serverVars, client, committed, lost>>

Matches_Unchecked(m) == TRUE
Matches(m) == out = m.digest

\* TERMINATE: the temporary file's digest is compared with the server's, an
\* ACK goes out whatever the outcome, and a match is renamed into place (the
\* rename may fail).
ClientTerminate(m) ==
  /\ client = "transfer"
  /\ m \in toClient /\ m.type = "TERMINATE"
  /\ toServer' = toServer \cup {Ack(expected)}
  /\ \/ /\ Matches(m)
        /\ client' = "ok"
        /\ committed' = Append(committed, out)
     \/ /\ ~Matches(m) \/ "io" \in Faults
        /\ client' = "abort"
        /\ UNCHANGED committed
  /\ toClient' \in After(toClient, m)
  /\ UNCHANGED <<serverVars, expected, buffered, out, lost>>

\* Nothing is in flight and nothing more will be sent.
Quiet == toClient = {} /\ server \in Finished

\* No packet within UDP_SECURE_TIMEOUT_MS.
ClientTimeout ==
  /\ client \in ClientStates
  /\ "delay" \in Faults \/ Quiet
  /\ client' = "abort"
  /\ UNCHANGED <<serverVars, expected, buffered, out, committed, toClient, toServer, lost>>

\* A signal, a packet of another peer or a malformed one, or a failing system
\* call.  What was written and not acknowledged before it does not matter: the
\* temporary file is removed.
ClientFails ==
  /\ client \in ClientStates
  /\ Faults \cap {"stop", "stray", "io"} # {}
  /\ client' = "abort"
  /\ UNCHANGED <<serverVars, expected, buffered, out, committed, toClient, toServer, lost>>

ClientKilled ==
  /\ "kill" \in Faults
  /\ client \in ClientStates
  /\ client' = "killed"
  /\ UNCHANGED <<serverVars, expected, buffered, out, committed, toClient, toServer, lost>>

(***************************************************************************)
(* The network and the specification.                                      *)
(***************************************************************************)
Lose ==
  /\ lost < MaxLoss
  /\ lost' = lost + 1
  /\ \/ \E m \in toClient : toClient' = toClient \ {m} /\ UNCHANGED toServer
     \/ \E m \in toServer : toServer' = toServer \ {m} /\ UNCHANGED toClient
  /\ UNCHANGED <<serverVars, clientVars>>

\* Both programs have exited.
Exited ==
  /\ server \in Finished /\ client \in Finished
  /\ UNCHANGED vars

ServerFeedback(m) == ServerReceiveAck(m) \/ ServerReceiveNack(m) \/ ServerIgnore(m)

ServerStep ==
  \/ ServerLoop \/ ServerFill \/ ServerRelease \/ ServerNoFeedback \/ ServerTerminate
  \/ \E I \in SUBSET Outstanding : ServerRetransmit(I)

ClientReceive(m) ==
  \/ ClientAccept(m) \/ ClientAnswer(m) \/ ClientUnexpected(m)
  \/ ClientDuplicate(m) \/ ClientData(m) \/ ClientTerminate(m)

Next ==
  \/ ServerStep
  \/ \E m \in toServer : ServerFeedback(m)
  \/ ServerStop \/ ServerFails \/ ServerKilled
  \/ \E m \in toClient : ClientReceive(m)
  \/ ClientTimeout \/ ClientFails \/ ClientKilled
  \/ Lose
  \/ Exited

Spec == Init /\ [][Next]_vars

(***************************************************************************)
(* Fairness.  Each program keeps running; the network delivers what it     *)
(* does not lose; an outstanding chunk's timer expires again and again.    *)
(***************************************************************************)
RetransmitsBase == \E I \in SUBSET Outstanding : base \in I /\ ServerRetransmit(I)
HearsProgress ==
  \E m \in toServer : ServerReceiveAck(m) /\ base' > base
HearsExpected ==
  \E m \in toClient : ClientData(m) /\ expected' > expected

Fairness ==
  /\ WF_vars(ServerStep)
  /\ SF_vars(RetransmitsBase)
  /\ SF_vars(HearsProgress)
  /\ WF_vars(\E m \in toClient : ClientReceive(m))
  /\ WF_vars(HearsExpected)
  /\ WF_vars(ClientTimeout)

FairSpec == Spec /\ Fairness

(***************************************************************************)
(* Correctness.                                                            *)
(***************************************************************************)
ToClientPackets ==
  [type : {"DATA"}, id : ChunkIds, data : Data]
    \cup [type : {"TERMINATE"}, copy : 0..2, digest : Files]
    \cup {PassAccept, PassReq}

ToServerPackets ==
  [type : {"ACK", "NACK"}, id : Nat] \cup {PassResp, JoinReq}

\* Every variable holds a value of its kind.
TypeOK ==
  /\ digest \in Files /\ chunks \in Files
  /\ server \in ServerStates \cup Finished
  /\ base \in 0..Count /\ next \in Nat
  /\ acked \subseteq ChunkIds /\ sent \subseteq ChunkIds /\ held \subseteq ChunkIds
  /\ terms \in 0..3
  /\ client \in ClientStates \cup Finished
  /\ expected \in Nat
  /\ DOMAIN buffered \subseteq ChunkIds
  /\ \A i \in DOMAIN buffered : buffered[i] \in Data
  /\ out \in Seq(Data)
  /\ committed \in Seq(Seq(Data))
  /\ toClient \subseteq ToClientPackets
  /\ toServer \subseteq ToServerPackets
  /\ lost \in 0..MaxLoss

\* A chunk the server counts as acknowledged, or is about to because an ACK
\* for it is in flight, has been written by the client: client.c acknowledges
\* after fwrite, and server.c advances base on nothing else.
NothingConfirmedUnwritten ==
  /\ \A i \in acked : i < expected
  /\ \A m \in toServer : m.type = "ACK" => m.id <= expected

\* The client's buffer has no bound of its own (ensure_buffer_capacity grows it
\* to whatever identifier arrives): it is the server's window that keeps it to
\* the Window - 1 chunks after the one the client waits for.
BufferWithinWindow ==
  DOMAIN buffered \subseteq (expected + 1)..(expected + Window - 1)

\* A NACK names a chunk that has been sent, so that the answer to it is always a
\* retransmission and never the first transmission of a chunk outside the window.
NackNamesSentChunk ==
  \A m \in toServer : m.type = "NACK" => m.id \in sent

\* While the server waits for feedback no chunk is held back: the retransmission
\* loop skips a chunk whose reorder_pending is set, so one that stayed held
\* would stop the transfer.
NothingHeldWhileWaiting == AwaitsFeedback => held = {}

\* When TERMINATE is in flight, or the server has said OK, the client has written
\* every chunk: a digest mismatch can only mean that the input file changed under
\* the server, and the server's OK is not premature.
CompleteBeforeTerminate ==
  server = "ok" \/ (\E m \in toClient : m.type = "TERMINATE") => out = chunks

\* The output path is replaced at most once, and only by the file whose digest
\* the server took at its start; whatever else happens it is left as it was.
OutputIsWholeFile == committed \in {<<>>, <<digest>>}

(***************************************************************************)
(* The inductive invariant behind them.                                    *)
(***************************************************************************)
AckedPrefix == acked = 0..(base - 1)

\* The chunks before next have all been sent.  Only the next one can be between
\* send_reliable_chunk and the release of the held ones, and then the window is
\* open for it.
SentInWindow ==
  /\ base <= next /\ next <= Count
  /\ 0..(next - 1) \subseteq sent
  /\ \A i \in sent : i <= next /\ i < base + Window
  /\ server \in ServerStates \ {"release"} => next \notin sent
  /\ server = "release" => WindowOpen /\ next \in sent \cup held

HeldOnlyNext ==
  /\ server \in ServerStates \ {"release"} => held = {}
  /\ server = "release" => held \subseteq {next}

WrittenPrefix ==
  /\ base <= expected /\ expected <= Count
  /\ Len(out) = expected
  /\ \A i \in 0..(expected - 1) : i \in sent /\ out[i + 1] = chunks[i + 1]

BufferedAhead ==
  \A i \in DOMAIN buffered : i > expected /\ i \in sent /\ buffered[i] = chunks[i + 1]

PacketsTruthful ==
  /\ \A m \in toClient :
        /\ m.type = "DATA" => m.id \in sent /\ m.data = chunks[m.id + 1]
        /\ m.type = "TERMINATE" => m.digest = digest /\ base = Count
  /\ \A m \in toServer :
        /\ m.type = "ACK" => m.id <= expected
        /\ m.type = "NACK" => m.id \in sent

TerminateLast == server \in {"terminate", "ok"} => base = Count

CommittedOnce ==
  /\ OutputIsWholeFile
  /\ client \in ClientStates => committed = <<>>

IInv == /\ AckedPrefix /\ SentInWindow /\ HeldOnlyNext /\ WrittenPrefix
        /\ BufferedAhead /\ PacketsTruthful /\ TerminateLast /\ CommittedOnce

\* The transfer implements FileDelivery.
Verdict(state, running) ==
  IF state \in running THEN "running" ELSE IF state = "ok" THEN "ok" ELSE "failed"

Delivery == INSTANCE FileDelivery WITH
  promised <- digest, source <- chunks, confirmed <- base,
  sender <- Verdict(server, ServerStates), received <- out,
  receiver <- Verdict(client, ClientStates), published <- committed

ImplementsDelivery == Delivery!Spec

\* Without faults, and with at most MaxLoss = 2 datagrams lost, a client that has
\* been accepted gets an unchanged file, and both programs say OK.
TransferCompletes ==
  client = "transfer" /\ chunks = digest ~> client = "ok" /\ server = "ok"

\* server.c:304 logs "held packet for first-send reordering" and README.md:36
\* promises simulated reordering: a chunk held back is overtaken by a later one.
HeldChunkIsOvertaken ==
  [][\A i \in ReorderIds \cap 0..(Count - 2) :
        i \in sent' \ sent => \E j \in sent : j > i]_vars

\* README.md:164: a program that waits too long prints ABORT, so that it ends.
ServerEnds == <>(server \in Finished)
=============================================================================
