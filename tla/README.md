# Verification of udp-secure-transfer

TLA+ models of the programs in this repository, TLC configurations that check
them on small instances, and TLAPS proofs. This file says what is modelled, how
the models correspond to the code, what the runs show and what is still open.
Paths such as `server.c` are relative to `src/`.

## 1. Inventory

| Part | State it keeps | Operations | Talks to | What is hard |
| --- | --- | --- | --- | --- |
| Reliable UDP transfer (`server.c` 237-360, 433-569; `client.c` 242-411) | server: chunk table with acked, send_count and the three simulation flags, base, next_to_send; client: expected_packet_id, buffered chunks, the `.part` file | fill the window, read feedback, retransmit, TERMINATE; store, NACK, drain, ACK, verify and rename | UDP | loss, duplicates, reordering, late copies, timers racing answers, no acknowledgement of TERMINATE, stop and crash |
| Basic UDP session (`server.c` 575-751, 362-431; `client.c` 420-695) | server: peer, attempt, packet_id, digest; client: attempt, expected_packet_id; both: stop_requested | JOIN, password rounds, DATA, TERMINATE, verify and rename | UDP, signals, the user's passwords | nothing is retransmitted; other peers; the flag is read at loop heads only |
| Packet layer (`protocol.c`) | none | build, parse, send, receive with timeout, read settings | both programs | timeout against signals; lengths that disagree |
| SHA-1 (`sha1_util.c`) | blocks' state, bit count, a partial block | init, update, final, digest of a file | every program | the ends of blocks |
| Logger (`logger.c`) | an open file | write one JSON line | every program; the control server reads the files | partial lines |
| Control server, processes (`control_server.c` 100-485, 1215-1460) | two ChildProc records, ExperimentState | start, stop, reap, send password, collect output, configure, reset | children by pipes and signals, browser by HTTP | output and exit race; kill and reap |
| Control server, logs (`control_server.c` 821-1140, 1659-1713) | offsets of the tails, packet cache | tail, scan, cache, truncate, push | files written by the children, WebSocket clients | a reader and a writer of one file; truncation under a remembered offset |
| Control server, requests (`control_server.c` 1440-1657, 1898-1941) | the connection being served, the WebSocket | accept, read a request, answer, close; read frames | browsers by TCP | one thread; requests and frames in pieces |
| Demo helpers (`demo_util.c`) | the one result, the log | connect, listen, framed send and receive, keys, results | every demo | short reads; connections that end |
| TCP basic and TLS-like demo (`tcp_demo_*.c`) | session keys, sequence numbers, attempts, the `.part` file | handshake, password rounds, records | TCP | exits of the rounds, record verification, resets |
| QUIC-like demo (`quic_demo_*.c`) | peer address, chunk array | handshake, stop-and-wait streams | UDP | no retransmission; changing peer; capped array |
| MQTT demo (`mqtt_demo_*.c`) | the packet identifier | CONNECT, SUBSCRIBE, PUBLISH, repeated PUBREC | TCP | receives that return two packets |
| RADIUS demo (`radius_demo_*.c`) | last authenticator, accounting | PAP or CHAP, replay, accounting | UDP | replay; two reports; other clients |
| SIP demo (`sip_demo_*.c`) | the last Call-ID | REGISTER, INVITE, ACK, BYE | UDP | replay; unacknowledged last messages |
| DNS demo (`dns_demo_*.c`) | none | one query, one or two answers | UDP | the first answer wins |
| HTTP and OAuth 2.0 demos (`http_demo_*.c`, `oauth2_demo_*.c`) | authed, the last code and token | a connection for each request | TCP | state of the process shared by connections |
| WebSocket demo (`websocket_demo_*.c`) | none | upgrade, TEXT, PING, CLOSE | TCP | frames that come with the 101 |
| HTTP/2 demo (`http2_demo_*.c`) | the streams seen | preface, SETTINGS, streams, RST_STREAM | TCP | frame boundaries; skipped streams |
| Web console (`web/`), test driver (`test/`) | user interface | - | control server | not protocol logic |

What makes each part correct: the reliable transfer never confirms what is not
written, never publishes a partial file and completes in spite of losses; the
session serves only a client that knows the password, counts attempts as
documented and always ends; the control server loses no output and leaves no
process behind; the log tail emits each line once; each demo's dialogue reaches
the result its test expects and no other.

`PROJECT.json` lists every component with its status, and under `hazards` the
points of the code where a test would hardly reach the failure.

## 2. Modules

| Module | What it is |
| --- | --- |
| `FileDelivery` | what the reliable transfer promises, without packets: an in-order prefix, confirmed after it is written, published once and only as the announced file |
| `ReliableTransfer` | the udp-reliable transfer: both programs, network, faults |
| `ReliableTransferProofs` | its theorems |
| `MCReliableTransfer` | small instances for TLC |
| `UdpSession` | the basic protocol from JOIN_REQ to the verdicts |
| `UdpSessionProofs` | its theorems |
| `MCUdpSession` | small instances for TLC |
| `ReceiveTimeout` | `recv_packet_timeout` |
| `ControlProcesses` | the control server's children, their pipes, and the loop that serves them |
| `ControlProcessesProofs` | its theorems |
| `MCControlProcesses` | small instances for TLC |
| `ControlLogs` | the control server's log tail and packet records |
| `ControlLogsProofs` | its theorems |
| `MCControlLogs` | small instances for TLC |
| `DemosProofs` | theorems about `ControlRequests` and `ControlWebSocket`, and what all proofs about `Demos` share |
| `TransferProofs` | the theorems about what the demos transfer |
| `ResultsProofs` | the theorems about the demos' types and about what they report |
| `OutcomeProofs` | the theorem about what becomes of undisturbed demos |
| `DemoPrograms` | what the demos have in common: two programs, their channels, their results, the faults |
| `TcpDemo`, `QuicLike`, `MqttDemo`, `RadiusDemo`, `SipDemo`, `DnsDemo`, `WebDemo` (HTTP and OAuth 2.0), `WebSocketDemo`, `Http2Demo` | one protocol each |
| `PacketFormat` | the bytes of packets |
| `Sha1` | SHA-1 of a message in pieces |
| `ControlRequests` | how the control server reads a browser's request |
| `ControlWebSocket` | how it reads frames from a WebSocket |
| `Demos` | the demos and the four modules above as one specification, with the properties |
| `MCDemos` | small instances for TLC |

A definition whose name ends in an underscore and a description
(`Ack_OffByOne`, `Matches_Unchecked`) is the variant of the definition after it
with a plausible mistake; nothing uses it, and the mistake breaks the property
that `PROJECT.json` names beside it.

### ReliableTransfer

It starts where the server has sent PASS_ACCEPT and loaded the chunks.

The server's control state follows the loop of `transfer_file_reliable`: `loop`
(the head), `fill` (the window, one `send_reliable_chunk` per step), `release`
(`release_delayed_chunks` after each of them), the wait for feedback (`fill` with
the window closed), `retransmit`, `terminate`. The interleavings with the client
and the network are between these steps. The chunk table is four sets of
identifiers: `acked`, `sent` (send_count > 0), `held` (reorder_pending), and the
chunks of `ReorderIds` outside `sent` and `held` (reorder_first_send still set).
`drop_first_send` is "not yet sent and in `LossIds`". Timers are abstracted: in
each pass any subset of the outstanding chunks may have waited long enough. An
ACK or NACK may arrive in any wait, and none may.

The client has one action per branch of its receive loop. `ClientData` is the
whole branch: store, NACK, drain, ACK. `ClientTerminate` compares the file with the
digest, acknowledges, and renames. `committed` is the history of the renames onto
the output path.

Files are sequences of chunk contents. A file stands for its SHA-1 digest.
`digest` and `chunks` are chosen independently, because the file is read once for
the digest at start and again when the transfer starts: a file that changed, was
cut, or could not be read to its end gives two different contents.

The network is a set of datagrams per direction, so order is arbitrary; with
"duplicate" a datagram that arrives may stay. `late` puts copies of handshake
packets in flight at the start.

### UdpSession

`UdpSession` has the whole of both `main` functions in basic mode. The three
passwords of the command line are chosen at the start; interactive input differs
only in when the user types them. `stopping` is the set of the programs with
stop_requested set: the actions read it where the code's loops do, so a signal
takes effect after the next packet, or not at all once the last chunk is out. A
network direction is a sequence; it is delivered in order unless the environment
reorders. Another peer may send JOIN_REQ, PASS_RESP or a datagram that
`parse_packet` refuses. The environment is chosen in the initial state from
`FaultSets`, so one run covers a quiet network and the disturbed ones.

### ReceiveTimeout

`ReceiveTimeout` counts ticks through the retry loop around `select`.

### ControlProcesses

`slot` is the three `ChildProc` records, with `pid` 0 for the code's -1; `runSeq`
stands for the flow (`flow_id` is empty exactly when it is 0). `phase` follows the
loop of `main`: `select`, at most one request (`reading` until the browser has sent it, which no
timeout ends, then `request`), then `output`: one read for each
descriptor that `select` reported, in the order of the source (`Turns`), the
WebSocket, and `Reap`. Each handler of `route_api` is one action with all its calls;
the children write and exit between the actions. The handlers wait for nothing but
`stop_child`, whose outcome (ended in time, or killed and possibly never waited for)
is `late`.

Descriptors are modelled with their numbers, in `files`, because the code compares
numbers that `select` returned before a request with those in the slots after it. When
too few are free, `accept` does not return the connection and `pipe` fails.
What a child writes is a sequence of the words the code looks for; stderr carries
nothing but its end. SIGPIPE, which the code does not ignore, is the phase `dead`.
The test runner stands for the script and the program it starts. How many children
there are, what they write, and what fails is chosen at the start from
`Environments`.

`Restart` is a new start of the control server, after SIGPIPE has ended the one before or
somebody has: `main` begins with empty slots and run_seq 0, no descriptor is inherited
(they are all close-on-exec), the logs stay, and the children of before run on as
`orphan`s, which no slot knows and whose lines go on into the same logs.

### ControlLogs

A log is the sequence of its packet lines, and `torn` says that a reader sees only a
part of the last one (the logger flushes whole lines, but a reader is not excluded
while the write is under way). The control server is one thread, but the children write
while it goes from one log to the other; so the tail is two steps (`tailing`) and
`api_packets` is two steps (`scanning`). `main` looks at `ws_fd` once for all logs: when a
send of the first fails, the lines of the second are passed over all the same. The third
log, its own, is read in the same way and left out. `pushed` is a history. The
environments say whether a browser is connected or asks for packets, which are
independent of each other, and what else happens.

### The demos

A demo server and its client are straight lines from receive to receive, so `at[p]` is
the receive in which p waits and one action is all that p does with one message (or
with the failure of the receive) until the next receive. `net[p]` is what is on its
way to p, `mem` a record of the local variables that matter, `results` what
`demo_finish` has printed, and `stopped` the programs whose `stop_requested` is set.
Passwords, digests, MACs, tokens and nonces are what a comparison of them yields; a
file is a sequence of units of which several make a frame or a payload. `original` and
`content` are the two readings of the server's file, as in `ReliableTransfer`. The line
feed that the WebSocket client writes behind each text (`websocket_demo_client.c:292`) is
left out of `written`. The DNS client's output is the summary it writes, in which the
address is not (`dns_demo_client.c:269`).

The initial state picks the protocol, one of its scenarios, the files and the
environment. UDP may lose, duplicate and reorder datagrams, deliver after the receive
timeout, and bring those of another client. TCP delivers in order, but one `recv` may
return what several calls sent ("merge", where a program takes what it gets for one
message), a signal may interrupt any receive or set the flag between receives, an end
with unread data may reset the connection, and a send to a closed end fails or ends the
program with SIGPIPE. "rename" fails the last step of a client. `StreamFaults`, the environments
of TCP, never has "lose", "duplicate" or "reorder" (`DemoFaultsAssumption`): that is what
TCP promises, and the demos over it rely on it.

### PacketFormat, Sha1, ControlRequests and ControlWebSocket

These four are written in the demos' framework, as further protocols of `Demos`
("packet", "sha1", "control" and "frames"): a program that builds or sends bytes, and
one that takes them in pieces.

`PacketFormat` builds a packet, lets other programs' bytes replace, extend or cut it,
and parses it. It has the numbers' bytes as the code does, so that its integers are
those of `protocol.c`; TLC's own are 31 bits wide, which is why its largest byte is
127.

`Sha1` has a digest's state as the sequence of the blocks given to `sha1_transform`,
and bytes of the message as their places. Two bytes of length in a block of eight
stand for eight in sixty-four: like them they are more than one byte, and there are
messages that end before, at and behind the place of the length. That the length field
has a range at all, `256 ^ LengthSize \in Nat \ {0}`, is an assumption
(`LengthAssumption`, which TLC evaluates), as the prover knows nothing of powers.

`ControlRequests` has a request as its numbers of bytes: the head with the empty
line, what its Content-Length says, what follows. Segments arrive between any two
steps, and a `recv` returns any part of what is there up to `HTTP_BUF - 1`. `Verdict`
is `read_http_request` on the first n bytes. An upgrade to a WebSocket counts as an
answer. The browser leaves at last if it waits in vain. That the control server does
nothing else in the meantime is the phase `reading` of `ControlProcesses`.

`ControlWebSocket` has the bytes of masked frames: the first two, two or eight bytes more
of a length that 7 bits do not hold, the mask, the payload. They arrive in pieces of any
size, and since the socket does not block, `recv` returns what is there. The control
server takes two bytes for a header whenever there are some; bytes that are none may say
anything. A browser's control frames are short, as RFC 6455 asks. What the control server
sends is not modelled. `ShortLength` and `MediumLength` stand for 125 and 65535.

## 3. Runs

| Run | Instance | Shows |
| --- | --- | --- |
| `reliable_safety` | files of 3 and 2 chunks, window 2, chunk 0 in the loss list, chunk 2 in the reorder list, all faults, 1 loss | the invariants below and `ImplementsDelivery` |
| `reliable_liveness` | also the empty file, no faults but 2 losses | `TransferCompletes` |
| `reliable_reorder` | `HeldChunkIsOvertaken` is violated | see findings |
| `reliable_orphan` | the processes may be killed; `ServerEnds` is violated | see findings |
| `udp_session` | files of 2 and 1 chunks, two passwords, six environments | the session's invariants, `UndisturbedOutcome`, `BothEnd` |
| `session_reject` | duplicates only; `RejectAfterThreePasswords` is violated | see findings |
| `control_processes` | seven environments: up to three children, two writes, a failing start, browsers, new starts | the invariants below and `ExitNoticed` |
| `control_runner` | two children; `RunnerKeepsPipe` is violated | see findings |
| `control_restart` | two children and new starts of the control server; `FlowOfOneExperiment` is violated | see findings |
| `control_logs` | two packets, one of each direction, logs of two lines, four environments | the invariants below and `HistoryKept` |
| `demo_programs` | every scenario of ten demo protocols; packets with payloads of at most two bytes and two changes; messages of 0 to 20 bytes and of 33, in five sizes of pieces and blocks of eight; nine requests and a buffer of five bytes; two WebSocket frames with payloads of 0, 1, 3 and 5 bytes, of which the 7 bits can say two and two bytes four; six environments of UDP and eight of TCP, two faults | the invariants below and `BothEnd` |
| `receive_timeout` | timeout of 3 ticks, 2 signals; `TotalWithinTimeout` is violated | see findings |

Bounds. With three chunks and a window of two the window closes, moves and
reaches the end of the file, a gap can be one chunk wide in the middle or at the
end, and the file that changed is either longer or shorter than its digest. The
simulation lists reach the first chunk (a loss) and the last (a hold), the two ends
of the loop. One loss suffices for safety because loss only removes behaviour
that delay already allows: a datagram may stay in flight for ever. Two losses in
`reliable_liveness` are the most the protocol survives: TERMINATE is sent three
times, and with a third loss all copies can be lost, so that the client times out
after the server has said OK. That limit is inherent in the code (no
acknowledgement of TERMINATE is waited for). In `udp_session` two chunks and three
passwords from two words cover every order of right and wrong passwords and a DATA
packet that overtakes another. In `control_processes` three children without output
are one in each slot, or restarts of a slot after a stop, an exit or a reset; two
that write once show results and test output of one run beside another's; and one
that writes twice is read in pieces. Fifteen descriptors are more than three
children, a request and a WebSocket can have open at once. In `control_logs` two lines
make a whole line before a torn one, or a packet logged twice on one side; two events
are a restart followed by a truncation, after which a record's packet is in no log.

In `demo_programs` a request's buffer of five bytes is filled exactly, or exceeded, by
a head or a body, and the limit of a body is above it as in the code; two changes of a
packet are a length field and a length that agree again. A payload of three units and four file
lengths give no payload, one, two, and one more than the two that the QUIC client
keeps (256 in the code); three streams of HTTP/2 instead of six are a first, a middle
and a last; two faults are a lost and a repeated message or a stranger twice. A client
has the right password at once, the second time or never. Deadlock is not checked where
programs end (`Demos`) or the control server may die (`ControlProcesses`).

Properties of `ReliableTransfer`: `NothingConfirmedUnwritten` (no acknowledgement
runs ahead of fwrite), `BufferWithinWindow` (the unbounded reorder buffer is
bounded by the peer's window), `NackNamesSentChunk` (a NACK never causes a first
transmission), `NothingHeldWhileWaiting` (the simulation cannot stop the
transfer), `CompleteBeforeTerminate` (TERMINATE and the server's OK imply that the
client has everything), `OutputIsWholeFile` (the output path changes at most once,
to the announced file), `ImplementsDelivery`, `TransferCompletes`.

Properties of `UdpSession`: `TransferOnlyWithSecret`, `AttemptsInStep`,
`WritesInSequence`, `OutputIsWholeFile`, `UndisturbedOutcome`, `BothEnd`.

Properties of `ControlProcesses`: `DescriptorsOwned` (no pipe leaks and none is
used by two slots), `ChildrenInSlots` (the control server forgets no child it has started before that ends),
`FlowAlignsLogs` (the flow aligns the logs of a server and the clients that join it,
and of no other server that the same control server has started; `FlowOfOneExperiment`,
which is violated, leaves that last condition out), `ResultsOfLastRun` (no result of an earlier run is
shown, of a child or of the tests), `ExitNoticed`.

Properties of `ControlLogs`: `PushedOnceInOrder`, `PassedLinesPushed` (the tail does
not pass a line it has not pushed), `OneRecordPerPacket`, `ScannedLinesKept` (every packet
of which a line was scanned has its record, the sender's preferred; a torn line may take the
place of a whole one in it, and is then read again),
`HistoryKept`.

Properties of `Demos`: `TestedOutcome` (undisturbed, each scenario that
`test/run_tests.py` runs ends with the results it expects, and everything delivered that
the programs send; the six scenarios that no test runs, and of which `scenarios.json`
says more than the code does, are `Untested`), `ResultsAgree`
(one result per program, and a client's OK means the server's), `OutputIsWholeFile`,
`TransferOnlyWithSecret`, `WritesInSequence`, `StreamsKept`, `ParsedAsBuilt` (a packet
accepted is one `build_packet` makes of what was parsed), `PaddedInPieces` (the blocks
are those of the padded message, whatever the pieces), `RequestsRead` (a request is
answered only when whole, and dropped only for a reason the code has), `StreamAligned`
(frames are read where they begin, unless a part of one was left behind),
`BothEnd`. Their comments name the cases the code
excepts: they are the code's behaviour, found by TLC, and listed below where they
surprise.

Fairness. `Demos`: each program is scheduled (weak fairness), and a receive that can
return does; nothing is assumed of the network, the strangers and the signals. A
receive or an `accept` over TCP has no timeout, so that a program for which nothing comes
goes on only when a signal does (`OnlySignalEnds`): such steps are not in the fair action,
and `BothEnd` names the runs in which an HTTP or OAuth server waits for ever.
`ControlProcesses`: the loop runs, since select waits a second at most, except while it
reads a request: `RequestArrives` is not fair, and `ExitNoticed` is stated for browsers
that do not stop in the middle of one. Requests and children may never come. `ReliableTransfer!Fairness`: each program keeps running (weak fairness);
the timer of the first outstanding chunk expires again and again (strong, as the
loop polls every 80 ms and the timer is at most 10 s); an ACK that makes progress
and the expected chunk are not for ever passed over in favour of other datagrams
in flight (the sockets are queues, so a datagram that stays in flight is read
eventually). `UdpSession`: weak fairness of each program alone; its runs assume
nothing of the network. Timeouts of a program fire when nothing can arrive any
more, or at any time with "delay".

### Findings

1. The simulated reordering never reorders (`server.c:470`): the release that
   follows each send includes the chunk that has just been held back.
2. A server whose client has gone retransmits for ever (`server.c:463`); the
   documentation promises ABORT on a timeout.
3. A duplicated PASS_RESP uses up an attempt (`server.c:669`), so a client can be
   rejected after one wrong password.
4. A signal restarts the whole receive timeout (`protocol.c:273`), against the
   comment above the loop; the stop flag is not looked at either until a packet
   arrives or the timeout passes.
5. A test run requested just as the server exits can lose its output
   (`control_server.c:1850`): the new pipe has the number of one that `select` found
   readable, and the failing read closes it.
6. After a new start of the control server the flows are numbered from 1 again
   (`control_server.c:1773`) in logs that are appended to, so that one `flow_id` no longer
   names one experiment.
Other things the models made visible, some of them against what a `scenarios.json` or a
comment says. They are named exceptions of a property, or lie at the edge of what is
modelled:

- Clearing the packet records has no lasting effect (`control_server.c:942`): the
  offsets are reset too, and the next request for packets reads the logs again.
- Of a WebSocket frame of 126 bytes or more the control server discards 126 or 127 bytes
  and its mask (`control_server.c:1911`) and reads the rest as headers, against the
  comment "Discard the payload to keep the stream aligned".
- The server of SIP's replay-invite ends with OK after the REGISTER
  (`sip_demo_server.c:282`) and never sees the repeated INVITE, which
  `protocols/sip/scenarios.json` says it detects; `TestedOutcome` excepts it.
- The mask of a PING, or of an empty frame, and what of a frame has not arrived when it is
  read, stays in the socket of the control server's WebSocket and is read as the next
  header (`control_server.c:1913`, 1937); `StreamAligned` excepts it.
- The OAuth 2.0 server never compares the PKCE verifier (`oauth2_demo_server.c:426`),
  against `protocols/oauth2/scenarios.json`, and remembers only the last code it has
  redeemed.
- The HTTP and OAuth 2.0 servers wait in `accept` without a timeout: a client that is
  interrupted between two requests leaves them waiting; `BothEnd` excepts it.
- `protocols/dns/scenarios.json` says that doh-tls goes over HTTP and TCP, and
  `protocols/http2/scenarios.json` that normal has several streams: the one is coded as
  plain UDP (and says so in its log), the other with one stream.
- The DNS client takes the first answer, forged or not; the comment at
  `dns_demo_client.c:255` speaks of the second. What it writes does not tell them apart.
- The QUIC-like client acknowledges chunks it has no room for; stream-reorder fails
  with files longer than one payload.
- The demos do not ignore SIGPIPE (`demo_util.c:136`), nor does the control server.
- The HTTP/2 client reports OK when receives after SETTINGS fail.
- TEXT that arrives with the 101 response is lost (`websocket_demo_server.c:327`).
- A stop during the password rounds of tcp-basic is followed by the transfer
  (`tcp_demo_server.c:379`).
- `HTTP_BUF` is smaller than `HTTP_MAX_BODY`: a body in between gets no answer.
- `websocket_send_text` takes no notice of a send that takes only a part of a message.
- A log that another program empties and that has grown past the remembered offset
  before the next look is not recognised as new (`control_server.c:1670`).
- When the second `pipe()` of a start fails, the first pipe's descriptors stay open
  (`control_server.c:398`).
- Stopping a test run ends `run_tests.sh` but not the program it started
  (`control_server.c:1413`).

## 4. Proofs

`ReliableTransferProofs` proves for all files, windows, simulation lists, fault
sets and loss bounds, from the named assumptions on the constants:

- `TypeCorrect`: `Spec => []TypeOK`;
- `Invariant`: `Spec => []IInv`;
- `AckSafety`, `BufferBound`, `NackSafety`, `NothingHeld`, `Completeness`,
  `OutputSafety`: the six safety invariants of `reliable_safety`;
- `Refinement`: `Spec => ImplementsDelivery`.

None of the six is inductive. `IInv` adds what their preservation needs:
`AckedPrefix` (the acknowledged chunks are exactly those before base),
`SentInWindow` (all chunks before next_to_send have been sent, none beyond it or
the window), `HeldOnlyNext` (only the chunk being sent is held back, and only until
the release), `WrittenPrefix` (base <= expected_packet_id, and the file written so
far is that prefix of the chunks), `BufferedAhead` (what is buffered is ahead, was
sent, and is the chunk's content), `PacketsTruthful` (every datagram in flight says
something that is still true: DATA carries its chunk, an ACK is no higher than
what is written, a NACK names a sent chunk, TERMINATE means base = chunk_count),
`TerminateLast` and `CommittedOnce`. The central step is `IInvClientData`: the
drained chunks extend the written prefix, so the new ACK is true; and a chunk ahead
of a gap proves that the missing one was sent, because chunks are sent in order.
Datagrams only ever become more true, which is why loss, delay, duplication and
reordering need no case of their own beyond `QuietStep`. The refinement follows
from `OutIsPrefix` and one lemma per program.

`UdpSessionProofs` proves for all files, passwords and environments:

- `TypeCorrect`: `Spec => []TypeOK`;
- `Invariant`: `Spec => []IInv`, where `IInv` adds to the type invariant that every
  datagram in flight says something that is still true (`PacketsTruthful`: DATA
  carries the file's chunk of that identifier, TERMINATE the digest, and PASS_ACCEPT
  was sent after the right password), that the client writes a prefix of the
  file (`WrittenPrefix`), and that the output is the whole file;
- `SecretSafety`, `SequenceSafety`, `OutputSafety`: three invariants of `udp_session`,
  which follow from it;
- `Turns` and `AttemptsSafety`: as long as no datagram is duplicated the right to move
  is a token, held by at most one PASS_REQ or PASS_RESP in flight, so that the
  server's round and the client's count stay in step. The lemmas `AppendTokens` and
  `RemoveTokens` say what sending and receiving do to the number of tokens.

`ControlProcessesProofs` proves for any number of descriptors and for all environments,
that is any number of children, of words they write, of failing starts and of new starts
of the control server:

- `TypeCorrect`: `Spec => []TypeOK`;
- `Invariant`: `Spec => []IInv`;
- `NoDescriptorLeaks`, `NoChildForgotten`, `ResultsCurrent`, `FlowAligned`: the four
  safety invariants of `control_processes`.

None of the four is inductive. To `DescriptorsOwned` the invariant adds that a slot does
not have one descriptor in two fields and that two slots do not have one process
(`FieldsDiffer`, `PidsDiffer`): else closing a field would close another. To
`ChildrenInSlots` it adds that a slot holds the last process of its kind
(`ChildrenInv`), so that a start forgets none, and that no slot knows an orphan; to the
flow, that no server in the logs but an orphan has a flow above `runSeq` and the server in
its slot has just that one (`FlowInv`), so that the next flow is new; to the results, that what is unread has been written and that
what the last runner has written is the results followed by the unread (`ResultsInv`);
and that a descriptor is free while a request is served (`Connectable`), since `accept`
has got one. A handler does several of these things in a row (`RunTests` stops two
children and starts a third). The parts are therefore predicates of any slots,
processes and table, and there is a lemma for each helper of the code: `DropKeepsOwned`
and `EmptyingKeeps` for the closings, `PipesOpen` and `StartedKeeps` for `start_child`,
`PipesLost` for its failure, `ResultRead`, `ResultsAppended` and `WordWritten` for the
reads and writes. That several openings in a row return different free descriptors is
`NthFreeProperties`, by the least number with a given count of free ones below it.

`ControlLogsProofs` proves for logs of any length, any number of packets and all
environments:

- `TypeCorrect`, `Invariant`;
- `TailOrder`, `TailComplete`: the two invariants of the log tail;
- `RecordsUnique`, `ScansKept`: the two invariants of the packet records;
- `RecordsSurvive`: the action property `HistoryKept`.

For the tail the invariant adds `PushedBehindTail`: whatever has been pushed lies before
the offset, so that the next push starts behind it. For the records it adds
`CacheCovers` (the cache knows every packet of a scanned line), `CacheTruthful` (a line
in the cache is of its side, and a torn one will be read again), `RecordsFollowCache` and
`TornRecords`, which say the same of the records between two requests: `api_packets`
rewrites all records at each request, from the cache and from the records of packets the
cache does not know, so a line that was scanned stays recorded only because the cache
still knows it.

`DemosProofs`, `TransferProofs`, `ResultsProofs` and `OutcomeProofs` are about `Demos`, for files of any
length, any passwords and all environments. A behaviour keeps its protocol
(`SettingsKept`), so each protocol has an inductive invariant of its own, and a theorem
about several of them combines theirs.

- `RequestsWhole` (`RequestsRead`): the invariant `RequestInv` adds that never more is read
  than the buffer holds, and that the server has ended when the outcome is settled.
- `HeadersAligned` (`StreamAligned`): what is in the socket is whole frames, one after the
  other (`Framed`), which a further frame and the removal of the first one preserve
  (`FramedGrows`, `FramedShrinks`), however much of them has arrived. What is read with a
  header is its frame (`FrameIs`, `FrameTaken`) unless one of the four reasons of
  `mem.left` holds; each of the four is reachable.
- `PacketsReadAsBuilt` (`ParsedAsBuilt`): `PacketInv` says that what is on its way is bytes
  that a program can send, and that what has been parsed is `Parse` of what was received.
  The rest is about `Parse`: a number of four bytes is a sum of digits, which determines
  them (`%` and `\div` are met in those lemmas only), so that building again what was
  parsed gives the same bytes, field after field, and the length fields leave nothing
  behind them.
- `DigestsPadded` (`PaddedInPieces`): `DigestInv` says that the blocks already transformed,
  the buffer and the rest of the piece, one behind the other (`DigestDone`), begin the
  padded message (`Begins`), and how long they are at each stage. What `FlattenSeq` makes
  of one more block is the one fact about the fold that this needs; it is proved from its
  definition by the least counterexample, as the induction theorems are out of reach.
- `TcpInvariant`: `TcpInv` is the invariant of tcp-basic and tls-like. `TurnInv` says whose
  turn it is in the password rounds (one request or answer on its way, and the count that
  goes with it); `SecretInv` who has been let in, and that no FINISHED comes from a client
  that was not; `SequenceInv` that behind the message that opens the transfer come the
  units not yet in the client's file, in order; `OutputInv` what has been announced and
  published. A signal may take the client out of the rounds early; the cases that it makes
  are why `TurnInv` speaks of the whole channel and not of its first message only.
- `WrittenInOrder` (`WritesInSequence`): from `TcpInv`, and `H2Inv` for HTTP/2, in which
  the numbers of the streams on their way ascend beyond those the client has written
  (`Numbered`).
- `NothingWithoutSecret` (`TransferOnlyWithSecret`): from `TcpInv`, `HttpInv` (without the
  password nothing in the channels or in the server's memory says it was given) and
  `WsInv`.
- `AcknowledgedIsStored` (`StreamsKept`): `QuicInv` says that what is on its way is
  `Sound` (a STREAM has its part of the file, a CLOSE the digest), and that an ACK names a
  stream that is `Stored`. The chunk array only grows, so an ACK stays true whatever
  happens to the datagram.
- `PublishedIsWhole` (`OutputIsWholeFile`): from `TcpInv`, `QuicInv` and `WsInv`, which says
  that behind the answer to the Upgrade come the units that the client has not got, then
  PING and CLOSE (`Follows`), so that all of them precede the CLOSE that makes the client
  print OK. The other protocols publish nothing (`UnpublishedInv`).
- `ResultsConsistent` (`ResultsAgree`): that no program reports both a success and a failure
  is `ReportedOnce`, which every step of every program keeps (`ReportIs`), since a program
  reports in the step in which it ends; the RADIUS server's two reports agree because of
  `RadiusInv`. That a client's OK means the server's has a reason that differs with the
  protocol, and so an invariant for each reason. `ClosedInv`: the last message to the client
  (a CLOSE, a TERMINATE, a 201, an answer of DNS, an answer to REGISTER) is only on its way
  when the server has printed OK. `RadiusInv`: an accept that is on its way has set
  the server's `rc`, which is its result in the end. `OauthInv`: there
  is one request of the client's or one answer, and a 200 to the refresh request means OK.
  `MqttInv`: without a signal and with one packet to a recv the two programs are in step,
  and a server whose client has gone has PUBLISH and DISCONNECT still to read. `H2AgreeInv`: the
  client has taken as many frames as it has streams to, HEADERS and DATA in turn
  (`H2InTurn`), the server has as many requests to read as it has not answered
  (`H2Requests`), and so no request is left to break on when the client ends with OK.
  `SilentInv`: the client of SIP's replay-invite never prints OK.
- `TypesKept` (`TypeOK`): what `TypeOK` says of the counts is not inductive. `QuicTyped` adds
  that every STREAM on its way and every chunk carries units of the file, so that `written`,
  which is the chunks sorted and joined, does too (`SortedTyped`, `AssembledTyped`);
  `H2Typed` that the requests on their way are for streams that the server has not begun,
  in order (`H2Asking`), so that it answers no more than the scenario has;
  `RequestTyped` that the bytes read and those in the socket are those sent; `WebTyped` how
  far the script and the server are, whoever has asked. The rest is in the invariants above.
- `RunsAsTested` (`TestedOutcome`): in an undisturbed run (`Calm`) the two programs of each
  protocol go through stages together, each with what is on its way between them: `DnsRun`,
  `MqttRun`, `RadiusRun`, `SipRun`, `WebRun`, `WsRun`, `TcpRun`, `H2Run`, `QuicRun`. With
  nothing lost, late or interrupted a receive fails only when the other program has ended
  and all is read (`CalmReceives`), so every step leads to the next stage, and a program
  that ends reports what is foretold (`Foretold`): OK when the client is to be let in and
  the scenario is to succeed, else ABORT. What is delivered then follows from the invariants
  above.

Only model-checked:

- the liveness properties and `ExitNoticed`: fairness and ENABLED are beyond the prover.

## 5. Not modelled, and the plan

Left out of the models: the log lines' wording; the arithmetic of `sha1_transform`; the
static files, JSON values and answers of the control server; connection identifiers of
the QUIC-like demo and frame sizes of HTTP/2 beyond the tests the code makes; the
interactive prompts; what a failed client had written (its `.part` file is removed);
the `.part` file a killed client leaves behind; 32-bit packet identifiers (a file
would need four terabytes to wrap them); the web console and the test driver.

Next, in this order:

1. The frames the control server sends to a browser, with partial sends.
2. The third log of the tail, the control server's own.
