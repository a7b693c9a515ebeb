----------------------------- MODULE ControlLogs -----------------------------
(***************************************************************************)
(* The control server's view of the logs (control_server.c): push_log_tail *)
(* sends new lines to the WebSocket, api_packets folds new lines into a    *)
(* cache and rewrites logs/packets.jsonl, and truncate_packets and         *)
(* truncate_logs empty the files.  The children append to the logs at any  *)
(* time, and the test runner empties them behind the server's back.        *)
(*                                                                         *)
(* A log is a sequence of packet lines.  The last one may be torn: written *)
(* in part, without its newline.  Offsets count lines; a position inside a *)
(* line never is an offset.  The control log is tailed in the same way and *)
(* holds no packets; two logs stand for three.                             *)
(***************************************************************************)
EXTENDS Integers, Sequences, FiniteSets, SequencesExt

CONSTANTS Uids,         \* the packets on the wire, by packet_uid
          Sender,       \* which program sends each
          MaxLines,     \* the length of a log
          MaxEvents,   \* how often a file is emptied or the server restarted
          Environments  \* what may happen, see Kinds

Roles == {"server", "client"}
\* "browser": a browser is connected at times.  "packets": it asks for the packets.
\* "truncate": another program empties a log.  "send": a message to the browser fails.
\* "restart": the control server is killed and started again.
Kinds == {"browser", "packets", "truncate", "send", "restart"}
ASSUME SenderAssumption == Sender \in [Uids -> Roles]
ASSUME BoundsAssumption ==
  MaxLines \in Nat /\ MaxEvents \in Nat /\ Environments \subseteq SUBSET Kinds

VARIABLES
  env,           \* the environment of this behaviour
  log,           \* logs/server.jsonl and logs/client.jsonl
  torn,          \* whether the last line of each is torn
  ws,            \* a browser is connected
  tailing,       \* the loop has pushed the server's log and not yet the client's
  tailOffset,    \* server_log_offset and client_log_offset
  pushed,        \* history: the whole lines sent, by their place in the log
  scanning,      \* api_packets is between its two scans
  packetOffset,  \* packets_server_offset and packets_client_offset
  cache,         \* packets_cache: what each side has logged of a packet
  packets,       \* logs/packets.jsonl
  events         \* how often a file has been emptied or the server restarted

tailVars == <<ws, tailing, tailOffset, pushed>>
packetVars == <<scanning, packetOffset, cache, packets>>
vars == <<env, log, torn, ws, tailing, tailOffset, pushed, scanning, packetOffset,
          cache, packets, events>>

Whole(r) == Len(log[r]) - (IF torn[r] THEN 1 ELSE 0)

\* What is kept of a packet line: who logged it, its place, and whether it is torn.
None == <<>>
Entry(r, i, part) == <<r, i, part>>
NoLines == [r \in Roles |-> None]
Zero == [r \in Roles |-> 0]

Init ==
  /\ env \in Environments
  /\ log = [r \in Roles |-> <<>>] /\ torn = [r \in Roles |-> FALSE]
  /\ ws = FALSE /\ tailing = FALSE /\ tailOffset = Zero
  /\ pushed = [r \in Roles |-> <<>>]
  /\ scanning = FALSE /\ packetOffset = Zero
  /\ cache = [u \in Uids |-> NoLines] /\ packets = {}
  /\ events = 0

-----------------------------------------------------------------------------
(***************************************************************************)
(* The children: logger_write appends a line, which a reader may see in    *)
(* part before it is complete.  A part without the packet_uid is for the   *)
(* readers as if nothing were there.                                       *)
(***************************************************************************)
Write(r) ==
  /\ ~torn[r] /\ Len(log[r]) < MaxLines
  /\ \E u \in Uids : log' = [log EXCEPT ![r] = Append(@, u)]
  /\ torn' \in {torn, [torn EXCEPT ![r] = TRUE]}
  /\ UNCHANGED <<env, tailVars, packetVars, events>>

Complete(r) ==
  /\ torn[r]
  /\ torn' = [torn EXCEPT ![r] = FALSE]
  /\ UNCHANGED <<env, log, tailVars, packetVars, events>>

\* reset_logs of the test runner, or a user.
TruncateElsewhere(r) ==
  /\ "truncate" \in env /\ events < MaxEvents
  /\ log' = [log EXCEPT ![r] = <<>>] /\ torn' = [torn EXCEPT ![r] = FALSE]
  /\ pushed' = [pushed EXCEPT ![r] = <<>>]
  /\ events' = events + 1
  /\ UNCHANGED <<env, ws, tailing, tailOffset, scanning, packetOffset, cache, packets>>

-----------------------------------------------------------------------------
(***************************************************************************)
(* Reading a log from a remembered offset, in both readers: a log that is  *)
(* shorter than the offset is read from its start, and the offset stays    *)
(* before a torn line.                                                     *)
(***************************************************************************)
From(r, offset) == IF offset > Whole(r) THEN 0 ELSE offset
NextOffset_PastTorn(r, offset) == Len(log[r])
NextOffset_Repeats(r, offset) == IF torn[r] THEN From(r, offset) ELSE Whole(r)
NextOffset(r, offset) == Whole(r)

\* The loop does one thing at a time.
Idle == ~scanning /\ ~tailing

Connect ==
  /\ "browser" \in env /\ Idle /\ ws' = TRUE
  /\ UNCHANGED <<env, log, torn, tailing, tailOffset, pushed, packetVars, events>>

Disconnect ==
  /\ Idle /\ ws /\ ws' = FALSE
  /\ UNCHANGED <<env, log, torn, tailing, tailOffset, pushed, packetVars, events>>

(***************************************************************************)
(* push_log_tail: all lines from the offset on, a torn one too, though the *)
(* browser cannot use that.  When a message cannot be sent the WebSocket   *)
(* is closed, and the rest of the lines is passed over; so are those of    *)
(* the next log, since main looks at ws_fd once for all of them.           *)
(***************************************************************************)
PushLogTail(r) ==
  /\ \E sent \in From(r, tailOffset[r])..Whole(r) :
       /\ IF ws THEN sent = Whole(r) \/ "send" \in env ELSE sent = From(r, tailOffset[r])
       /\ ws' \in {ws /\ sent = Whole(r)} \cup (IF torn[r] /\ "send" \in env THEN {FALSE} ELSE {})
       /\ pushed' = [pushed EXCEPT ![r] =
            @ \o [i \in 1..(sent - From(r, tailOffset[r])) |-> From(r, tailOffset[r]) + i]]
  /\ tailOffset' = [tailOffset EXCEPT ![r] = NextOffset(r, tailOffset[r])]
  /\ UNCHANGED <<env, log, torn, packetVars, events>>

PushServerLog == Idle /\ ws /\ tailing' = TRUE /\ PushLogTail("server")
PushClientLog == tailing /\ tailing' = FALSE /\ PushLogTail("client")

-----------------------------------------------------------------------------
(***************************************************************************)
(* packets_scan_log with packets_cache_put: for each packet the last line  *)
(* read from the log replaces what the cache had from this side.           *)
(***************************************************************************)
NewLines(r, u) == {i \in (From(r, packetOffset[r]) + 1)..Len(log[r]) : log[r][i] = u}
LastLine(r, u) == CHOOSE i \in NewLines(r, u) : \A j \in NewLines(r, u) : j <= i

Scan(r) ==
  /\ packetOffset' = [packetOffset EXCEPT ![r] = NextOffset(r, packetOffset[r])]
  /\ cache' = [u \in Uids |->
       IF NewLines(r, u) = {} THEN cache[u]
       ELSE [cache[u] EXCEPT ![r] = Entry(r, LastLine(r, u), LastLine(r, u) > Whole(r))]]

ApiPacketsScanServer ==
  /\ "packets" \in env
  /\ Idle /\ scanning' = TRUE
  /\ Scan("server")
  /\ UNCHANGED <<env, log, torn, tailVars, packets, events>>

(***************************************************************************)
(* The rest of api_packets: the client's log, the records of packets the   *)
(* cache does not know, and for the others the line of the sending side.   *)
(***************************************************************************)
Preferred_Receiver(u) == CHOOSE r \in Roles : r # Sender[u]
Preferred(u) == Sender[u]
Picked(u, lines) ==
  IF lines[Preferred(u)] # None THEN lines[Preferred(u)]
  ELSE lines[CHOOSE r \in Roles : r # Preferred(u)]
Orphans_None(known) == {}
Orphans_All(known) == packets
Orphans(known) == {x \in packets : x.uid \notin known}

ApiPacketsScanClient ==
  /\ scanning /\ scanning' = FALSE
  /\ Scan("client")
  /\ LET known == {u \in Uids : cache'[u] # NoLines}
     IN packets' = Orphans(known) \cup {[uid |-> u, line |-> Picked(u, cache'[u])] : u \in known}
  /\ UNCHANGED <<env, log, torn, tailVars, events>>

\* packets_cache_reset
CacheReset == packetOffset' = Zero /\ cache' = [u \in Uids |-> NoLines]

\* /api/packets/clear: truncate_packets
Clear ==
  /\ Idle /\ events < MaxEvents
  /\ events' = events + 1
  /\ packets' = {}
  /\ CacheReset
  /\ UNCHANGED <<env, log, torn, tailVars, scanning>>

\* /api/reset: truncate_logs, when the children have been stopped.
OffsetsAfterReset_Kept == tailOffset
OffsetsAfterReset == Zero

Reset ==
  /\ Idle /\ events < MaxEvents
  /\ events' = events + 1
  /\ log' = [r \in Roles |-> <<>>] /\ torn' = [r \in Roles |-> FALSE]
  /\ tailOffset' = OffsetsAfterReset
  /\ pushed' = [r \in Roles |-> <<>>]
  /\ packets' = {}
  /\ CacheReset
  /\ UNCHANGED <<env, ws, tailing, scanning>>

\* The control server is killed and started again: only the files remain.
Restart ==
  /\ "restart" \in env /\ events < MaxEvents
  /\ events' = events + 1
  /\ ws' = FALSE /\ tailing' = FALSE /\ scanning' = FALSE
  /\ tailOffset' = Zero /\ pushed' = [r \in Roles |-> <<>>]
  /\ CacheReset
  /\ UNCHANGED <<env, log, torn, packets>>

Loop ==
  \/ PushServerLog \/ PushClientLog
  \/ ApiPacketsScanServer \/ ApiPacketsScanClient

Next ==
  \/ Loop
  \/ \E r \in Roles : Write(r) \/ Complete(r) \/ TruncateElsewhere(r)
  \/ Connect \/ Disconnect
  \/ Clear \/ Reset \/ Restart

Spec == Init /\ [][Next]_vars

-----------------------------------------------------------------------------
Lines == {None} \cup (Roles \X (1..MaxLines) \X BOOLEAN)

\* The values of the variables; an offset lies beyond its log only when another
\* program has emptied it.
TypeOK ==
  /\ env \in Environments
  /\ log \in [Roles -> Seq(Uids)] /\ torn \in [Roles -> BOOLEAN]
  /\ ws \in BOOLEAN /\ tailing \in BOOLEAN /\ scanning \in BOOLEAN
  /\ tailOffset \in [Roles -> 0..MaxLines] /\ packetOffset \in [Roles -> 0..MaxLines]
  /\ pushed \in [Roles -> Seq(1..MaxLines)]
  /\ cache \in [Uids -> [Roles -> Lines]]
  /\ packets \subseteq [uid : Uids, line : Lines \ {None}]
  /\ events \in 0..MaxEvents
  \* without another program's hand the offsets stay within the logs
  /\ "truncate" \in env \/ \A r \in Roles :
       tailOffset[r] <= Whole(r) /\ packetOffset[r] <= Whole(r)

\* A whole line is pushed once, and lines are pushed in their order, whatever is torn,
\* truncated or fails.
PushedOnceInOrder ==
  \A r \in Roles : \A i, j \in DOMAIN pushed[r] : i < j => pushed[r][i] < pushed[r][j]

\* A line that the tail has passed has been pushed whole, unless sending failed or a
\* log shrank behind the server's back: a torn line is not passed.
PassedLinesPushed ==
  env \cap {"truncate", "send"} = {} => \A r \in Roles : \A i \in 1..tailOffset[r] : Contains(pushed[r], i)

\* packets.jsonl: "one record per wire packet".
OneRecordPerPacket == \A x, y \in packets : x.uid = y.uid => x = y

\* A packet of which a scan has passed a line has a record: of a line of its sender if
\* one was passed, else of one of its receiver.
Scanned(r, u) == {i \in 1..packetOffset[r] : log[r][i] = u}
ScannedLinesRecorded ==
  ("truncate" \notin env /\ ~scanning) =>
    \A u \in Uids : LET side == IF Scanned(Sender[u], u) # {} THEN Sender[u]
                                ELSE CHOOSE r \in Roles : r # Sender[u]
                    IN Scanned(side, u) # {} =>
                         \E x \in packets : x.uid = u /\ x.line[1] \in {side, Sender[u]}

\* A torn line may take the place of a whole one that its side has logged of the same
\* packet before; but a record of a torn line is one whose line will be read again.
TornRecordsReread ==
  ("truncate" \notin env /\ ~scanning) =>
    \A x \in packets : x.line[3] => packetOffset[x.line[1]] < x.line[2]

\* Every packet that was scanned is recorded, and what is recorded torn for a while is
\* read again.
ScannedLinesKept == ScannedLinesRecorded /\ TornRecordsReread

\* Records of earlier flows survive ("keep them so historical flows survive"): a
\* packet leaves packets.jsonl only when it is cleared or everything is reset.
HistoryKept ==
  [][\A x \in packets : (\E y \in packets' : y.uid = x.uid) \/ packets' = {}]_vars
==============================================================================
