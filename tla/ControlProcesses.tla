-------------------------- MODULE ControlProcesses --------------------------
(***************************************************************************)
(* The control server's child processes (control_server.c): the ChildProc  *)
(* slots for the server, the client and the test runner, the pipes they    *)
(* write to, the requests that start and stop them, the experiment's       *)
(* flow, and the select loop of main that reads and reaps them.            *)
(*                                                                         *)
(* The loop is single threaded: select, then at most one request, for      *)
(* which it waits, then one read per ready descriptor in a fixed order,    *)
(* then reap_child for each slot. The children write and exit between any  *)
(* two of these steps. The set of ready descriptors is the one select      *)
(* returned: a request that closes descriptors and opens new ones leaves   *)
(* it as it is.                                                            *)
(*                                                                         *)
(* Descriptors are numbers, and a new one is the lowest that is free.      *)
(*                                                                         *)
(* The control server may end at any time, and be started again: then main *)
(* begins with nothing in its slots and run_seq 0, while the children of   *)
(* its predecessor, its orphans, run on, and the logs and the file of test *)
(* results are as they were.                                               *)
(***************************************************************************)
EXTENDS Integers, Sequences, FiniteSetsExt, SequencesExt

CONSTANTS MaxFd,        \* the highest descriptor in use
          Environments  \* the bounds considered, see BoundsAssumption

(***************************************************************************)
(* A behaviour is bounded by one of Environments: how many children are    *)
(* started, how often each writes, how often pipe or fork fails, whether   *)
(* browsers connect to the WebSocket, and whether the control server is    *)
(* started again.                                                          *)
(***************************************************************************)
ASSUME BoundsAssumption ==
  /\ MaxFd \in Nat
  /\ Environments \subseteq [forks : Nat, writes : Nat, failures : Nat,
                             browser : BOOLEAN, restart : BOOLEAN]

Slots == {"server", "client", "test"}
Words == {"OK", "ABORT"}
Fds == 0..MaxFd
NoFd == -1      \* a closed descriptor field
NoPid == 0
NoFlow == 0
\* What an open descriptor is, if it is not a pipe of the process with that number.
Free == 0       \* not open
Socket == -1    \* a connection to a browser
Lost == -2      \* a pipe end no variable holds any more

VARIABLES
  limits,    \* the environment of this behaviour
  phase,     \* where the loop of main is, or "dead"
  ready,     \* readfds as select left it
  slot,      \* state.server, state.client and state.test
  runSeq,    \* experiment.run_seq, all flows being of one protocol; 0: no flow_id is set
  ws,        \* ws_fd
  files,     \* the descriptor table
  process,   \* the children in the order of their start; a pid is an index
  results,   \* logs/test-results.json
  failures   \* failures of pipe and fork so far

vars == <<limits, phase, ready, slot, runSeq, ws, files, process, results, failures>>

Phases == {"select", "reading", "request", "output", "dead"}
Pids == 1..Len(process)
Running(p) == process[p].state = "running"
Exited(p) == process[p].state = "exited"
Occupied(s) == slot[s].pid # NoPid
Held(s) == {slot[s].out, slot[s].err, slot[s].in} \ {NoFd}

(***************************************************************************)
(* child_init, and the fields after a stop or a reap.                      *)
(***************************************************************************)
Empty(result) == [pid |-> NoPid, out |-> NoFd, err |-> NoFd, in |-> NoFd, result |-> result]
Fresh == Empty("Pending")

\* The first start, in a directory without logs.
Init ==
  /\ limits \in Environments
  /\ phase = "select" /\ ready = {}
  /\ slot = [s \in Slots |-> Fresh]
  /\ runSeq = 0 /\ ws = NoFd
  /\ files = [f \in Fds |-> Free]
  /\ process = <<>> /\ results = <<>> /\ failures = 0

-----------------------------------------------------------------------------
(***************************************************************************)
(* Descriptors.  Closing gives a new table; NthFree(table, n) is what the  *)
(* n-th of several openings in a row returns.                              *)
(***************************************************************************)
Closing(table, fds) == [f \in Fds |-> IF f \in fds THEN Free ELSE table[f]]
Opening(table, fds, what) == [f \in Fds |-> IF f \in fds THEN what ELSE table[f]]
NthFree(table, n) ==
  CHOOSE f \in Fds : table[f] = Free /\ Cardinality({g \in 0..f : table[g] = Free}) = n
FreeFds(table) == {f \in Fds : table[f] = Free}

\* accept returns the lowest descriptor; handle_http_client closes it at the end.
Connection == NthFree(files, 1)
WithConnection == Opening(files, {Connection}, Socket)

-----------------------------------------------------------------------------
(***************************************************************************)
(* stop_child for the slots in S: SIGTERM, up to two seconds, SIGKILL, and *)
(* one waitpid that does not wait.  The processes in late are still there  *)
(* then: killed, but never waited for again.                               *)
(***************************************************************************)
Late(S) == SUBSET {slot[s].pid : s \in {t \in S : Occupied(t) /\ Running(slot[t].pid)}}
StoppedSlots(S) ==
  [s \in Slots |-> IF s \notin S THEN slot[s]
                   ELSE Empty(IF Occupied(s) THEN "Stopped" ELSE slot[s].result)]
StoppedProcesses(S, late) ==
  [p \in Pids |->
    IF \A s \in S : slot[s].pid # p THEN process[p]
    ELSE [process[p] EXCEPT !.state = IF p \in late THEN "killed" ELSE "reaped"]]
StoppedFiles(S, table) == Closing(table, UNION {Held(s) : s \in S})

(***************************************************************************)
(* start_child for slot s, when the slots, processes and descriptors are   *)
(* those given: three pipes at most, of which the parent keeps one end     *)
(* each.  A failure of the second pipe leaves both ends of the first open. *)
(* When too few descriptors are free, pipe fails.                          *)
(***************************************************************************)
InitialResult_Kept(s) == slot[s].result
InitialResult(s) == "Pending"

Started(s, slots, processes, table, interactive, flow) ==
  LET pid == Len(processes) + 1
      out == NthFree(table, 1)
      err == NthFree(table, 3)
      in == IF interactive THEN NthFree(table, 6) ELSE NoFd
  IN /\ Len(processes) < limits.forks
     /\ Cardinality(FreeFds(table)) >= IF interactive THEN 6 ELSE 4
     /\ slot' = [slots EXCEPT ![s] = [pid |-> pid, out |-> out, err |-> err, in |-> in,
                                      result |-> InitialResult(s)]]
     /\ process' = Append(processes,
          [kind |-> s, state |-> "running", flow |-> flow, unread |-> <<>>,
           written |-> <<>>, logged |-> TRUE, orphan |-> FALSE])
     /\ files' = Closing(Opening(table, {out, err, in} \ {NoFd}, pid), {Connection})
     /\ UNCHANGED failures

NotStarted(slots, processes, table) ==
  /\ failures < limits.failures
  /\ failures' = failures + 1
  /\ slot' = slots /\ process' = processes
  /\ \E lost \in {{}, {NthFree(table, 1), NthFree(table, 2)}} :
       /\ lost # {} => Cardinality(FreeFds(table)) >= 2
       /\ files' = Closing(Opening(table, lost, Lost), {Connection})

StartChild(s, slots, processes, table, interactive, flow) ==
  \/ Started(s, slots, processes, table, interactive, flow)
  \/ NotStarted(slots, processes, table)

-----------------------------------------------------------------------------
(***************************************************************************)
(* handle_http_client and route_api.  A request that is refused, that does *)
(* not come to its end, or only reads, is AnyOtherRequest.                 *)
(***************************************************************************)

\* read_http_request() returns: the browser has sent all it announced, or has left.
\* Until then the loop waits for it and for nothing else; see ControlRequests.
RequestArrives ==
  /\ phase = "reading"
  /\ phase' = "request"
  /\ UNCHANGED <<ready, slot, runSeq, ws, files, process, results, failures>>

Answered == phase = "request" /\ phase' = "output" /\ UNCHANGED <<ready, ws>>

AnyOtherRequest == Answered /\ UNCHANGED <<slot, runSeq, files, process, results, failures>>

\* api_server_start: a new experiment for each server.
ServerStart ==
  /\ Answered
  /\ ~Occupied("server")
  /\ runSeq' = runSeq + 1                                   \* experiment_configure
  /\ StartChild("server", slot, process, WithConnection, FALSE, runSeq')
  /\ UNCHANGED results

\* api_client_start: a client joins the experiment of the server in its slot.
NewExperiment_Always == TRUE
NewExperiment == runSeq = 0 \/ ~Occupied("server")

ClientStart(interactive) ==
  /\ Answered
  /\ ~Occupied("client")
  /\ runSeq' = IF NewExperiment THEN runSeq + 1 ELSE runSeq
  /\ StartChild("client", slot, process, WithConnection, interactive, runSeq')
  /\ UNCHANGED results

\* /api/server/stop and /api/client/stop
Stop(s) ==
  /\ Answered
  /\ slot' = StoppedSlots({s})
  /\ \E late \in Late({s}) : process' = StoppedProcesses({s}, late)
  /\ files' = StoppedFiles({s}, files)
  /\ UNCHANGED <<runSeq, results, failures>>

\* api_run_tests: the results start afresh, and nothing runs beside the tests.
ResultsAtStart_Kept == results
ResultsAtStart == <<>>

RunTests ==
  /\ Answered
  /\ ~Occupied("test")
  /\ results' = ResultsAtStart
  /\ LET S == {"server", "client"}
     IN \E late \in Late(S) :
          StartChild("test", StoppedSlots(S), StoppedProcesses(S, late),
                     StoppedFiles(S, WithConnection), FALSE, NoFlow)
  /\ UNCHANGED runSeq

\* /api/reset: stop all, child_init, experiment_clear, truncate_logs.  An orphan that is
\* still running goes on writing to its log.
ResetStops_NotTest == {"server", "client"}
ResetStops == Slots
LogsAfterReset_Kept(processes) == processes
LogsAfterReset(processes) ==
  [p \in DOMAIN processes |->
    [processes[p] EXCEPT !.logged = processes[p].orphan /\ processes[p].state = "running"]]

Reset ==
  /\ Answered
  /\ slot' = [s \in Slots |-> Fresh]
  /\ \E late \in Late(ResetStops) :
       process' = LogsAfterReset(StoppedProcesses(ResetStops, late))
  /\ files' = StoppedFiles(ResetStops, files)
  /\ runSeq' = 0
  /\ UNCHANGED <<results, failures>>

\* api_send_password writes to a pipe; SIGPIPE keeps its default action, so that a
\* write to a client that has exited ends the control server.
SendPassword ==
  /\ phase = "request"
  /\ slot["client"].in # NoFd
  /\ phase' = IF Running(slot["client"].pid) THEN "output" ELSE "dead"
  /\ UNCHANGED <<ready, slot, runSeq, ws, files, process, results, failures>>

\* websocket_handshake: the new connection stays open and replaces the old one.
WebSocketConnect ==
  /\ phase = "request" /\ limits.browser
  /\ phase' = "output"
  /\ ws' = Connection
  /\ files' = Closing(WithConnection, {ws})
  /\ UNCHANGED <<ready, slot, runSeq, process, results, failures>>

\* send to a browser that has closed its connection: SIGPIPE, as for SendPassword.
BrowserGone ==
  /\ limits.browser
  /\ phase = "request" \/ (phase = "output" /\ ws # NoFd)
  /\ phase' = "dead"
  /\ UNCHANGED <<ready, slot, runSeq, ws, files, process, results, failures>>

Request ==
  \/ AnyOtherRequest
  \/ ServerStart
  \/ \E interactive \in BOOLEAN : ClientStart(interactive)
  \/ \E s \in {"server", "client"} : Stop(s)
  \/ RunTests
  \/ Reset
  \/ SendPassword
  \/ WebSocketConnect

-----------------------------------------------------------------------------
(***************************************************************************)
(* select: a pipe is readable when it holds something or its writer has    *)
(* ended.  A browser may send on its WebSocket, and open a connection,     *)
(* which accept takes if a descriptor is free.                             *)
(***************************************************************************)
Readable(s) ==
  IF ~Occupied(s) THEN {}
  ELSE LET p == slot[s].pid
       IN IF Exited(p) THEN {slot[s].out, slot[s].err} \ {NoFd}
          ELSE IF process[p].unread # <<>> THEN {slot[s].out} \ {NoFd} ELSE {}

Select ==
  /\ phase = "select"
  /\ phase' \in {"reading", "output"}
  /\ phase' = "reading" => FreeFds(files) # {}
  /\ \E fromBrowser \in SUBSET ({ws} \ {NoFd}) :
       ready' = (UNION {Readable(s) : s \in Slots}) \cup fromBrowser
  /\ UNCHANGED <<slot, runSeq, ws, files, process, results, failures>>

\* The tests of the loop's body: FD_ISSET of the descriptors as they are now.
Turns == <<<<"server", "out">>, <<"server", "err">>, <<"client", "out">>,
           <<"client", "err">>, <<"test", "out">>, <<"test", "err">>>>
Descriptor(turn) == IF turn[2] = "out" THEN slot[turn[1]].out ELSE slot[turn[1]].err
Due == {i \in DOMAIN Turns : Descriptor(Turns[i]) \in ready}
Turn == Turns[Min(Due)]
TakesTurn(s, stream) ==
  /\ phase = "output"
  /\ Due # {} /\ Turn = <<s, stream>>
  /\ ready' = ready \ {Descriptor(Turn)}
  /\ UNCHANGED <<phase, runSeq, ws, failures>>

\* What strstr finds in the bytes read.
Verdict(words, result) ==
  CASE Contains(words, "OK") -> "OK"
    [] ~Contains(words, "OK") /\ Contains(words, "ABORT") -> "ABORT"
    [] OTHER -> result

(***************************************************************************)
(* handle_child_output: one read of at most 511 bytes, so not always all.  *)
(* At the end of the file it does nothing; the descriptor stays open until *)
(* the process is reaped.                                                  *)
(***************************************************************************)
ReadOutput(s) ==
  /\ TakesTurn(s, "out")
  /\ LET p == slot[s].pid
         text == process[p].unread
     IN \/ /\ text = <<>>
           /\ UNCHANGED <<slot, process>>
        \/ \E n \in 1..Len(text) :
             /\ process' = [process EXCEPT ![p].unread = SubSeq(text, n + 1, Len(text))]
             /\ slot' = [slot EXCEPT ![s].result = Verdict(SubSeq(text, 1, n), @)]
  /\ UNCHANGED <<files, results>>

\* The children write nothing to stderr here; the end of the file is ignored.
ReadErrors(s) ==
  /\ TakesTurn(s, "err")
  /\ UNCHANGED <<slot, files, process, results>>

\* reap_child for the slots in S.
Reapable_NotServer(S) == {s \in S \ {"server"} : Occupied(s) /\ Exited(slot[s].pid)}
Reapable(S) == {s \in S : Occupied(s) /\ Exited(slot[s].pid)}
ClosedAtReap_KeepsInput(s) == {slot[s].out, slot[s].err}
ClosedAtReap(s) == Held(s)
ReapedSlots(S) ==
  [s \in Slots |-> IF s \in Reapable(S) THEN Empty(slot[s].result) ELSE slot[s]]
ReapedProcesses(S) ==
  [p \in Pids |-> IF \E s \in Reapable(S) : slot[s].pid = p
                  THEN [process[p] EXCEPT !.state = "reaped"] ELSE process[p]]
ReapedFiles(S) == Closing(files, UNION {ClosedAtReap(s) : s \in Reapable(S)})

(***************************************************************************)
(* The test runner's stdout: append_test_results_chunk, or, when read      *)
(* gives no bytes, the end of the pipe.  A read that would block (the      *)
(* descriptor was in readfds for an earlier pipe) gives none either.       *)
(***************************************************************************)
ReadTestOutput ==
  /\ TakesTurn("test", "out")
  /\ LET p == slot["test"].pid
         text == process[p].unread
     IN \/ \E n \in 1..Len(text) :
             /\ results' = results \o SubSeq(text, 1, n)
             /\ process' = [process EXCEPT ![p].unread = SubSeq(text, n + 1, Len(text))]
             /\ UNCHANGED <<slot, files>>
        \/ /\ text = <<>>
           /\ slot' = [ReapedSlots({"test"}) EXCEPT !["test"].out = NoFd]
           /\ process' = ReapedProcesses({"test"})
           /\ files' = Closing(ReapedFiles({"test"}), {slot["test"].out})
           /\ UNCHANGED results

ReadTestErrors ==
  /\ TakesTurn("test", "err")
  /\ slot' = [slot EXCEPT !["test"].err = NoFd]
  /\ files' = Closing(files, {slot["test"].err})
  /\ UNCHANGED <<process, results>>

\* recv on the WebSocket: its end or a CLOSE frame closes it, the rest is skipped.
ReadWebSocket ==
  /\ phase = "output" /\ Due = {} /\ ws \in ready
  /\ ready' = ready \ {ws}
  /\ \/ UNCHANGED <<ws, files>>
     \/ ws' = NoFd /\ files' = Closing(files, {ws})
  /\ UNCHANGED <<phase, slot, runSeq, process, results, failures>>

(***************************************************************************)
(* The end of the loop's body: reap_child for each slot, which closes the  *)
(* pipes whether or not they are read to their end, and the messages to    *)
(* the WebSocket, which is closed when one cannot be sent.                 *)
(***************************************************************************)
Reap ==
  /\ phase = "output" /\ Due = {} /\ ws \notin ready
  /\ phase' = "select" /\ ready' = {}
  /\ slot' = ReapedSlots(Slots)
  /\ process' = ReapedProcesses(Slots)
  /\ \/ files' = ReapedFiles(Slots) /\ UNCHANGED ws
     \/ ws # NoFd /\ ws' = NoFd /\ files' = Closing(ReapedFiles(Slots), {ws})
  /\ UNCHANGED <<runSeq, results, failures>>

Loop ==
  /\ UNCHANGED limits
  /\ \/ Select
     \/ Request
     \/ \E s \in {"server", "client"} : ReadOutput(s) \/ ReadErrors(s)
     \/ ReadTestOutput
     \/ ReadTestErrors
     \/ ReadWebSocket
     \/ Reap

-----------------------------------------------------------------------------
(***************************************************************************)
(* The children.  Writing to a pipe that nobody reads ends a child.        *)
(***************************************************************************)
HasReader(p) == phase # "dead" /\ \E s \in Slots : slot[s].pid = p /\ slot[s].out # NoFd

ChildWrites(p, word) ==
  /\ Running(p) /\ Len(process[p].written) < limits.writes
  /\ IF HasReader(p)
     THEN process' = [process EXCEPT ![p].unread = Append(@, word),
                                     ![p].written = Append(@, word)]
     ELSE process' = [process EXCEPT ![p].state = "exited"]
  /\ UNCHANGED <<phase, ready, slot, runSeq, ws, files, results, failures>>

ChildExits(p) ==
  /\ Running(p)
  /\ process' = [process EXCEPT ![p].state = "exited"]
  /\ UNCHANGED <<phase, ready, slot, runSeq, ws, files, results, failures>>

Child == \E p \in Pids : ChildExits(p) \/ \E word \in Words : ChildWrites(p, word)

-----------------------------------------------------------------------------
(***************************************************************************)
(* The control server is killed, or has died, and is started again: the    *)
(* beginning of main.                                                      *)
(***************************************************************************)
Orphaned_Kept == process
Orphaned == [p \in Pids |-> [process[p] EXCEPT !.orphan = TRUE]]

Restart ==
  /\ limits.restart
  /\ phase' = "select" /\ ready' = {}
  /\ slot' = [s \in Slots |-> Fresh]
  /\ runSeq' = 0 /\ ws' = NoFd
  /\ files' = [f \in Fds |-> Free]
  /\ process' = Orphaned
  /\ UNCHANGED <<results, failures>>

Next ==
  \/ Loop
  \/ RequestArrives /\ UNCHANGED limits
  \/ BrowserGone /\ UNCHANGED limits
  \/ Child /\ UNCHANGED limits
  \/ Restart /\ UNCHANGED limits

Spec == Init /\ [][Next]_vars
\* The control server keeps running; a request or a child may never come, and neither
\* may the end of a request for which the control server waits.
FairSpec == Spec /\ WF_vars(Loop)

-----------------------------------------------------------------------------
\* The values of the variables; the test results are of one run at most.
TypeOK ==
  /\ limits \in Environments
  /\ phase \in Phases /\ ready \subseteq Fds
  /\ slot \in [Slots -> [pid : 0..limits.forks, out : Fds \cup {NoFd}, err : Fds \cup {NoFd},
                         in : Fds \cup {NoFd},
                         result : Words \cup {"Pending", "Stopped"}]]
  /\ runSeq \in 0..(limits.forks + limits.failures)
  /\ ws \in Fds \cup {NoFd}
  /\ files \in [Fds -> {Free, Socket, Lost} \cup 1..limits.forks]
  /\ process \in Seq([kind : Slots, state : {"running", "exited", "killed", "reaped"},
                      flow : 0..(limits.forks + limits.failures), unread : Seq(Words),
                      written : Seq(Words), logged : BOOLEAN, orphan : BOOLEAN])
  /\ Len(process) <= limits.forks
  /\ results \in Seq(Words) /\ Len(results) <= limits.writes
  /\ failures \in 0..limits.failures

\* No descriptor leaks and none is used twice: an open pipe belongs to the process
\* that one slot holds, and each descriptor of a slot is such a pipe.  The pipe ends
\* a failed start_child loses are the exception the code makes.
DescriptorsOwned ==
  /\ \A f \in Fds : files[f] > 0 => \E s \in Slots : slot[s].pid = files[f] /\ f \in Held(s)
  /\ \A s \in Slots : \A f \in Held(s) : Occupied(s) /\ files[f] = slot[s].pid
  /\ \A f \in Fds : files[f] = Socket <=> f = ws

\* A child of this control server that runs, or has exited and waits to be reaped, is in
\* the slot it was started for: none is forgotten by a stop, a reset or another start.
ChildrenInSlots ==
  \A p \in Pids : (Running(p) \/ Exited(p)) /\ ~process[p].orphan => slot[process[p].kind].pid = p

\* The result shown for a slot is the word of its last process, never that of a
\* process before it.
Latest(s) == Max({0} \cup {p \in Pids : process[p].kind = s})
ResultFromLastRun ==
  \A s \in Slots : slot[s].result \in Words =>
    Latest(s) # 0 /\ Contains(process[Latest(s)].written, slot[s].result)

\* README: flow_id aligns the server's and the client's logs of one experiment.  A
\* client that is started while a server runs writes the server's flow.
FlowShared ==
  \A p, q \in Pids :
    (Running(p) /\ Running(q) /\ ~process[p].orphan /\ ~process[q].orphan
       /\ p < q /\ process[p].kind = "server" /\ process[q].kind = "client")
      => process[p].flow = process[q].flow

\* Of the servers started since the control server was, at most one has a given flow in
\* the logs as they are: experiment_clear starts run_seq again only where truncate_logs
\* empties them too.
LoggedServer(p) == process[p].kind = "server" /\ process[p].logged
FlowIdentifiesServer ==
  \A p, q \in Pids :
    (LoggedServer(p) /\ LoggedServer(q) /\ ~process[p].orphan /\ ~process[q].orphan
       /\ process[p].flow = process[q].flow) => p = q

\* The two parts of the flow's meaning together.
FlowAlignsLogs == FlowShared /\ FlowIdentifiesServer

\* README: "flow_id and session_id align the server's and the client's logs of the same
\* experiment".  Then no two experiments, each with a server of its own, have the same
\* flow in the logs; but main starts run_seq again over the logs as it finds them.
FlowOfOneExperiment ==
  \A p, q \in Pids :
    (LoggedServer(p) /\ LoggedServer(q) /\ process[p].flow = process[q].flow) => p = q

\* logs/test-results.json holds the beginning of what the last test runner wrote, and
\* nothing of the runs before it.
ResultsOfLastRunner ==
  IF Latest("test") = 0 THEN results = <<>>
  ELSE results = <<>> \/ IsPrefix(results, process[Latest("test")].written)

\* No result of an earlier run is shown, of a child or of the tests.
ResultsOfLastRun == ResultFromLastRun /\ ResultsOfLastRunner

\* A child that exits leaves its slot, unless the control server itself has died or
\* waits for ever for a browser that has connected and sends nothing.
ExitNoticed ==
  (phase = "reading" ~> phase # "reading") =>
    \A s \in Slots :
      (Occupied(s) /\ Exited(slot[s].pid)) ~> (phase = "dead" \/ ~Occupied(s) \/ ~Exited(slot[s].pid))

\* "The pipe is no longer useful" when it is closed: the control server does not close
\* the test runner's output while the runner is still going to write to it.
RunnerKeepsPipe ==
  (Occupied("test") /\ slot["test"].out = NoFd) => Exited(slot["test"].pid)
=============================================================================
