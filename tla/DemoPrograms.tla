---------------------------- MODULE DemoPrograms ----------------------------
(***************************************************************************)
(* What the demo servers and clients have in common: two programs of one   *)
(* protocol and one scenario, the channels between them, what they print,  *)
(* and what disturbs them.  Each protocol has a module of its own that     *)
(* adds its messages and its actions.  Pieces of code that the other       *)
(* programs share, or that are as simple, are modelled in the same way.    *)
(*                                                                         *)
(* Every program is a straight line from receive to receive, so at[p] is   *)
(* the receive that p waits in ("start" before its first step, "exit" when *)
(* it has ended), and one action is all that p does with one message.      *)
(***************************************************************************)
EXTENDS Integers, Sequences, SequencesExt

CONSTANTS Data,            \* what one unit of a file can be
          Files,           \* the contents the input file can have
          DatagramFaults,  \* the environments of the UDP demos, see FaultKinds
          StreamFaults,    \* the environments of the TCP demos
          MaxFaults,       \* how many times the network or a stranger interferes
          Attempts         \* the passwords a client is started with: TRUE is the right one

(***************************************************************************)
(* "lose", "duplicate" and "reorder" are UDP's, "merge" is TCP's: what was *)
(* sent by several calls may be received by one.  "delay": a datagram may  *)
(* take longer than the receive timeout.  "other": another client uses the *)
(* server's port.  "stop": SIGINT or SIGTERM.  "rename": rename(2) fails.  *)
(* "reset": closing a connection with something unread resets it, and the  *)
(* other end may lose what had come before (Linux lets it read that).      *)
(***************************************************************************)
FaultKinds ==
  {"lose", "duplicate", "reorder", "merge", "delay", "other", "stop", "reset", "rename"}

ASSUME DemoFilesAssumption == Files \subseteq Seq(Data)
ASSUME DemoFaultsAssumption ==
  /\ DatagramFaults \subseteq SUBSET FaultKinds
  /\ StreamFaults \subseteq SUBSET (FaultKinds \ {"lose", "duplicate", "reorder"})
  /\ MaxFaults \in Nat
ASSUME DemoAttemptsAssumption == Attempts \subseteq [1..3 -> BOOLEAN]

Programs == {"server", "client"}
Other(p) == CHOOSE q \in Programs : q # p

VARIABLES
  protocol,  \* UDP_SECURE_PROTOCOL
  scenario,  \* UDP_SECURE_SCENARIO
  faults,    \* the environment of this behaviour
  spent,     \* how many disturbances there have been
  at,        \* at[p]: where program p is
  results,   \* results[p]: what demo_finish has printed
  stopped,   \* the programs whose stop_requested is set
  net,       \* net[p]: the messages on their way to p
  mem,       \* the local variables of the two main() that outlive a receive
  \* of the demos that transfer a file
  original,  \* the server's input file when the server started
  content,   \* the same file when it is read for the transfer
  written,   \* what the client has written to its .part file
  committed  \* the contents the client has renamed onto the output path

settingVars == <<protocol, scenario, faults>>
fileVars == <<original, content, written, committed>>
demoVars == <<protocol, scenario, faults, spent, at, results, stopped, net, mem,
              original, content, written, committed>>

\* What a step of a demo without a file, or of one that leaves its file alone, keeps.
quietVars == <<protocol, scenario, faults, spent, stopped,
               original, content, written, committed>>
\* What a step that touches the client's file keeps besides.
settledVars == <<protocol, scenario, faults, spent, stopped, original, content>>

ProgramsAt(places) ==
  /\ spent = 0
  /\ at = places
  /\ results = [p \in Programs |-> <<>>]
  /\ stopped = {}
  /\ net = [p \in Programs |-> <<>>]

\* The server is listening; the client has not been started.
ProgramsInit(first) == ProgramsAt([server |-> first, client |-> "start"])

FilesInit ==
  /\ original \in Files /\ content \in Files
  /\ written = <<>>
  /\ committed = <<>>

\* The demos without a file.
NoFiles == original = <<>> /\ content = <<>> /\ written = <<>> /\ committed = <<>>

Ended(p) == at[p] = "exit"

\* p goes on to the given receive.
Goto(p, place) == at' = [at EXCEPT ![p] = place] /\ UNCHANGED results

\* demo_finish, possibly after an earlier one, and return from main.
Finish(p, printed) ==
  /\ at' = [at EXCEPT ![p] = "exit"]
  /\ results' = [results EXCEPT ![p] = @ \o printed]

\* A signal whose action is to terminate, or abort(3).
Killed(p) == at' = [at EXCEPT ![p] = "exit"] /\ UNCHANGED results

OK == <<"OK">>
ABORT == <<"ABORT">>

\* rename(2) onto the output path, whose result no client looks at.
Publish(file) ==
  \/ committed' = Append(committed, file)
  \/ "rename" \in faults /\ UNCHANGED committed

-----------------------------------------------------------------------------
(***************************************************************************)
(* UDP.  Messages carry their sender, and a reply to anyone but the client *)
(* leaves the model.                                                       *)
(***************************************************************************)

\* Which of the datagrams on their way to p may arrive next.
Arriving(p) == IF "reorder" \in faults THEN DOMAIN net[p] ELSE {1} \cap DOMAIN net[p]

\* p takes its i-th datagram and sends msgs.
Exchange(p, i, msgs) ==
  net' = [net EXCEPT ![p] = RemoveAt(@, i), ![Other(p)] = @ \o msgs]

\* p sends without having received.
Send(p, msgs) == net' = [net EXCEPT ![Other(p)] = @ \o msgs]

\* Nothing is on its way to p, or will be before the other program moves,
\* which waits too.
NothingComing(p) ==
  /\ net[p] = <<>>
  /\ \/ Ended(Other(p))
     \/ net[Other(p)] = <<>> /\ at[Other(p)] # "start"

\* recvfrom returns -1: SO_RCVTIMEO has passed, or a signal came (without
\* SA_RESTART, as signal() of a strict POSIX build leaves it out).
TimesOut(p) == NothingComing(p) \/ "delay" \in faults

Interfere == spent < MaxFaults /\ spent' = spent + 1

Lose ==
  /\ "lose" \in faults /\ Interfere
  /\ \E p \in Programs : \E i \in DOMAIN net[p] :
       net' = [net EXCEPT ![p] = RemoveAt(@, i)]
  /\ UNCHANGED <<settingVars, at, results, stopped, mem, fileVars>>

Duplicate ==
  /\ "duplicate" \in faults /\ Interfere
  /\ \E p \in Programs : \E i \in DOMAIN net[p] :
       net' = [net EXCEPT ![p] = Append(@, net[p][i])]
  /\ UNCHANGED <<settingVars, at, results, stopped, mem, fileVars>>

\* Another client of the same protocol sends to the server.
OtherSends(messages) ==
  /\ "other" \in faults /\ Interfere
  /\ \E m \in messages : net' = [net EXCEPT !["server"] = Append(@, m)]
  /\ UNCHANGED <<settingVars, at, results, stopped, mem, fileVars>>

-----------------------------------------------------------------------------
(***************************************************************************)
(* TCP.  A channel delivers in order, and ends when its sender has.        *)
(***************************************************************************)

\* p receives a message, and all that one recv returns after it is dropped, because p
\* takes what recv returns for one message; it sends msgs.
ReceiveOne(p, msgs) ==
  \E k \in DOMAIN net[p] :
    /\ k = 1 \/ "merge" \in faults
    /\ net' = [net EXCEPT ![p] = SubSeq(@, k + 1, Len(@)), ![Other(p)] = @ \o msgs]

\* Mutant: the end of a connection is not taken for a failure.
ReceiveFails_NotAtEnd(p) ==
  \/ Ended(Other(p)) /\ net[Other(p)] # <<>> /\ "reset" \in faults
  \/ "stop" \in faults /\ net[p] = <<>>

\* p's receive fails: the other end has closed and all has been read, or it closed
\* with something unread and that is lost, or a signal interrupts the receive while
\* it waits.
ReceiveFails(p) ==
  \/ Ended(Other(p)) /\ net[p] = <<>>
  \/ Ended(Other(p)) /\ net[Other(p)] # <<>> /\ "reset" \in faults
  \/ "stop" \in faults /\ net[p] = <<>>

\* A signal may come while p does something else: only the flag is set.
SignalWhileBusy(p) ==
  \/ stopped' = stopped
  \/ "stop" \in faults /\ stopped' = stopped \cup {p}

\* The other end is closed and has not read all that p has sent, so that it has reset
\* the connection: send reports an error, or SIGPIPE ends the program.  The first
\* send to a closed end succeeds and causes the reset; again: a step that sends
\* more than once can break at the second.
SendBreaks(p, again) ==
  /\ Ended(Other(p)) /\ (again \/ net[Other(p)] # <<>>)
  /\ Finish(p, ABORT) \/ Killed(p)
=============================================================================
