------------------------------ MODULE Http2Demo ------------------------------
(***************************************************************************)
(* http2_demo_server.c and http2_demo_client.c: the preface and SETTINGS,  *)
(* then one stream, or in one scenario several at once.  A frame is read   *)
(* whole, except that the client looks at the second frame of a stream     *)
(* only if it is DATA.  No failure of a send, or of the client's receives  *)
(* after SETTINGS, is an error.                                            *)
(***************************************************************************)
EXTENDS DemoPrograms

CONSTANT Multiplexed  \* the streams of the multiplex scenario (6)

ASSUME Http2Assumption == Multiplexed \in Nat \ {0, 1}

Http2Scenarios == {"normal", "multiplex", "hpack-overflow", "stream-cancellation"}

H2Frame(type) == [type |-> type]
H2Stream(type, id) == [type |-> type, id |-> id]

H2Streams == IF scenario = "multiplex" THEN Multiplexed ELSE 1

Http2Init ==
  /\ protocol = "http2"
  /\ scenario \in Http2Scenarios
  /\ faults \in StreamFaults
  /\ ProgramsInit("preface")
  /\ NoFiles
  \* seen, cancelled: the server's streams_seen and stream_cancelled; stream: the
  \* client's i, from 1; lines: the streams whose data the client has written
  /\ mem = [seen |-> 0, cancelled |-> FALSE, stream |-> 1, lines |-> <<>>]

-----------------------------------------------------------------------------
(***************************************************************************)
(* The server.                                                             *)
(***************************************************************************)
H2ServerPreface ==
  /\ at.server = "preface" /\ net.server # <<>>
  /\ Exchange("server", 1, <<>>)
  /\ Goto("server", "settings")
  /\ UNCHANGED <<quietVars, mem>>

\* After the loop, however it was left.
H2ServerResult(cancelled) == IF cancelled THEN ABORT ELSE OK

\* A pass of the loop ends: it goes on unless there is a stop by now.
H2ServerNextFrame ==
  /\ SignalWhileBusy("server")
  /\ IF "server" \in stopped' THEN Finish("server", H2ServerResult(mem'.cancelled))
                              ELSE Goto("server", "frames")

H2ServerSettings ==
  /\ at.server = "settings" /\ net.server # <<>>
  /\ Exchange("server", 1, <<H2Frame("SETTINGS"), H2Frame("SETTINGS")>>)
  /\ UNCHANGED mem
  /\ H2ServerNextFrame
  /\ UNCHANGED <<settingVars, spent, fileVars>>

\* A request is answered at once, with two frames.
H2ServerHeaders ==
  /\ at.server = "frames" /\ net.server # <<>> /\ Head(net.server).type = "HEADERS"
  /\ scenario # "hpack-overflow"
  /\ Exchange("server", 1, <<H2Stream("HEADERS", Head(net.server).id)>>)
  /\ Goto("server", "body")
  /\ UNCHANGED <<quietVars, mem>>

\* The last request of a multiplex ends the loop.
H2ServerBody ==
  /\ at.server = "body"
  /\ mem' = [mem EXCEPT !.seen = @ + 1]
  /\ Send("server", <<H2Stream("DATA", mem'.seen)>>)
  /\ \/ scenario = "multiplex" /\ mem'.seen = Multiplexed
        /\ UNCHANGED stopped /\ Finish("server", H2ServerResult(mem.cancelled))
     \/ ~(scenario = "multiplex" /\ mem'.seen = Multiplexed)
        /\ H2ServerNextFrame
  /\ UNCHANGED <<settingVars, spent, fileVars>>

\* The header name is too long.
H2ServerOverflow ==
  /\ at.server = "frames" /\ net.server # <<>> /\ Head(net.server).type = "HEADERS"
  /\ scenario = "hpack-overflow"
  /\ Exchange("server", 1, <<H2Stream("RST_STREAM", Head(net.server).id)>>)
  /\ Finish("server", ABORT)
  /\ UNCHANGED <<quietVars, mem>>

\* A RST_STREAM is remembered; the acknowledgement of the SETTINGS is not looked at.
H2ServerOtherFrame ==
  /\ at.server = "frames" /\ net.server # <<>>
  /\ Head(net.server).type \in {"SETTINGS", "RST_STREAM"}
  /\ Exchange("server", 1, <<>>)
  /\ mem' = [mem EXCEPT !.cancelled = @ \/ Head(net.server).type = "RST_STREAM"]
  /\ H2ServerNextFrame
  /\ UNCHANGED <<settingVars, spent, fileVars>>

H2ServerReceiveFails ==
  /\ ReceiveFails("server")
  /\ \/ at.server \in {"preface", "settings"} /\ Finish("server", ABORT)
     \/ at.server = "frames" /\ Finish("server", H2ServerResult(mem.cancelled))
  /\ UNCHANGED <<quietVars, net, mem>>

\* Answering a client that has ended may kill the server, see SendBreaks.
H2ServerSendBreaks ==
  /\ Ended("client")
  /\ \/ at.server = "settings" /\ net.server # <<>>
     \/ /\ at.server = "frames" /\ net.client # <<>>
        /\ net.server # <<>> /\ Head(net.server).type = "HEADERS"
     \/ at.server = "body" /\ net.client # <<>>
  /\ Killed("server")
  /\ UNCHANGED <<quietVars, net, mem>>

H2Server ==
  \/ H2ServerPreface \/ H2ServerSettings \/ H2ServerHeaders \/ H2ServerBody \/ H2ServerOverflow
  \/ H2ServerOtherFrame \/ H2ServerReceiveFails \/ H2ServerSendBreaks

-----------------------------------------------------------------------------
(***************************************************************************)
(* The client.                                                             *)
(***************************************************************************)
H2ClientStart ==
  /\ at.client = "start"
  /\ \/ Ended("server") /\ UNCHANGED net /\ Finish("client", ABORT)
     \/ ~Ended("server") /\ Send("client", <<H2Frame("PREFACE"), H2Frame("SETTINGS")>>)
        /\ Goto("client", "settings")
  /\ UNCHANGED <<quietVars, mem>>

\* Two frames of any type: SETTINGS and its acknowledgement.
H2ClientSettings ==
  /\ at.client = "settings" /\ Len(net.client) >= 2
  /\ net' = [net EXCEPT
       !.client = SubSeq(@, 3, Len(@)),
       !.server = Append(@, H2Frame("SETTINGS")) \o
                    [k \in 1..H2Streams |-> H2Stream("HEADERS", k)]]
  /\ Goto("client", "headers")
  /\ UNCHANGED <<quietVars, mem>>

H2ClientSettingsFail ==
  /\ at.client = "settings" /\ ReceiveFails("client")
  /\ Finish("client", ABORT)
  /\ UNCHANGED <<quietVars, net, mem>>

\* Mutant: a RST_STREAM is taken like any other frame.
H2Refused_Never(m) == FALSE

H2Refused(m) == m.type = "RST_STREAM"

\* The next stream, or the end.
H2ClientNextStream(place) ==
  IF mem.stream < H2Streams THEN Goto("client", place) ELSE Finish("client", OK)

H2ClientHeaders ==
  /\ at.client = "headers" /\ net.client # <<>>
  /\ LET m == Head(net.client)
         cancels == m.type = "HEADERS" /\ scenario = "stream-cancellation"
     IN  \/ cancels
            /\ Exchange("client", 1, <<H2Stream("RST_STREAM", mem.stream)>>)
            /\ Finish("client", ABORT)
         \/ H2Refused(m)
            /\ Exchange("client", 1, <<>>) /\ Finish("client", ABORT)
         \/ ~cancels /\ ~H2Refused(m)
            /\ Exchange("client", 1, <<>>) /\ Goto("client", "data")
  /\ UNCHANGED <<quietVars, mem>>

\* The payload of a frame that is not DATA stays unread, and the client then takes
\* what follows for one long frame that never ends.
H2ClientData ==
  /\ at.client = "data" /\ net.client # <<>>
  /\ Exchange("client", 1, <<>>)
  /\ LET m == Head(net.client)
     IN  \/ m.type = "DATA"
            /\ mem' = [mem EXCEPT !.lines = Append(@, m.id), !.stream = @ + 1]
            /\ H2ClientNextStream("headers")
         \/ m.type # "DATA"
            /\ mem' = [mem EXCEPT !.stream = @ + 1]
            /\ H2ClientNextStream("lost")
  /\ UNCHANGED quietVars

H2ClientLost ==
  /\ at.client = "lost" /\ net.client # <<>>
  /\ Exchange("client", 1, <<>>)
  /\ UNCHANGED <<quietVars, at, results, mem>>

\* A receive fails: what is left of the stream is skipped.
H2ClientSkips ==
  /\ at.client \in {"headers", "data"} /\ ReceiveFails("client")
  /\ mem' = [mem EXCEPT !.stream = @ + 1]
  /\ H2ClientNextStream("headers")
  /\ UNCHANGED <<quietVars, net>>

\* The long frame counts as the first of its stream.
H2ClientLostEnds ==
  /\ at.client = "lost" /\ ReceiveFails("client")
  /\ Goto("client", "data")
  /\ UNCHANGED <<quietVars, net, mem>>

H2Client ==
  \/ H2ClientStart \/ H2ClientSettings \/ H2ClientSettingsFail \/ H2ClientHeaders
  \/ H2ClientData \/ H2ClientLost \/ H2ClientSkips \/ H2ClientLostEnds

H2Next == H2Server \/ H2Client
=============================================================================
