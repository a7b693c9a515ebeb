-------------------------- MODULE ControlWebSocket --------------------------
(***************************************************************************)
(* What the control server reads from the WebSocket of a browser, which    *)
(* does not block: two bytes as the header of a frame whenever select()    *)
(* finds some, and with them as much of the frame as opcode, mask bit and  *)
(* the 7 bits of the length ask for, or as has arrived.  A browser masks   *)
(* every frame, and says the length of a long one in bytes of its own.     *)
(***************************************************************************)
EXTENDS DemoPrograms, FiniteSetsExt

CONSTANTS FrameLengths,  \* the lengths of payloads
          ShortLength,   \* the longest that the 7 bits say: 125
          MediumLength,  \* the longest that two bytes say: 65535
          MaxFrames      \* how many frames the browser sends

ASSUME FramesAssumption ==
  /\ FrameLengths \subseteq Nat /\ MaxFrames \in Nat
  /\ ShortLength \in Nat /\ MediumLength \in Nat /\ ShortLength <= MediumLength

Opcodes == {"PING", "CLOSE", "other"}
\* What a browser sends: the payload of a control frame is short.
BrowserFrames ==
  {f \in [opcode : Opcodes, length : FrameLengths] : f.opcode # "other" => f.length <= ShortLength}

\* What two bytes say as a header.
FrameHeaders == [opcode : Opcodes, masked : BOOLEAN, plen : 0..(ShortLength + 2)]
Plen(n) ==
  CASE n <= ShortLength -> n
    [] n > ShortLength /\ n <= MediumLength -> ShortLength + 1
    [] n > MediumLength -> ShortLength + 2
HeaderOf(f) == [opcode |-> f.opcode, masked |-> TRUE, plen |-> Plen(f.length)]

\* How many bytes more the length of a payload takes, and a mask.
ExtensionSize(n) ==
  CASE n <= ShortLength -> 0
    [] n > ShortLength /\ n <= MediumLength -> 2
    [] n > MediumLength -> 8
MaskSize == 4

\* A byte is a header's first one, its second one, or one of a length, a mask or a
\* payload.
FirstByte(f) == [part |-> "first", frame |-> f]
SecondByte == [part |-> "second"]
AnyByte == [part |-> "any"]
FrameBytes(f) ==
  <<FirstByte(f), SecondByte>>
    \o [i \in 1..(ExtensionSize(f.length) + MaskSize + f.length) |-> AnyByte]

\* websocket_handshake() is done.
FramesInit ==
  /\ protocol = "frames" /\ scenario = "normal" /\ faults = {}
  /\ ProgramsInit("frame")
  /\ NoFiles
  \* sent: how many frames were sent; arrived: how many bytes of net.server have arrived;
  \* header: the bytes last read as a header; left: why the rest of a frame may have been
  \* left in the socket, see LeftBehind
  /\ mem = [sent |-> 0, arrived |-> 0, header |-> <<>>, left |-> {}]

BrowserSendsFrame ==
  /\ at.client = "start" /\ mem.sent < MaxFrames
  /\ \E f \in BrowserFrames : Send("client", FrameBytes(f))
  /\ mem' = [mem EXCEPT !.sent = @ + 1]
  /\ UNCHANGED <<quietVars, at, results>>

\* TCP delivers what was sent, in pieces of any size.
FrameArrives ==
  /\ \E n \in (mem.arrived + 1)..Len(net.server) : mem' = [mem EXCEPT !.arrived = n]
  /\ UNCHANGED <<quietVars, at, results, net>>

BrowserClosesSocket ==
  /\ at.client = "start"
  /\ Goto("client", "exit")
  /\ UNCHANGED <<quietVars, net, mem>>

IsHeader(bytes) == bytes[1].part = "first" /\ bytes[2].part = "second"

\* The bytes that are read behind a header.
FrameRest_Unmasked(h) == IF h.opcode = "CLOSE" THEN 0 ELSE h.plen
FrameRest(h) ==
  CASE h.opcode = "PING" -> h.plen
    [] h.opcode = "CLOSE" \/ h.plen = 0 -> 0
    [] OTHER -> h.plen + (IF h.masked THEN MaskSize ELSE 0)

\* "mask": of a PING only as many bytes are read as its payload has, and of an empty frame
\* none; "length": the bytes of a longer length are not read as such; "rest": recv() returns
\* nothing before the frame is read; "byte": see FrameByte.
LeftBehind(h, behind) ==
  {reason \in {"mask", "length", "rest"} :
     \/ reason = "mask" /\ (h.opcode = "PING" \/ h.plen = 0)
     \/ reason = "length" /\ h.plen > ShortLength
     \/ reason = "rest" /\ behind < FrameRest(h)}

\* recv() returns two bytes: a PING is answered, a CLOSE too, and all else discarded, up to
\* what has arrived.  Bytes that are no header's may say anything.
FrameReceive ==
  /\ at.server = "frame" /\ mem.arrived >= 2
  /\ LET bytes == SubSeq(net.server, 1, 2)
         behind == mem.arrived - 2
     IN  \E h \in FrameHeaders :
           LET taken == 2 + Min({FrameRest(h), behind})
           IN  /\ IsHeader(bytes) => h = HeaderOf(bytes[1].frame)
               /\ mem' = [mem EXCEPT !.header = bytes, !.arrived = @ - taken,
                                     !.left = @ \cup LeftBehind(h, behind)]
               /\ net' = [net EXCEPT !.server = SubSeq(@, taken + 1, Len(@))]
               /\ Goto("server", IF h.opcode = "CLOSE" THEN "exit" ELSE "frame")
  /\ UNCHANGED quietVars

\* recv() returns a single byte, which is dropped.
FrameByte ==
  /\ at.server = "frame" /\ mem.arrived = 1
  /\ net' = [net EXCEPT !.server = Tail(@)]
  /\ mem' = [mem EXCEPT !.arrived = 0, !.left = @ \cup {"byte"}]
  /\ UNCHANGED <<quietVars, at, results>>

FrameSocketEnds ==
  /\ at.server = "frame" /\ net.server = <<>> /\ Ended("client")
  /\ Goto("server", "exit")
  /\ UNCHANGED <<quietVars, net, mem>>

FrameServer == FrameReceive \/ FrameByte \/ FrameSocketEnds
FrameBrowser == BrowserSendsFrame \/ FrameArrives \/ BrowserClosesSocket

-----------------------------------------------------------------------------
\* What is read as a header is one, however many frames were read before it and however
\* they arrived, unless an earlier one was a PING, empty, or longer than the 7 bits say,
\* or was read before all of it had arrived.  These four leave a part of the frame in
\* the socket, to be read as the next header; of the last two the comment "Discard the
\* payload to keep the stream aligned" (control_server.c:1929) does not know.
StreamAligned ==
  protocol = "frames" /\ mem.header # <<>> => IsHeader(mem.header) \/ mem.left # {}
=============================================================================
