-------------------------- MODULE ControlRequests --------------------------
(***************************************************************************)
(* How the control server reads a request (read_http_request and           *)
(* handle_http_client of control_server.c): in as many receives as it      *)
(* takes, while all else waits.  The client is a browser.  What a request  *)
(* does is in ControlProcesses and ControlLogs.                            *)
(***************************************************************************)
EXTENDS DemoPrograms, FiniteSetsExt

CONSTANTS Requests,       \* see IsRequest
          RequestBuffer,  \* bytes of a request that the buffer takes, HTTP_BUF - 1
          MaxBody         \* HTTP_MAX_BODY

\* A request: the bytes up to the empty line, the Content-Length or -1 without one,
\* the bytes behind the empty line, and whether its first line can be parsed.
IsRequest(r) ==
  r.head \in Nat \ {0} /\ r.length \in Nat \cup {-1} /\ r.body \in Nat /\ r.wellFormed \in BOOLEAN

ASSUME RequestsAssumption == \A r \in Requests : IsRequest(r)
ASSUME RequestBufferAssumption == RequestBuffer \in Nat /\ MaxBody \in Nat

RequestInit ==
  /\ protocol = "control" /\ scenario = "normal" /\ faults = {}
  /\ ProgramsInit("receive")
  /\ NoFiles
  \* sent, used: how many bytes of the request have been sent and received
  /\ \E r \in Requests : mem = [request |-> r, sent |-> 0, used |-> 0, outcome |-> "open"]

(***************************************************************************)
(* The browser sends its request in segments, here as so many bytes, and   *)
(* may leave at any time.  One that waits in vain leaves in the end.       *)
(***************************************************************************)
BrowserSends ==
  /\ at.client = "start"
  /\ \E n \in 1..(mem.request.head + mem.request.body - mem.sent) :
       /\ Send("client", [i \in 1..n |-> "byte"])
       /\ mem' = [mem EXCEPT !.sent = @ + n]
  /\ UNCHANGED <<quietVars, at, results>>

BrowserLeaves ==
  /\ at.client = "start"
  /\ Goto("client", "exit")
  /\ UNCHANGED <<quietVars, net, mem>>

(***************************************************************************)
(* The control server.                                                     *)
(***************************************************************************)
Enough_HeadOnly(r, n) == n >= r.head
Enough_Strict(r, n) == n - r.head > r.length
Enough(r, n) == n - r.head >= r.length
BodyTooLong(r) == r.length > MaxBody

\* What read_http_request() makes of the first n bytes, "open" if it reads on.
RequestVerdict(r, n) ==
  CASE n >= r.head /\ BodyTooLong(r) -> "413"
    [] n >= r.head /\ ~BodyTooLong(r) /\ Enough(r, n) ->
         IF r.wellFormed THEN "answered" ELSE "400"
    [] OTHER -> IF n = RequestBuffer THEN "dropped" ELSE "open"

\* recv() returns some of what has arrived.  (That the answer to a browser that has
\* gone ends the control server is in ControlProcesses.)
RequestReceive ==
  /\ at.server = "receive"
  /\ \E n \in 1..Min({Len(net.server), RequestBuffer - mem.used}) :
       LET result == RequestVerdict(mem.request, mem.used + n)
       IN  /\ net' = [net EXCEPT !.server = SubSeq(@, n + 1, Len(@))]
           /\ mem' = [mem EXCEPT !.used = @ + n, !.outcome = result]
           /\ Goto("server", IF result = "open" THEN "receive" ELSE "exit")
  /\ UNCHANGED quietVars

\* recv() returns 0 or fails.
RequestEnds ==
  /\ at.server = "receive" /\ net.server = <<>> /\ Ended("client")
  /\ mem' = [mem EXCEPT !.outcome = "dropped"]
  /\ Goto("server", "exit")
  /\ UNCHANGED <<quietVars, net>>

RequestServer == RequestReceive \/ RequestEnds
RequestBrowser == BrowserSends \/ BrowserLeaves

-----------------------------------------------------------------------------
\* The buffer holds what has been received.
RequestTypeOK ==
  /\ mem.request \in Requests
  /\ mem.used + Len(net.server) = mem.sent /\ mem.used <= RequestBuffer
  /\ mem.sent <= mem.request.head + mem.request.body
  /\ mem.outcome \in {"open", "answered", "400", "413", "dropped"}
  /\ Ended("server") <=> mem.outcome # "open"

\* A request is acted upon only with its whole head and body, in however many segments
\* they came.
WholeRequestsOnly ==
  protocol = "control" /\ mem.outcome \in {"answered", "400"} =>
    /\ mem.used >= mem.request.head
    /\ mem.used >= mem.request.head + mem.request.length

\* A connection is closed without an answer only if its browser has left or its request
\* does not fit the buffer.  (So a body for which HTTP_BUF is too small but which
\* HTTP_MAX_BODY permits gets neither an answer nor a 413.)
DroppedForAReason ==
  protocol = "control" /\ mem.outcome = "dropped" =>
    \/ Ended("client")
    \/ mem.request.head > RequestBuffer
    \/ /\ mem.request.head + mem.request.length > RequestBuffer
       /\ mem.request.length <= MaxBody

\* What becomes of a request does not depend on how it was cut into segments.
RequestsRead == WholeRequestsOnly /\ DroppedForAReason
=============================================================================
