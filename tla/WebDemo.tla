------------------------------- MODULE WebDemo -------------------------------
(***************************************************************************)
(* http_demo_*.c and oauth2_demo_*.c: a connection per request.  The server*)
(* serves one connection after the other until its flow is complete, or    *)
(* until a request is refused.  The client's requests follow a script; who *)
(* may upload, and where the OAuth flow is, belongs to the server and not  *)
(* to a client, so that anybody's request can move it.                     *)
(***************************************************************************)
EXTENDS DemoPrograms

HttpScenarios == {"normal", "bad-auth", "payload-too-large", "bad-method"}
OauthScenarios == {"auth-code", "pkce", "implicit-deprecated", "token-replay"}

\* good: a method the path allows, the right password, a body within the limit.
HttpRequest(path, good, from) == [path |-> path, good |-> good, from |-> from]

\* code: the authorization code of a token request; good: it has what the scenario
\* asks for (a redirect_uri and with PKCE a challenge, a verifier, the Bearer token).
OauthRequest(path, code, good, from) ==
  [path |-> path, code |-> code, good |-> good, from |-> from]

HttpOtherRequests ==
  {HttpRequest("status", TRUE, "other"), HttpRequest("auth", FALSE, "other"),
   HttpRequest("upload", TRUE, "other")}

OauthOtherRequests ==
  {OauthRequest("authorize", "none", TRUE, "other"),
   OauthRequest("token", "AUTH_CODE_42", scenario # "pkce", "other"),
   OauthRequest("resource", "none", FALSE, "other")}

WebInit ==
  /\ \/ protocol = "http-basic" /\ scenario \in HttpScenarios
     \/ protocol = "oauth2" /\ scenario \in OauthScenarios
  /\ faults \in StreamFaults
  /\ ProgramsInit("accept")
  /\ NoFiles
  \* asked: the client's requests so far; authed, last_code and step: the server's,
  \* step being 3 in the HTTP server when completed is set
  /\ \E passwords \in Attempts :
       mem = [passwords |-> passwords, asked |-> 0, authed |-> FALSE,
              last |-> "none", step |-> 0]

-----------------------------------------------------------------------------
(***************************************************************************)
(* The servers.  One step accepts a connection, reads the request, answers *)
(* and closes.                                                             *)
(***************************************************************************)

\* Mutant: uploading needs no authentication.
HttpStatus_AnyUpload(m) ==
  CASE m.path = "auth" -> IF m.good THEN 200 ELSE 403
    [] m.path = "upload" -> IF m.good THEN 201 ELSE 413
    [] OTHER -> IF m.good THEN 200 ELSE 405

HttpStatus(m) ==
  CASE m.path = "auth" -> IF m.good THEN 200 ELSE 403
    [] m.path = "upload" -> IF ~mem.authed THEN 401 ELSE IF m.good THEN 201 ELSE 413
    [] OTHER -> IF m.good THEN 200 ELSE 405

OauthStatus(m) ==
  CASE m.path = "authorize" -> IF m.good THEN 302 ELSE 400
    [] m.path = "refresh" -> 200
    [] m.path = "token" -> IF m.code = mem.last \/ ~m.good THEN 400 ELSE 200
    [] m.path = "resource" -> IF m.good THEN 200 ELSE 401

WebStatus(m) == IF protocol = "http-basic" THEN HttpStatus(m) ELSE OauthStatus(m)

\* The server's variables after a request that was not refused.
HttpServed(m) ==
  CASE m.path = "auth" -> [mem EXCEPT !.authed = TRUE]
    [] m.path = "upload" -> [mem EXCEPT !.step = 3]
    [] OTHER -> mem

OauthServed(m) ==
  CASE m.path = "authorize" -> [mem EXCEPT !.step = 1]
    [] m.path = "token" -> [mem EXCEPT !.step = 2, !.last = m.code]
    [] m.path = "resource" -> [mem EXCEPT !.step = 3]
    [] m.path = "refresh" -> [mem EXCEPT !.step = 4]

WebServed(m) == IF protocol = "http-basic" THEN HttpServed(m) ELSE OauthServed(m)

LastStep == IF protocol = "http-basic" THEN 3 ELSE 4

\* After the loop, however it was left.
WebResult(step) == IF step >= 3 THEN OK ELSE ABORT

WebServerServes ==
  /\ at.server = "accept" /\ net.server # <<>>
  /\ SignalWhileBusy("server")
  /\ LET m == Head(net.server)
         status == WebStatus(m)
     IN  /\ Exchange("server", 1, IF m.from = "client" THEN <<status>> ELSE <<>>)
         /\ mem' = IF status >= 400 THEN mem ELSE WebServed(m)
         /\ IF status >= 400 \/ mem'.step = LastStep \/ "server" \in stopped'
            THEN Finish("server", WebResult(mem'.step))
            ELSE Goto("server", "accept")
  /\ UNCHANGED <<settingVars, spent, fileVars>>

\* A signal ends the loop while the server waits for a connection, or for the rest
\* of a request, which it then answers with 400.
WebServerInterrupted ==
  /\ at.server = "accept" /\ "stop" \in faults
  /\ \/ UNCHANGED net
     \/ /\ net.server # <<>>
        /\ Exchange("server", 1, IF Head(net.server).from = "client" THEN <<400>> ELSE <<>>)
  /\ Finish("server", WebResult(mem.step))
  /\ UNCHANGED <<quietVars, mem>>

WebServer == WebServerServes \/ WebServerInterrupted

-----------------------------------------------------------------------------
(***************************************************************************)
(* The clients.  A script is the requests in order, each with the status   *)
(* that lets the client go on to the next one.                             *)
(***************************************************************************)
HttpScript ==
  LET Ask(path, good, status) == [request |-> HttpRequest(path, good, "client"), status |-> status]
      secret == mem.passwords[1]
  IN  CASE scenario = "bad-method" -> <<Ask("status", FALSE, 405)>>
        [] scenario = "bad-auth" -> <<Ask("status", TRUE, 200), Ask("auth", FALSE, 403)>>
        [] scenario = "payload-too-large" ->
             <<Ask("status", TRUE, 200), Ask("auth", secret, 200), Ask("upload", FALSE, 413)>>
        [] scenario = "normal" ->
             <<Ask("status", TRUE, 200), Ask("auth", secret, 200), Ask("upload", TRUE, 201)>>

OauthScript ==
  LET Ask(path, code, status) ==
        [request |-> OauthRequest(path, code, TRUE, "client"), status |-> status]
      authorize == Ask("authorize", "none", 302)
  IN  IF scenario = "token-replay"
      THEN <<authorize, Ask("token", "AUTH_CODE_REPLAY_42", 200),
             Ask("token", "AUTH_CODE_REPLAY_42", 400)>>
      ELSE <<authorize, Ask("token", "AUTH_CODE_42", 200),
             Ask("resource", "none", 200), Ask("refresh", "none", 200)>>

Script == IF protocol = "http-basic" THEN HttpScript ELSE OauthScript

\* The scenarios in which a client that gets to the end is content.
ScriptEndsOk == scenario \in {"normal", "auth-code", "pkce", "implicit-deprecated"}

\* Connecting to a server that has ended fails like the receive that follows.
WebClientStart ==
  /\ at.client = "start"
  /\ Send("client", <<Script[1].request>>)
  /\ mem' = [mem EXCEPT !.asked = 1]
  /\ Goto("client", "response")
  /\ UNCHANGED quietVars

WebClientResponse ==
  /\ at.client = "response" /\ net.client # <<>>
  /\ LET k == mem.asked
         expected == Head(net.client) = Script[k].status
     IN  \/ expected /\ k < Len(Script)
            /\ Exchange("client", 1, <<Script[k + 1].request>>)
            /\ mem' = [mem EXCEPT !.asked = k + 1]
            /\ Goto("client", "response")
         \/ expected /\ k = Len(Script)
            /\ Exchange("client", 1, <<>>) /\ UNCHANGED mem
            /\ Finish("client", IF ScriptEndsOk THEN OK ELSE ABORT)
         \/ ~expected
            /\ Exchange("client", 1, <<>>) /\ UNCHANGED mem
            /\ Finish("client", ABORT)
  /\ UNCHANGED quietVars

\* The server has closed its listener, or a signal interrupts the receive.
WebClientFails ==
  /\ at.client = "response" /\ ReceiveFails("client")
  /\ Finish("client", ABORT)
  /\ UNCHANGED <<quietVars, net, mem>>

WebClient == WebClientStart \/ WebClientResponse \/ WebClientFails

WebNext == WebServer \/ WebClient
=============================================================================
