---------------------------- MODULE HttpExchange ----------------------------
(***************************************************************************)
(* One connection between an HTTP client and an HTTP server of lamb.        *)
(*                                                                          *)
(* The client is HttpConnection (DoRequest(), sendRequest(),                *)
(* recvResponse()) or WSConnection::Create(); the server is the fiber of    *)
(* HttpServer::handleClient() or WSServer::handleClient() with              *)
(* HttpSession::recvRequest(), WSSession::handleShake() and sendResponse(). *)
(* Each end may also be a foreign program that writes texts of its own.     *)
(*                                                                          *)
(* A socket is a stream of bytes: one recv() returns any number of the      *)
(* bytes that are there.  What the two parsers make of the pieces is        *)
(* HttpParser; here a read is one step.                                     *)
(***************************************************************************)
EXTENDS HttpMessage

CONSTANTS
    Servers,        \* name -> [kind, keepalive, dispatch, requests, answers]
    Handle(_, _),   \* Handle(servlet, req): status, headers and body it sets
    WSServlets,     \* the servlets that are WSServlets
    Accept(_),      \* the handshake's digest of a key
    BufferSize,     \* http.request.buffer_size
    FreeReads,      \* bound: reads of a message that may end anywhere
    MaxRounds       \* bound: requests on the connection

ASSUME HttpExchangeAssumption == {BufferSize, FreeReads, MaxRounds} \subseteq Nat \ {0}

Ends == {"server", "client"}
Peer(e) == IF e = "server" THEN "client" ELSE "server"
ParserOf(e) == NewParser(IF e = "server" THEN "request" ELSE "response")

VARIABLES
    setup,      \* the server's name
    phase,      \* phase[e]: what the fiber at end e is doing
    wire,       \* wire[e]: bytes sent to e that e has not read
    open,       \* open[e]: e has not closed its socket
    rx,         \* rx[e]: parser, reads so far, whether a read cut a token
    sent,       \* sent[e]: the message on its way to e, see Message
    result,     \* what the client's last call returned
    rounds,
    expired     \* a receive timeout has fired at some end

vars == <<setup, phase, wire, open, rx, sent, result, rounds, expired>>

Setup == Servers[setup]      \* its kind, keep-alive switch and servlets
Waiting(e) == [parser |-> ParserOf(e), reads |-> 0, cut |-> FALSE]
NoResult == [code |-> "none", rsp |-> NewMessage]

\* A message as it is sent: its bytes, what the receiver must make of them, and
\* whether every value is on one line ("whole"), or not ("folded"), or the
\* text breaks the grammar ("malformed"); args are the values of parameter k
\* and cookie b.
Message(text, msg, grade, args) == [text |-> text, msg |-> msg, grade |-> grade, args |-> args]
NoArgs == <<"", "">>
Nothing == Message("", NewMessage, "whole", NoArgs)

Init ==
    /\ setup \in DOMAIN Servers
    /\ phase = [server |-> "recv", client |-> "idle"]
    /\ wire = [e \in Ends |-> ""]
    /\ open = [e \in Ends |-> TRUE]
    /\ rx = [e \in Ends |-> Waiting(e)]
    /\ sent = [e \in Ends |-> Nothing]
    /\ result = NoResult
    /\ rounds = 0
    /\ expired = FALSE

\* writeFixSize(): the bytes are lost when the other end is closed.
Write(to, text) == wire' = [wire EXCEPT ![to] = IF open[to] THEN @ \o text ELSE @]

(***************************************************************************)
(* HttpRequestParser::execute(), HttpResponseParser::execute(): an error is *)
(* reported, except by a request parser that has seen an upgrade.  The bytes *)
(* after a finished message are dropped with the caller's buffer.           *)
(***************************************************************************)
Executed(y) ==
    CASE y.type = "request" /\ y.upgrade -> [y EXCEPT !.data.websocket = TRUE]
      [] y.http_errno # "OK" -> [y EXCEPT !.error = TRUE]
      [] OTHER -> y
execute(x, data) == Executed([http_parser_execute(x, data) EXCEPT !.ret = -1])

\* The callback of these states gets a token in pieces if a read ends there.
CutUrl(y) == y.http_errno = "CB_url" /\ y.state \in UrlStates
TokenStates == UrlStates \cup {"s_header_field", "s_header_value"}

(***************************************************************************)
(* The client.                                                              *)
(***************************************************************************)
\* DoRequest() and Create() up to recvResponse().  The request r is one that
\* the operators DoRequest and WSCreate build, or a foreign client's.
SendRequest(r) ==
    /\ phase["client"] = "idle"
    /\ open["client"]
    /\ rounds < MaxRounds
    /\ rounds' = rounds + 1
    /\ sent' = [server |-> r.message, client |-> Nothing]
    /\ Write("server", r.message.text)
    /\ phase' = [phase EXCEPT !["client"] = IF r.ws THEN "shake" ELSE "recv"]
    /\ rx' = [rx EXCEPT !["client"] = Waiting("client")]
    /\ result' = NoResult
    /\ UNCHANGED <<setup, open, expired>>

\* recvResponse() has returned rsp, or nothing.
Outcome(got, rsp) ==
    [code |-> CASE ~got -> "TIMEOUT"
                [] got /\ phase["client"] = "shake" /\ rsp.status # 101 -> "NOT_WEBSOCKET"
                [] OTHER -> "OK",
     rsp |-> IF got THEN rsp ELSE NewMessage]

(***************************************************************************)
(* Both receive loops: read, parse, stop on an error or a whole message.    *)
(***************************************************************************)
Receiving(e) == phase[e] \in {"recv", "shake"} /\ open[e]

\* The loop gives up: the socket is closed and there is no message.
GiveUp(e) ==
    /\ open' = [open EXCEPT ![e] = FALSE]
    /\ phase' = [phase EXCEPT ![e] = "closed"]
    /\ result' = IF e = "client" THEN Outcome(FALSE, NewMessage) ELSE result

Received(e, y) ==
    IF e = "server"
    THEN /\ rx' = [rx EXCEPT !["server"].parser = [y EXCEPT !.data = InitRequest(@)]]
         /\ phase' = [phase EXCEPT !["server"] = "handle"]
         /\ UNCHANGED result
    ELSE /\ result' = Outcome(TRUE, y.data)
         /\ rx' = [rx EXCEPT !["client"] = [Waiting("client") EXCEPT !.cut = rx["client"].cut]]
         /\ phase' = [phase EXCEPT !["client"] = IF phase["client"] = "shake" /\ y.data.status = 101
                                                 THEN "frames" ELSE "idle"]

\* The parser is y after what was read.
Parsed(e, y) ==
    CASE y.error -> /\ GiveUp(e)
                    /\ rx' = [rx EXCEPT ![e].parser = y, ![e].cut = @ \/ CutUrl(y)]
      [] ~y.error /\ y.finished -> Received(e, y) /\ UNCHANGED open
      [] OTHER -> /\ rx' = [rx EXCEPT ![e] = [parser |-> y,
                                              reads |-> IF @.reads < FreeReads THEN @.reads + 1 ELSE @.reads,
                                              cut |-> @.cut \/ y.state \in TokenStates]]
                  /\ UNCHANGED <<open, phase, result>>

\* recv() returns k bytes.
Read(e, k) ==
    LET most == IF Len(wire[e]) < BufferSize THEN Len(wire[e]) ELSE BufferSize
    IN  /\ Receiving(e)
        /\ wire[e] # ""
        /\ IF rx[e].reads < FreeReads THEN k \in 1..most ELSE k = most
        /\ wire' = [wire EXCEPT ![e] = SubSeq(@, k + 1, Len(@))]
        /\ Parsed(e, execute(rx[e].parser, SubSeq(wire[e], 1, k)))
        /\ UNCHANGED <<setup, sent, rounds, expired>>

\* recv() returns 0: the other end has closed and everything is read.
ReadEnd(e) ==
    /\ Receiving(e)
    /\ wire[e] = ""
    /\ ~open[Peer(e)]
    /\ GiveUp(e)
    /\ UNCHANGED <<setup, wire, rx, sent, rounds, expired>>

\* recv() returns -1: SO_RCVTIMEO of this end.
ReadTimeout(e) ==
    /\ Receiving(e)
    /\ wire[e] = ""
    /\ expired' = TRUE
    /\ GiveUp(e)
    /\ UNCHANGED <<setup, wire, rx, sent, rounds>>

\* The caller drops the connection: ~SocketStream() closes an owned socket.
ClientClose ==
    /\ phase["client"] = "idle"
    /\ open["client"]
    /\ rounds > 0
    /\ open' = [open EXCEPT !["client"] = FALSE]
    /\ UNCHANGED <<setup, phase, wire, rx, sent, result, rounds, expired>>

(***************************************************************************)
(* The server.                                                              *)
(***************************************************************************)
Request == rx["server"].parser.data

\* What the other end's parser makes of a dump().
Delivered(msg) ==
    [msg EXCEPT !.headers =
        (IF msg.websocket THEN EmptyMap ELSE ("connection" :> IF msg.close THEN "close" ELSE "keep-alive"))
        @@ (IF msg.body = "" THEN EmptyMap ELSE ("content-length" :> ToString(Len(msg.body))))
        @@ msg.headers]

\* A response carries no flags: its parser leaves them as they were.
OwnResponse(rsp) ==
    Message(DumpResponse(rsp), [Delivered(rsp) EXCEPT !.close = TRUE, !.websocket = FALSE], "whole", NoArgs)

\* sendResponse(), whose result nobody looks at, and the end of the round.
Answer(message, next) ==
    /\ Write("client", message.text)
    /\ sent' = [server |-> Nothing, client |-> message]
    /\ rx' = [rx EXCEPT !["server"] = Waiting("server")]
    /\ phase' = [phase EXCEPT !["server"] = next]
    /\ UNCHANGED <<setup, open, result, rounds, expired>>

\* The response, once the servlet has set its status, headers and body.
Response(set, close) ==
    OwnResponse([NewMessage EXCEPT !.version = Request.version, !.close = close,
                                   !.status = set.status, !.body = set.body,
                                   !.headers = set.headers @@ ("server" :> "lamb")])

\* Mutant: the response's connection header follows the request alone.
HttpHandleHeaderFromRequest ==
    LET slt == getMatchedServlet(Setup.dispatch, Request.path)
    IN  /\ Setup.kind = "http"
        /\ phase["server"] = "handle"
        /\ Answer(Response(Handle(slt, Request), Request.close),
                  IF Request.close \/ ~Setup.keepalive THEN "closing" ELSE "recv")

HttpHandle ==
    LET slt == getMatchedServlet(Setup.dispatch, Request.path)
        close == Request.close \/ ~Setup.keepalive
    IN  /\ Setup.kind = "http"
        /\ phase["server"] = "handle"
        /\ Answer(Response(Handle(slt, Request), close), IF close THEN "closing" ELSE "recv")

handleShake(req) ==
    /\ LowerString(Get(req.headers, "connection")) = "keep-alive, upgrade"
    /\ LowerString(Get(req.headers, "upgrade")) = "websocket"
    /\ Get(req.headers, "sec-websocket-version") = "13"
    /\ Get(req.headers, "sec-websocket-key") # ""

ShakeResponse(req) ==
    [NewMessage EXCEPT !.version = req.version, !.close = req.close, !.status = 101, !.websocket = TRUE,
                       !.headers = ("upgrade" :> "websocket") @@ ("connection" :> "Upgrade")
                                   @@ ("sec-websocket-accept" :> Accept(req.headers["sec-websocket-key"]))]

\* A refused handshake is not answered; an unknown path is found out too late.
WSHandle ==
    LET rsp == ShakeResponse(Request)
        known == getMatchedServlet(Setup.dispatch, Request.path) \in WSServlets
    IN  /\ Setup.kind = "ws"
        /\ phase["server"] = "handle"
        /\ IF handleShake(Request)
           THEN Answer(OwnResponse(rsp), IF known THEN "frames" ELSE "closing")
           ELSE Answer(Nothing, "closing")

\* A server that is not lamb's.
ForeignHandle ==
    /\ Setup.kind = "foreign"
    /\ phase["server"] = "handle"
    /\ \E a \in Setup.answers : Answer(a.message, IF a.close THEN "closing" ELSE "recv")

\* session->close() at the end of handleClient().
SessionClose ==
    /\ phase["server"] = "closing"
    /\ phase' = [phase EXCEPT !["server"] = "closed"]
    /\ open' = [open EXCEPT !["server"] = FALSE]
    /\ UNCHANGED <<setup, wire, rx, sent, result, rounds, expired>>

\* Nothing more will be asked, or nobody is there to answer.
Finished ==
    /\ phase["client"] \in {"closed", "frames"} \/ (phase["client"] = "idle" /\ ~open["client"])
    /\ phase["server"] \in {"closed", "frames"}
    /\ UNCHANGED vars

Reads(e) == \E k \in 1..BufferSize : Read(e, k)

Next ==
    \/ \E r \in Setup.requests : SendRequest(r)
    \/ ClientClose
    \/ \E e \in Ends : Reads(e) \/ ReadEnd(e) \/ ReadTimeout(e)
    \/ HttpHandle
    \/ WSHandle
    \/ ForeignHandle
    \/ SessionClose
    \/ Finished

\* IOManager wakes a reader whose socket is readable and runs a handler to its
\* end; nothing forces a timeout or a further request.  The two conditions say
\* it of the variables such a step changes: only Read(e, k) shortens wire[e],
\* and only a handler or SessionClose moves a server that is not receiving.
Consume(e) ==
    /\ Receiving(e)
    /\ wire[e] # ""
    /\ \E k \in 1..Len(wire[e]) : wire' = [wire EXCEPT ![e] = SubSeq(@, k + 1, Len(@))]

Serve ==
    /\ phase["server"] \in {"handle", "closing"}
    /\ \E p \in {"recv", "frames", "closing", "closed"} : phase' = [phase EXCEPT !["server"] = p]

Fairness ==
    /\ \A e \in Ends : WF_wire(Consume(e)) /\ WF_vars(ReadEnd(e))
    /\ WF_phase(Serve)

Spec == Init /\ [][Next]_vars /\ Fairness

(***************************************************************************)
(* Properties                                                               *)
(***************************************************************************)
\* What end e has read of the message that is on its way to it.
Prefix(e) == SubSeq(sent[e].text, 1, Len(sent[e].text) - Len(wire[e]))

\* The part of a parser that no callback can spoil.
Core(x) == [f \in DOMAIN x \ {"data", "field"} |-> x[f]]

\* y is the parser that got everything in one call.
AsInOneCall(r, y) ==
    ~y.error => /\ Core(r.parser) = Core(y)
                /\ r.parser.data.body = y.data.body
                /\ ~r.cut => r.parser = y

\* However the bytes of a message are cut into reads, the parser is where one
\* call on all of them would have left it, with the same body; and the whole
\* message is the same too unless a read ended inside the URL, a header name
\* or a header value, whose callbacks overwrite instead of appending
\* (http_parser.cc 135-196, http_parser.c 682-705 and 2054-2083).
SplitInvisible ==
    \A e \in Ends :
        (Receiving(e) /\ rx[e].reads > 0) => AsInOneCall(rx[e], execute(ParserOf(e), Prefix(e)))

\* A request reaches the servlet with the method, path, query, fragment,
\* version, headers and body its sender gave it, and the client's caller gets
\* the response the server sent for it (recvRequest(), recvResponse(), the two
\* dump() functions), the servlet finds the parameter and the cookie that were
\* encoded in it, and only a text that breaks the grammar is refused.
Intact(e, msg) == msg = sent[e].msg /\ sent[e].grade # "malformed"
ExchangeFaithful ==
    /\ (phase["server"] = "handle" /\ ~rx["server"].cut /\ sent["server"].grade # "folded")
            => /\ Intact("server", Request)
               /\ <<getParam(Request, "k"), getCookie(Request, "b")>> = sent["server"].args
    /\ (result.code \in {"OK", "NOT_WEBSOCKET"} /\ ~rx["client"].cut) => Intact("client", result.rsp)
    /\ \A e \in Ends : (rx[e].parser.error /\ ~rx[e].cut) => sent[e].grade = "malformed"

\* No assert() of http_parser.c fails, whatever text arrives in whatever pieces.
NoParserAbort == \A e \in Ends : ~rx[e].parser.abort

\* A client that was told "keep-alive" may send again: the server is still
\* reading unless its timeout has fired; and one told "close" finds the server
\* gone (http_server.cc 36-44, http.cc 270-279).
KeepAliveAgrees ==
    (Setup.kind = "http" /\ phase["client"] = "idle" /\ result.code = "OK" /\ ~rx["client"].cut) =>
        IF result.rsp.headers["connection"] = "keep-alive"
        THEN phase["server"] = "recv" \/ expired \/ ~open["client"]
        ELSE phase["server"] \in {"closing", "closed"}

\* The client's call returns without a timeout: the two ends never wait for
\* each other.  The exception is a final response without a body, which
\* HttpResponse::dump() sends without a length (http.cc 327-332) and the
\* client reads until the connection ends.
Unbounded(m) == m.text # "" /\ m.msg.body = "" /\ m.msg.status \notin {101, 204, 304}
AnswerComes ==
    (phase["client"] \in {"recv", "shake"} /\ open["client"])
        ~> (phase["client"] \notin {"recv", "shake"}
            \/ (Unbounded(sent["client"]) /\ phase["server"] = "recv"))
=============================================================================
