------------------------------- MODULE MCHttp -------------------------------
(***************************************************************************)
(* HttpExchange for TLC: the requests and responses that are sent, and the  *)
(* servlets that answer them.                                               *)
(***************************************************************************)
EXTENDS HttpExchange

\* fnmatch() for a prefix followed by a star, and for a plain string
MCGlob(pattern, uri) ==
    LET n == Len(pattern)
    IN  IF At(pattern, n) = "*" THEN Len(uri) >= n - 1 /\ SubSeq(uri, 1, n - 1) = SubSeq(pattern, 1, n - 1) ELSE uri = pattern

MCAccept(key) == "d" \o key

MCWSServlets == {"chat"}
Reply(status, body) == [status |-> status, headers |-> EmptyMap, body |-> body]
MCHandle(slt, req) ==
    CASE slt = "echo" -> Reply(200, getParam(req, "k") \o getCookie(req, "b") \o req.body)
      [] slt = "first" -> Reply(200, "1")
      [] slt = "none" -> Reply(204, "")
      [] OTHER -> [Reply(404, "<html>") EXCEPT !.headers = ("content-type" :> "text/html")
                                                           @@ ("server" :> "lamb/1.0.0")]

\* Two globs match "/g/x": the first one that was added wins, and adding a
\* glob again puts it last.
MCDispatch ==
    LET d0 == addServlet(addServlet(NewDispatch("notfound"), "/e", "echo"), "/n", "none")
        d1 == addServlet(addServlet(d0, "/c", "chat"), "/old", "echo")
        d2 == addGlobServlet(addGlobServlet(d1, "/g*", "echo"), "/g/*", "first")
    IN  delServlet(addGlobServlet(delGlobServlet(addGlobServlet(d2, "/z*", "echo"), "/z*"), "/g*", "echo"), "/old")

OwnWith(msg, args) ==
    [message |-> Message(DumpRequest(msg), Delivered(msg), "whole", args), ws |-> msg.websocket]
Own(msg) == OwnWith(msg, NoArgs)
ForeignWith(text, grade, msg, args) == [message |-> Message(text, msg, grade, args), ws |-> FALSE]
Foreign(text, grade, msg) == ForeignWith(text, grade, msg, NoArgs)
Malformed(text) == Foreign(text, "malformed", NewMessage)

KeepAlive == "connection" :> "keep-alive"
Value == "a =&+%"
OwnRequests == {
    OwnWith(DoRequest("GET", "http://h:8/e?k=" \o UrlEncode(Value, TRUE) \o "#f", KeepAlive, ""), <<Value, "">>),
    OwnWith(DoRequest("PUT", "http://h/e", KeepAlive @@ ("content-type" :> FormType \o ";") @@ ("cookie" :> "a=0; b=c"),
                      "k=" \o UrlEncode("1 ", FALSE) \o "&k=2"), <<"1 ", "c">>),
    Own(DoRequest("POST", "http://u@h/g/x", "host" :> "v", "xy")),
    Own(DoRequest("GET", "http://h", EmptyMap, "")),
    Own(DoRequest("DELETE", "http://[::1]:8020/n", KeepAlive, ""))}

Method(name) ==
    Foreign(name \o " / HTTP/1.1\r\n\r\n", "whole", [NewMessage EXCEPT !.method = name])
Methods == {"HEAD", "OPTIONS", "TRACE", "COPY", "LOCK", "MKCOL", "MOVE", "PROPFIND", "PROPPATCH",
            "SEARCH", "UNLOCK", "BIND", "REBIND", "UNBIND", "ACL", "REPORT", "MKACTIVITY", "CHECKOUT",
            "MERGE", "M-SEARCH", "NOTIFY", "SUBSCRIBE", "UNSUBSCRIBE", "PATCH", "PURGE", "MKCALENDAR",
            "LINK", "UNLINK"}

Get1(headers) == [NewMessage EXCEPT !.headers = headers]
ForeignRequests == {
    Foreign("POST /e HTTP/1.1\r\nTransfer-Encoding: chunked\r\n\r\n3;x\r\nabc\r\n1\r\nd\r\n0\r\nT: v\r\n\r\n", "whole",
            [NewMessage EXCEPT !.method = "POST", !.path = "/e", !.body = "abcd",
                               !.headers = ("transfer-encoding" :> "chunked") @@ ("t" :> "v")]),
    Foreign("GET / HTTP/1.1\r\nX: a\r\n b\r\n\r\n", "folded", NewMessage),
    Foreign("\r\nGET / HTTP/1.0\nConnection: Keep-Alive\nE:\n\n", "whole",
            [Get1(("connection" :> "Keep-Alive") @@ ("e" :> "")) EXCEPT !.version = <<1, 0>>, !.close = FALSE]),
    ForeignWith("GET http://h:80/e?k=z HTTP/1.1\r\nCon: 1\r\nProxy-Connection: close\r\n\r\n", "whole",
            [Get1(("con" :> "1") @@ ("proxy-connection" :> "close")) EXCEPT !.path = "/e", !.query = "k=z"], <<"z", "">>),
    Foreign("POST /e HTTP/1.1\r\nContent-Length: 02 \r\n\r\nhi", "whole",
            [Get1("content-length" :> "02 ") EXCEPT !.method = "POST", !.path = "/e", !.body = "hi"]),
    Malformed("POST / HTTP/1.1\r\nContent-Length: 1030\r\n\r\n"),
    Malformed("POST / HTTP/1.1\r\nTransfer-Encoding: chunked\r\n\r\n400\r\n"),
    Malformed("POST / HTTP/1.1\r\nContent-Length: 1\r\nTransfer-Encoding: chunked\r\n\r\n"),
    Malformed("GET / HTTP/1.1\r\nA: 0123456789012345678901234567890123456789012345678901234567890123456789"
              \o "012345678901234567890123456789012345678901234567890123456789\r\n\r\n"),
    Malformed("GOT / HTTP/1.1\r\n\r\n")}

Shake(path, headers) == Own(WSCreate("ws://h" \o path, headers, "key"))
BothTokens == "connection" :> "keep-alive, Upgrade"
ShakeRequests == {Shake("/c", BothTokens), Shake("/x", BothTokens), Shake("/c", EmptyMap)}

Answered(text, grade, close, msg) == [message |-> Message(text, msg, grade, NoArgs), close |-> close]
Status(code, headers, body) == [NewMessage EXCEPT !.status = code, !.headers = headers, !.body = body]
Answers == {
    Answered("HTTP/1.1 200 OK\r\nTransfer-Encoding: chunked\r\n\r\n0a\r\n0123456789\r\n0\r\n\r\n", "whole", FALSE,
             Status(200, "transfer-encoding" :> "chunked", "0123456789")),
    Answered("HTTP/1.0 200\r\n\r\nuntil the end", "whole", TRUE,
             [Status(200, EmptyMap, "until the end") EXCEPT !.version = <<1, 0>>]),
    Answered("HTTP/1.1 304 Not\r\nA: 1\r\n\r\n", "whole", FALSE, Status(304, "a" :> "1", "")),
    Answered("HTTP/1.1 2000 OK\r\n\r\n", "malformed", FALSE, NewMessage),
    Answered("HTTP/1.1 404 no\r\nContent-Length: 0\r\n\r\n", "whole", TRUE,
             Status(404, "content-length" :> "0", ""))}

ServerOf(kind, keepalive, requests) ==
    [kind |-> kind, keepalive |-> keepalive, dispatch |-> MCDispatch, requests |-> requests,
     answers |-> IF kind = "foreign" THEN Answers ELSE {}]
MCServers ==
    ("keepalive" :> ServerOf("http", TRUE, OwnRequests \cup ForeignRequests \cup {Method(m) : m \in Methods}
                                           \cup {Shake("/c", EmptyMap)}))
    @@ ("close" :> ServerOf("http", FALSE, OwnRequests))
    @@ ("ws" :> ServerOf("ws", TRUE, ShakeRequests \cup {Method("HEAD")}))
    @@ ("foreign" :> ServerOf("foreign", TRUE, {Method("HEAD")}))
=============================================================================
