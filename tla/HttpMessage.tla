----------------------------- MODULE HttpMessage -----------------------------
(***************************************************************************)
(* lamb/http/http.cc and what builds requests and responses around it: how  *)
(* a message is printed, the connection header, parameters and cookies,     *)
(* StringUtil's URL codec, ServletDispatch, and the requests of             *)
(* HttpConnection::DoRequest() and WSConnection::Create().                  *)
(***************************************************************************)
EXTENDS HttpParser, FiniteSets

CONSTANTS
    Glob(_, _)      \* Glob(pattern, uri): fnmatch() accepts uri

Optional(prefix, s) == IF s = "" THEN "" ELSE prefix \o s
Get(map, key) == IF key \in DOMAIN map THEN map[key] ELSE ""
Without(map, key) == [k \in DOMAIN map \ {key} |-> map[k]]

\* The lines of a header map.  The map's order is alphabetical in the code;
\* no receiver can tell, so any order will do.
RECURSIVE HeaderLines(_, _)
HeaderLines(headers, sep) ==
    IF DOMAIN headers = {} THEN ""
    ELSE LET k == CHOOSE k \in DOMAIN headers : TRUE
         IN  k \o sep \o headers[k] \o "\r\n" \o HeaderLines(Without(headers, k), sep)

ConnectionLine(msg) ==
    IF msg.websocket THEN ""
    ELSE "connection: " \o (IF msg.close THEN "close" ELSE "keep-alive") \o "\r\n"

Version(msg) == "HTTP/" \o ToString(msg.version[1]) \o "." \o ToString(msg.version[2])

\* Mutant: a body goes out without its length.
BodyLinesNoLength(msg) == "\r\n" \o msg.body

BodyLines(msg) ==
    IF msg.body = "" THEN "\r\n"
    ELSE "content-length: " \o ToString(Len(msg.body)) \o "\r\n\r\n" \o msg.body

\* HttpRequest::dump()
DumpRequest(req) ==
    LET skip == (IF req.websocket THEN {} ELSE {"connection"})
                \cup (IF req.body = "" THEN {} ELSE {"content-length"})
        shown == [k \in DOMAIN req.headers \ skip |-> req.headers[k]]
    IN  req.method \o " " \o req.path \o Optional("?", req.query) \o Optional("#", req.fragment)
        \o " " \o Version(req) \o "\r\n"
        \o ConnectionLine(req) \o HeaderLines(shown, ":") \o BodyLines(req)

Reason(status) == CASE status = 200 -> "OK" [] status = 404 -> "Not Found"
                    [] status = 101 -> "Web Socket Protocol Handshake" [] OTHER -> "<unknown>"

\* HttpResponse::dump(), for a response that sets no cookie
DumpResponse(rsp) ==
    LET skip == IF rsp.websocket THEN {} ELSE {"connection"}
        shown == [k \in DOMAIN rsp.headers \ skip |-> rsp.headers[k]]
    IN  Version(rsp) \o " " \o ToString(rsp.status) \o " " \o Reason(rsp.status) \o "\r\n"
        \o HeaderLines(shown, ": ") \o ConnectionLine(rsp) \o BodyLines(rsp)

\* HttpRequest::init()
InitRequest(req) ==
    LET conn == Get(req.headers, "connection")
    IN  IF conn = "" THEN req ELSE [req EXCEPT !.close = LowerString(conn) # "keep-alive"]

(***************************************************************************)
(* StringUtil                                                               *)
(***************************************************************************)
\* The codes of the bytes the model escapes.
Code == (" " :> 32) @@ ("%" :> 37) @@ ("&" :> 38) @@ ("+" :> 43) @@ ("/" :> 47) @@ (";" :> 59) @@ ("?" :> 63)
UNRESERVED == IS_ALPHANUM \cup Bytes("-.=_~")
HexDigits == "0123456789ABCDEF"

RECURSIVE UrlEncode(_, _)
UrlEncode(s, space_as_plus) ==
    IF s = "" THEN ""
    ELSE LET c == At(s, 1)
             e == CASE c \in UNRESERVED -> c
                    [] c = " " /\ space_as_plus -> "+"
                    [] OTHER -> "%" \o At(HexDigits, 1 + (Code[c] \div 16)) \o At(HexDigits, 1 + (Code[c] % 16))
         IN  e \o UrlEncode(SubSeq(s, 2, Len(s)), space_as_plus)

\* An escape whose code is none of the model's bytes is outside the model.
RECURSIVE UrlDecode(_, _)
UrlDecode(s, space_as_plus) ==
    LET escape == Len(s) > 2 /\ At(s, 2) \in IS_HEX /\ At(s, 3) \in IS_HEX
        code == 16 * Unhex(At(s, 2)) + Unhex(At(s, 3))
        rest(n) == UrlDecode(SubSeq(s, n, Len(s)), space_as_plus)
    IN  CASE s = "" -> ""
          [] At(s, 1) = "+" /\ space_as_plus -> " " \o rest(2)
          [] At(s, 1) = "%" /\ escape -> (CHOOSE c \in DOMAIN Code : Code[c] = code) \o rest(4)
          [] OTHER -> At(s, 1) \o rest(2)

RECURSIVE TrimLeft(_)
TrimLeft(s) == IF At(s, 1) \in Bytes(" \t\r\n") THEN TrimLeft(SubSeq(s, 2, Len(s))) ELSE s
RECURSIVE TrimEnd(_)
TrimEnd(s) == IF At(s, Len(s)) \in Bytes(" \t\r\n") THEN TrimEnd(SubSeq(s, 1, Len(s) - 1)) ELSE s
Trim(s) == TrimEnd(TrimLeft(s))

(***************************************************************************)
(* Parameters and cookies: std::string::find, PARSE_PARAM.                  *)
(***************************************************************************)
RECURSIVE Find(_, _, _)
Find(s, c, pos) == IF pos > Len(s) THEN 0 ELSE IF At(s, pos) = c THEN pos ELSE Find(s, c, pos + 1)

\* insert() keeps the value that is there.
RECURSIVE ParseParam(_, _, _, _, _)
ParseParam(s, pos, map, flag, trim) ==
    LET key == Find(s, "=", pos)
        end == Find(s, flag, key)
        last == IF end = 0 THEN Len(s) ELSE end - 1
        raw == SubSeq(s, pos, key - 1)
        name == LowerString(UrlDecode(IF trim THEN Trim(raw) ELSE raw, TRUE))
        new == map @@ (name :> UrlDecode(SubSeq(s, key + 1, last), TRUE))
    IN  CASE pos > Len(s) \/ key = 0 -> map
          [] end = 0 -> new
          [] OTHER -> ParseParam(s, end + 1, new, flag, trim)

\* initQueryParam(), initBodyParam() and initCookies() run before a look-up.
Contains(s, t) == \E i \in 1..(Len(s) - Len(t) + 1) : SubSeq(s, i, i + Len(t) - 1) = t
FormType == "application/x-www-form-urlencoded"
getParam(req, key) ==
    LET inQuery == ParseParam(req.query, 1, EmptyMap, "&", FALSE)
        form == Contains(LowerString(Get(req.headers, "content-type")), FormType)
    IN  Get(IF form THEN ParseParam(req.body, 1, inQuery, "&", FALSE) ELSE inQuery, key)

getCookie(req, key) == Get(ParseParam(Get(req.headers, "cookie"), 1, EmptyMap, ";", TRUE), key)

(***************************************************************************)
(* Requests as the clients build them.  headers: lower-case name -> value.  *)
(***************************************************************************)
WithUri(method, uri, body) ==
    [NewMessage EXCEPT !.method = method, !.path = getPath(uri), !.query = uri.query,
                       !.fragment = uri.fragment, !.body = body]

WithHost(req, uri) ==
    IF Get(req.headers, "host") # "" THEN req ELSE setHeader(req, "Host", uri.host)

\* HttpConnection::DoRequest(method, uri, timeout, headers, body)
RequestTo(uri, method, headers, body) ==
    LET req == [WithUri(method, uri, body) EXCEPT
                    !.headers = Without(headers, "connection"),
                    !.close = LowerString(Get(headers, "connection")) # "keep-alive"]
    IN  WithHost(req, uri)
DoRequest(method, url, headers, body) == RequestTo(UriCreate(url), method, headers, body)

\* WSConnection::Create(url, timeout, headers); key is base64encode(random_string(16))
ShakeTo(uri, headers, key) ==
    LET own == ("upgrade" :> "websocket") @@ ("sec-websocket-version" :> "13")
               @@ ("sec-websocket-key" :> key)
        req == [WithUri("GET", uri, "") EXCEPT
                    !.headers = own @@ headers @@ ("connection" :> "Upgrade"),
                    !.websocket = TRUE]
    IN  WithHost(req, uri)
WSCreate(url, headers, key) == ShakeTo(UriCreate(url), headers, key)

(***************************************************************************)
(* ServletDispatch: datas maps a uri to a servlet, globs is a sequence of   *)
(* <<pattern, servlet>>.                                                    *)
(***************************************************************************)
NewDispatch(default) == [datas |-> EmptyMap, globs |-> <<>>, default |-> default]

addServlet(d, uri, slt) == [d EXCEPT !.datas = (uri :> slt) @@ @]
delServlet(d, uri) == [d EXCEPT !.datas = Without(@, uri)]

\* The first entry with this pattern goes; there is never a second one.
delGlobServlet(d, uri) ==
    LET other(g) == g[1] # uri IN [d EXCEPT !.globs = SelectSeq(@, other)]
addGlobServlet(d, uri, slt) ==
    LET e == delGlobServlet(d, uri) IN [e EXCEPT !.globs = Append(@, <<uri, slt>>)]

getMatchedServlet(d, uri) ==
    LET hits == {i \in 1..Len(d.globs) : Glob(d.globs[i][1], uri)}
    IN  CASE uri \in DOMAIN d.datas -> d.datas[uri]
          [] uri \notin DOMAIN d.datas /\ hits # {} ->
                d.globs[CHOOSE i \in hits : \A j \in hits : i <= j][2]
          [] OTHER -> d.default
=============================================================================
