----------------------------- MODULE HttpParser -----------------------------
(***************************************************************************)
(* http_parser_execute() of lamb/http/http-parser/http_parser.c in its      *)
(* strict build, with the callbacks lamb/http/http_parser.cc gives it.      *)
(*                                                                          *)
(* An http_parser is a record: the struct's fields, under their names, then *)
(* the locals of one call (marks, the position, the value returned) and the *)
(* HttpRequestParser or HttpResponseParser it serves.  A call folds Step    *)
(* over the bytes of the buffer.  Loops that skip ahead in the C (header    *)
(* names and values, bodies) go byte by byte here; what the header loops    *)
(* put off, the check of the header size, is put off here too.  nread is    *)
(* the count the C keeps in a local and stores on return.                   *)
(***************************************************************************)
EXTENDS HttpUrl

CONSTANTS
    MaxHeaderSize,    \* HTTP_MAX_HEADER_SIZE
    ULLONG_MAX        \* of content_length; also "no length given"

ASSUME HttpParserAssumption == MaxHeaderSize \in Nat /\ ULLONG_MAX \in Nat /\ ULLONG_MAX >= 16

NoMark == [header_field |-> 0, header_value |-> 0, url |-> 0, body |-> 0, status |-> 0]
EmptyMap == [k \in {} |-> ""]

NewMessage == [method |-> "GET", status |-> 200, version |-> <<1, 1>>, path |-> "/",
               query |-> "", fragment |-> "", headers |-> EmptyMap, body |-> "",
               close |-> TRUE, websocket |-> FALSE]

\* http_parser_init() and the constructor of HttpRequestParser, HttpResponseParser
NewParser(type) ==
    [type |-> type, state |-> IF type = "request" THEN "s_start_req" ELSE "s_start_res",
     header_state |-> "h_general", index |-> 0, flags |-> {}, nread |-> 0,
     content_length |-> 0, http_major |-> 0, http_minor |-> 0, status_code |-> 0,
     method |-> "DELETE", http_errno |-> "OK", upgrade |-> FALSE,
     mark |-> NoMark, inner |-> FALSE, ret |-> -1, abort |-> FALSE,
     data |-> NewMessage, field |-> "", finished |-> FALSE, error |-> FALSE]

(***************************************************************************)
(* The callbacks.  One that fails leaves its name in http_errno.            *)
(***************************************************************************)
RECURSIVE LowerString(_)
LowerString(s) == IF s = "" THEN "" ELSE Lower(At(s, 1)) \o LowerString(SubSeq(s, 2, Len(s)))

\* m_headers compares names without case: the key is the name in lower case.
setHeader(msg, name, value) == [msg EXCEPT !.headers = (LowerString(name) :> value) @@ @]

SetUrl(x, u) ==
    LET set(new, old) == IF new = "" THEN old ELSE new
    IN  IF ~u.ok THEN [x EXCEPT !.http_errno = "CB_url"]
        ELSE [x EXCEPT !.data.path = set(u.path, @),
                       !.data.query = set(u.query, @),
                       !.data.fragment = set(u.fragment, @)]

on_url(x, text) ==
    IF x.type = "response" THEN x ELSE SetUrl(x, http_parser_parse_url(text, FALSE))

on_data(x, for, text) ==
    CASE for = "url" -> on_url(x, text)
      [] for = "header_field" -> [x EXCEPT !.field = text]
      [] for = "header_value" -> [x EXCEPT !.data = setHeader(@, x.field, text)]
      [] for = "body" -> [x EXCEPT !.data.body = @ \o text]
      [] for = "status" ->
            IF x.type = "response" THEN [x EXCEPT !.data.status = x.status_code] ELSE x

on_headers_complete(x) ==
    LET y == [x EXCEPT !.data.version = <<x.http_major, x.http_minor>>]
    IN  IF x.type = "request" THEN [y EXCEPT !.data.method = x.method]
                              ELSE [y EXCEPT !.data.status = x.status_code]

on_message_complete(x) == [x EXCEPT !.finished = TRUE]

(***************************************************************************)
(* The macros.  Byte i of the buffer d is being looked at.                  *)
(***************************************************************************)
Goto(x, s) == [x EXCEPT !.state = s]
Error(x, e, i) == [x EXCEPT !.http_errno = e, !.ret = i - 1]
Assertion(x, holds) == [x EXCEPT !.abort = @ \/ ~holds]
MARK(x, for, i) == [x EXCEPT !.mark[for] = IF @ = 0 THEN i ELSE @]

\* Data up to, not with, byte end; er is returned if the callback fails.
CallbackReturned(x, for, er) ==
    IF x.http_errno = "OK" THEN [x EXCEPT !.mark[for] = 0] ELSE [x EXCEPT !.ret = er]
CALLBACK_DATA_(x, for, d, end, er) ==
    IF x.mark[for] = 0 THEN x
    ELSE CallbackReturned(on_data(x, for, SubSeq(d, x.mark[for], end - 1)), for, er)

CALLBACK_DATA(x, for, d, i) == CALLBACK_DATA_(x, for, d, i, i)
CALLBACK_DATA_NOADVANCE(x, for, d, i) == CALLBACK_DATA_(x, for, d, i, i - 1)

STRICT_CHECK(x, bad, i, y) == IF bad THEN Error(x, "STRICT", i) ELSE y

Overflows(x) == x.nread > MaxHeaderSize
COUNT_HEADER_SIZE(x, i, y) == IF Overflows(x) THEN Error(x, "HEADER_OVERFLOW", i) ELSE y
SizeCounted(x, i) == COUNT_HEADER_SIZE(x, i, x)

BodyStates == {"s_chunk_data", "s_chunk_data_almost_done", "s_chunk_data_done",
               "s_body_identity", "s_body_identity_eof", "s_message_done"}
PARSING_HEADER(state) == state \notin BodyStates

http_message_needs_eof(x) ==
    /\ x.type = "response"
    /\ ~(x.status_code \div 100 = 1 \/ x.status_code \in {204, 304})
    /\ "F_CHUNKED" \notin x.flags
    /\ x.content_length = ULLONG_MAX

http_should_keep_alive(x) ==
    /\ IF x.http_major > 0 /\ x.http_minor > 0
       THEN "F_CONNECTION_CLOSE" \notin x.flags
       ELSE "F_CONNECTION_KEEP_ALIVE" \in x.flags
    /\ ~http_message_needs_eof(x)

NEW_MESSAGE(x) == CASE ~http_should_keep_alive(x) -> "s_dead"
                    [] x.type = "request" -> "s_start_req"
                    [] OTHER -> "s_start_res"

MessageComplete(x) == on_message_complete(Goto(x, NEW_MESSAGE(x)))

(***************************************************************************)
(* The first line.                                                          *)
(***************************************************************************)
\* States that accept one byte only: STRICT_CHECK(ch != byte), next state.
Literal ==
    ("s_res_H" :> <<"T", "s_res_HT">>) @@ ("s_res_HT" :> <<"T", "s_res_HTT">>)
    @@ ("s_res_HTT" :> <<"P", "s_res_HTTP">>) @@ ("s_res_HTTP" :> <<"/", "s_res_http_major">>)
    @@ ("s_res_line_almost_done" :> <<"\n", "s_header_field_start">>)
    @@ ("s_req_http_H" :> <<"T", "s_req_http_HT">>) @@ ("s_req_http_HT" :> <<"T", "s_req_http_HTT">>)
    @@ ("s_req_http_HTT" :> <<"P", "s_req_http_HTTP">>)
    @@ ("s_req_http_I" :> <<"C", "s_req_http_IC">>) @@ ("s_req_http_IC" :> <<"E", "s_req_http_HTTP">>)
    @@ ("s_req_http_HTTP" :> <<"/", "s_req_http_major">>)
    @@ ("s_header_value_discard_ws_almost_done" :> <<"\n", "s_header_value_discard_lws">>)

\* "1.1": the states of its digits and of what must follow each of them.
VersionDigit ==
    ("s_res_http_major" :> <<"http_major", "s_res_http_dot">>)
    @@ ("s_res_http_minor" :> <<"http_minor", "s_res_http_end">>)
    @@ ("s_req_http_major" :> <<"http_major", "s_req_http_dot">>)
    @@ ("s_req_http_minor" :> <<"http_minor", "s_req_http_end">>)

VersionAfter ==
    ("s_res_http_dot" :> (("." :> "s_res_http_minor")))
    @@ ("s_res_http_end" :> ((" " :> "s_res_first_status_code")))
    @@ ("s_req_http_dot" :> (("." :> "s_req_http_minor")))
    @@ ("s_req_http_end" :> (("\r" :> "s_req_line_almost_done") @@ ("\n" :> "s_header_field_start")))

VersionStep(x, ch, i) ==
    IF x.state \in DOMAIN VersionDigit
    THEN LET to == VersionDigit[x.state]
         IN  IF ch \in IS_NUM THEN [x EXCEPT ![to[1]] = Digit(ch), !.state = to[2]]
                              ELSE Error(x, "INVALID_VERSION", i)
    ELSE LET to == VersionAfter[x.state]
         IN  IF ch \in DOMAIN to THEN Goto(x, to[ch]) ELSE Error(x, "INVALID_VERSION", i)

CRLF == {"\r", "\n"}

FirstMethod ==
    ("A" :> "ACL") @@ ("B" :> "BIND") @@ ("C" :> "CONNECT") @@ ("D" :> "DELETE") @@ ("G" :> "GET")
    @@ ("H" :> "HEAD") @@ ("L" :> "LOCK") @@ ("M" :> "MKCOL") @@ ("N" :> "NOTIFY") @@ ("O" :> "OPTIONS")
    @@ ("P" :> "POST") @@ ("R" :> "REPORT") @@ ("S" :> "SUBSCRIBE") @@ ("T" :> "TRACE") @@ ("U" :> "UNLOCK")

\* Where a method's name parts from the one guessed so far: byte, position.
OtherMethod ==
    (<<"POST", 1, "U">> :> "PUT") @@ (<<"POST", 1, "A">> :> "PATCH") @@ (<<"POST", 1, "R">> :> "PROPFIND")
    @@ (<<"PUT", 2, "R">> :> "PURGE") @@ (<<"CONNECT", 1, "H">> :> "CHECKOUT")
    @@ (<<"CONNECT", 2, "P">> :> "COPY") @@ (<<"MKCOL", 1, "O">> :> "MOVE")
    @@ (<<"MKCOL", 1, "E">> :> "MERGE") @@ (<<"MKCOL", 1, "-">> :> "M-SEARCH")
    @@ (<<"MKCOL", 2, "A">> :> "MKACTIVITY") @@ (<<"MKCOL", 3, "A">> :> "MKCALENDAR")
    @@ (<<"SUBSCRIBE", 1, "E">> :> "SEARCH") @@ (<<"SUBSCRIBE", 1, "O">> :> "SOURCE")
    @@ (<<"REPORT", 2, "B">> :> "REBIND") @@ (<<"PROPFIND", 4, "P">> :> "PROPPATCH")
    @@ (<<"LOCK", 1, "I">> :> "LINK") @@ (<<"UNLOCK", 2, "S">> :> "UNSUBSCRIBE")
    @@ (<<"UNLOCK", 2, "B">> :> "UNBIND") @@ (<<"UNLOCK", 3, "I">> :> "UNLINK")

StartStep(x, ch, i) ==
    LET y == [x EXCEPT !.flags = {}, !.content_length = ULLONG_MAX]
    IN  CASE ch \in CRLF -> x
          [] x.state = "s_start_res" /\ ch = "H" -> Goto(y, "s_res_H")
          [] x.state = "s_start_res" /\ ch # "H" -> Error(y, "INVALID_CONSTANT", i)
          [] x.state = "s_start_req" /\ ch \in DOMAIN FirstMethod ->
                [y EXCEPT !.method = FirstMethod[ch], !.index = 1, !.state = "s_req_method"]
          [] OTHER -> Error(y, "INVALID_METHOD", i)

MethodStep(x, ch, i) ==
    LET matcher == x.method
        y == [x EXCEPT !.index = @ + 1]
        branch == <<x.method, x.index, ch>>
    IN  CASE ch = " " /\ x.index = Len(matcher) -> Goto(y, "s_req_spaces_before_url")
          [] ch = At(matcher, x.index + 1) -> y
          [] branch \in DOMAIN OtherMethod -> [y EXCEPT !.method = OtherMethod[branch]]
          [] OTHER -> Error(x, "INVALID_METHOD", i)

\* The states of the URL; only the later ones may end it.
UrlOpen == {"s_req_schema", "s_req_schema_slash", "s_req_schema_slash_slash", "s_req_server_start"}
UrlStates == UrlOpen \cup Server \cup Query \cup Fragment \cup {"s_req_path"}

UrlByte(x, ch, i) ==
    LET s == parse_url_char(x.state, ch)
    IN  IF s = "s_dead" THEN Error(Goto(x, s), "INVALID_URL", i) ELSE Goto(x, s)

UrlStep(x, d, ch, i) ==
    CASE x.state = "s_req_spaces_before_url" /\ ch = " " -> x
      [] x.state = "s_req_spaces_before_url" /\ ch # " " ->
            UrlByte(Goto(MARK(x, "url", i), IF x.method = "CONNECT" THEN "s_req_server_start" ELSE x.state),
                    ch, i)
      [] x.state \in UrlOpen /\ ch \in CRLF \cup {" "} -> Error(x, "INVALID_URL", i)
      [] x.state \in UrlStates \ UrlOpen /\ ch = " " ->
            CALLBACK_DATA(Goto(x, "s_req_http_start"), "url", d, i)
      [] x.state \in UrlStates \ UrlOpen /\ ch \in CRLF ->      \* HTTP/0.9
            CALLBACK_DATA([x EXCEPT !.http_major = 0, !.http_minor = 9,
                                    !.state = IF ch = "\r" THEN "s_req_line_almost_done"
                                                           ELSE "s_header_field_start"],
                          "url", d, i)
      [] OTHER -> UrlByte(x, ch, i)

HttpStartStep(x, ch, i) ==
    CASE ch = " " -> x
      [] ch = "H" -> Goto(x, "s_req_http_H")
      [] ch = "I" /\ x.method = "SOURCE" -> Goto(x, "s_req_http_I")
      [] OTHER -> Error(x, "INVALID_CONSTANT", i)

\* s_res_first_status_code, s_res_status_code; the second may look at ch again
StatusCodeStep(x, ch, i) ==
    LET code == IF x.state = "s_res_first_status_code" THEN Digit(ch)
                                                       ELSE 10 * x.status_code + Digit(ch)
        y == [x EXCEPT !.status_code = code, !.state = "s_res_status_code"]
    IN  CASE ch \in IS_NUM -> IF code > 999 THEN Error(y, "INVALID_STATUS", i) ELSE y
          [] x.state = "s_res_first_status_code" /\ ch = " " -> x
          [] x.state = "s_res_status_code" /\ ch = " " -> Goto(x, "s_res_status_start")
          [] OTHER -> Error(x, "INVALID_STATUS", i)

StatusStep(x, d, ch, i) ==
    CASE ch = "\r" -> CALLBACK_DATA(Goto(x, "s_res_line_almost_done"), "status", d, i)
      [] ch = "\n" -> CALLBACK_DATA(Goto(x, "s_header_field_start"), "status", d, i)
      [] OTHER -> x

(***************************************************************************)
(* Headers.  The names and values that matter are recognised byte by byte:  *)
(* index is the position in the word being matched.                         *)
(***************************************************************************)
HeaderFieldStart(x, ch, i) ==
    LET c == Lower(ch)
        h == CASE c = "c" -> "h_C"
               [] c = "p" -> "h_matching_proxy_connection"
               [] c = "t" -> "h_matching_transfer_encoding"
               [] c = "u" -> "h_matching_upgrade"
               [] OTHER -> "h_general"
    IN  IF ch \notin IS_TOKEN THEN Error(x, "INVALID_HEADER_TOKEN", i)
        ELSE [MARK(x, "header_field", i) EXCEPT !.index = 0, !.state = "s_header_field", !.header_state = h]

\* A word, the header state once it is matched, and the one on a mismatch.
MatchedWord ==
    ("h_matching_connection" :> <<"connection", "h_connection", "h_general">>)
    @@ ("h_matching_proxy_connection" :> <<"proxy-connection", "h_connection", "h_general">>)
    @@ ("h_matching_content_length" :> <<"content-length", "h_content_length", "h_general">>)
    @@ ("h_matching_transfer_encoding" :> <<"transfer-encoding", "h_transfer_encoding", "h_general">>)
    @@ ("h_matching_upgrade" :> <<"upgrade", "h_upgrade", "h_general">>)
    @@ ("h_matching_transfer_encoding_chunked" :> <<"chunked", "h_transfer_encoding_chunked", "h_general">>)
    @@ ("h_matching_connection_keep_alive" :>
            <<"keep-alive", "h_connection_keep_alive", "h_matching_connection_token">>)
    @@ ("h_matching_connection_close" :> <<"close", "h_connection_close", "h_matching_connection_token">>)
    @@ ("h_matching_connection_upgrade" :>
            <<"upgrade", "h_connection_upgrade", "h_matching_connection_token">>)

MatchByte(x, c) ==
    LET w == MatchedWord[x.header_state]
        at == x.index + 1
    IN  [x EXCEPT !.index = at,
                  !.header_state = CASE c # At(w[1], at + 1) -> w[3]
                                     [] at + 1 = Len(w[1]) -> w[2]
                                     [] OTHER -> @]

\* The prefix that "connection" and "content-length" share.
SharedPrefix ==
    ("h_C" :> ("o" :> "h_CO")) @@ ("h_CO" :> ("n" :> "h_CON"))
    @@ ("h_CON" :> (("n" :> "h_matching_connection") @@ ("t" :> "h_matching_content_length")))

NamedHeaders == {"h_connection", "h_content_length", "h_transfer_encoding", "h_upgrade"}

FieldByte(x, c) ==
    LET next == SharedPrefix[x.header_state]
    IN  CASE x.header_state \in DOMAIN SharedPrefix ->
                [x EXCEPT !.index = @ + 1,
                          !.header_state = IF c \in DOMAIN next THEN next[c] ELSE "h_general"]
          [] x.header_state \in DOMAIN MatchedWord -> MatchByte(x, c)
          [] x.header_state \in NamedHeaders -> [x EXCEPT !.header_state = "h_general"]
          [] x.header_state = "h_general" -> x
          [] OTHER -> Assertion(x, FALSE)

HeaderField(x, d, ch, i) ==
    IF ch \in IS_TOKEN THEN [FieldByte(x, Lower(ch)) EXCEPT !.inner = TRUE]
    ELSE COUNT_HEADER_SIZE(x, i,
            IF ch = ":"
            THEN CALLBACK_DATA([x EXCEPT !.state = "s_header_value_discard_ws", !.inner = FALSE],
                               "header_field", d, i)
            ELSE Error(x, "INVALID_HEADER_TOKEN", i))

ConnectionWord(c) == CASE c = "k" -> "h_matching_connection_keep_alive"
                       [] c = "c" -> "h_matching_connection_close"
                       [] c = "u" -> "h_matching_connection_upgrade"
                       [] OTHER -> "h_matching_connection_token"

HeaderValueStart(x, ch, i) ==
    LET y == [MARK(x, "header_value", i) EXCEPT !.state = "s_header_value", !.index = 0]
        to(h) == [y EXCEPT !.header_state = h]
        h0 == x.header_state
    IN  CASE h0 = "h_upgrade" -> [to("h_general") EXCEPT !.flags = @ \cup {"F_UPGRADE"}]
          [] h0 = "h_transfer_encoding" ->
                to(IF Lower(ch) = "c" THEN "h_matching_transfer_encoding_chunked" ELSE "h_general")
          [] h0 = "h_content_length" /\ ch \notin IS_NUM -> Error(y, "INVALID_CONTENT_LENGTH", i)
          [] h0 = "h_content_length" /\ ch \in IS_NUM ->
                IF "F_CONTENTLENGTH" \in x.flags THEN Error(y, "UNEXPECTED_CONTENT_LENGTH", i)
                ELSE [to("h_content_length_num") EXCEPT !.flags = @ \cup {"F_CONTENTLENGTH"},
                                                        !.content_length = Digit(ch)]
          [] h0 = "h_connection" -> to(ConnectionWord(Lower(ch)))
          [] h0 \in {"h_content_length_ws", "h_matching_connection_token_start"} -> y
          [] OTHER -> to("h_general")

\* t *= base; t += digit, in an unsigned integer that ULLONG_MAX bounds
NextLength(t, base, digit) == (t * base + digit) % (ULLONG_MAX + 1)
LengthOverflows(t, base) == (ULLONG_MAX - base) \div base < t

ContentLengthByte(x, ch, i) ==
    CASE ch = " " -> [x EXCEPT !.header_state = "h_content_length_ws"]
      [] ch \notin IS_NUM \/ LengthOverflows(x.content_length, 10) -> Error(x, "INVALID_CONTENT_LENGTH", i)
      [] OTHER -> [x EXCEPT !.content_length = NextLength(@, 10, Digit(ch))]

FlagOf == ("h_connection_keep_alive" :> {"F_CONNECTION_KEEP_ALIVE"})
          @@ ("h_connection_close" :> {"F_CONNECTION_CLOSE"})
          @@ ("h_connection_upgrade" :> {"F_CONNECTION_UPGRADE"})
          @@ ("h_transfer_encoding_chunked" :> {"F_CHUNKED"})
Flagged(x) == IF x.header_state \in DOMAIN FlagOf
              THEN [x EXCEPT !.flags = @ \cup FlagOf[x.header_state]] ELSE x

ConnectionTokens == {"h_connection_keep_alive", "h_connection_close", "h_connection_upgrade"}

ValueByte(x, ch, i) ==
    LET h == x.header_state
        c == Lower(ch)
        to(s) == [x EXCEPT !.header_state = s]
        nextToken(y) == [y EXCEPT !.header_state = "h_matching_connection_token_start", !.index = 0]
    IN  CASE h = "h_general" -> x
          [] h \in {"h_connection", "h_transfer_encoding"} -> Assertion(x, FALSE)
          [] h = "h_content_length" /\ ch = " " -> x
          [] h \in {"h_content_length", "h_content_length_num"} ->
                ContentLengthByte(to("h_content_length_num"), ch, i)
          [] h = "h_content_length_ws" -> IF ch = " " THEN x ELSE Error(x, "INVALID_CONTENT_LENGTH", i)
          [] h \in DOMAIN MatchedWord -> MatchByte(x, c)
          [] h = "h_matching_connection_token_start" ->
                IF c \in IS_TOKEN THEN to(ConnectionWord(c)) ELSE IF c = " " THEN x ELSE to("h_general")
          [] h = "h_matching_connection_token" -> IF ch = "," THEN nextToken(x) ELSE x
          [] h = "h_transfer_encoding_chunked" -> IF ch = " " THEN x ELSE to("h_general")
          [] h \in ConnectionTokens -> CASE ch = "," -> nextToken(Flagged(x))
                                         [] ch = " " -> x
                                         [] OTHER -> to("h_matching_connection_token")
          [] OTHER -> to("h_general")

\* IS_HEADER_CHAR rules out control bytes; the model's bytes hold none.
HeaderValue(x, d, ch, i) ==
    LET y == [x EXCEPT !.state = "s_header_almost_done", !.inner = FALSE]
    IN  CASE ch = "\r" ->
                SizeCounted(CALLBACK_DATA(y, "header_value", d, i), i)
          [] ch = "\n" ->
                COUNT_HEADER_SIZE(y, i, CALLBACK_DATA_NOADVANCE(y, "header_value", d, i))
          [] OTHER -> [ValueByte(x, ch, i) EXCEPT !.inner = TRUE]

\* The end of a header line: a blank means that the value goes on.
LineEnd == {"s_req_line_almost_done", "s_header_almost_done"}
LineEndStep(x, ch, i) ==
    CASE ch # "\n" -> Error(x, "LF_EXPECTED", i)
      [] x.state = "s_header_almost_done" -> Goto(x, "s_header_value_lws")
      [] OTHER -> Goto(x, "s_header_field_start")

HeaderFolds(x) ==
    [x EXCEPT !.state = "s_header_value_start",
              !.header_state = IF @ = "h_content_length_num" THEN "h_content_length_ws" ELSE @]

HeaderEnds(x) == Goto(Flagged(x), "s_header_field_start")

\* A header without a value; an empty content length is refused.
EmptyValue(x, d, i) ==
    IF x.header_state = "h_content_length" THEN Error(x, "INVALID_CONTENT_LENGTH", i)
    ELSE CALLBACK_DATA_NOADVANCE(HeaderEnds(MARK(x, "header_value", i)), "header_value", d, i)

HeadersComplete(x) ==
    LET both == {"F_UPGRADE", "F_CONNECTION_UPGRADE"} \subseteq x.flags
    IN  on_headers_complete(
            [x EXCEPT !.state = "s_headers_done",
                      !.upgrade = IF both THEN x.type = "request" \/ x.status_code = 101
                                          ELSE x.method = "CONNECT"])

(***************************************************************************)
(* The end of the headers, and bodies.                                      *)
(***************************************************************************)
BodyFollows(x, i) ==
    LET hasBody == "F_CHUNKED" \in x.flags \/ x.content_length \notin {0, ULLONG_MAX}
    IN  CASE x.upgrade /\ (x.method = "CONNECT" \/ ~hasBody) ->
                [MessageComplete(x) EXCEPT !.ret = i]
          [] "F_CHUNKED" \in x.flags -> Goto(x, "s_chunk_size_start")
          [] x.content_length = 0 -> MessageComplete(x)
          [] x.content_length # ULLONG_MAX -> Goto(x, "s_body_identity")
          [] http_message_needs_eof(x) -> Goto(x, "s_body_identity_eof")
          [] OTHER -> MessageComplete(x)

\* Mutant: the count of header bytes is not reset.
HeadersDoneKeepsNread(x, i) == BodyFollows(x, i)

HeadersDone(x, i) == BodyFollows([x EXCEPT !.nread = 0], i)

\* One byte of a body of known length.
CountedByte(x, i) ==
    [Assertion(MARK(x, "body", i), x.content_length \notin {0, ULLONG_MAX})
        EXCEPT !.content_length = @ - 1]

BodyIdentity(x, d, i) ==
    LET y == CountedByte(x, i)
    IN  IF y.content_length > 0 THEN y
        ELSE CALLBACK_DATA_(Goto(y, "s_message_done"), "body", d, i + 1, i - 1)

MessageDone(x, i) == IF x.upgrade THEN [MessageComplete(x) EXCEPT !.ret = i] ELSE MessageComplete(x)

Hex == "0123456789abcdef"
Unhex(ch) == IF ch \in IS_HEX THEN IndexIn(Lower(ch), Hex) - 1 ELSE -1

Chunked(x) == Assertion(x, "F_CHUNKED" \in x.flags)

ChunkSizeStart(x, ch, i) ==
    LET y == Assertion(Chunked(x), x.nread = 1)
    IN  IF Unhex(ch) = -1 THEN Error(y, "INVALID_CHUNK_SIZE", i)
        ELSE [y EXCEPT !.content_length = Unhex(ch), !.state = "s_chunk_size"]

\* Mutant: the digits of a chunk size are decimal.
ChunkSizeDecimal(x, ch, i) ==
    CASE ch = "\r" -> Goto(x, "s_chunk_size_almost_done")
      [] ch \in {";", " "} -> Goto(x, "s_chunk_parameters")
      [] ch \in IS_NUM -> [x EXCEPT !.content_length = NextLength(@, 10, Digit(ch))]
      [] OTHER -> Error(x, "INVALID_CHUNK_SIZE", i)

ChunkSize(x, ch, i) ==
    LET y == Chunked(x)
    IN  CASE ch = "\r" -> Goto(y, "s_chunk_size_almost_done")
          [] ch \in {";", " "} -> Goto(y, "s_chunk_parameters")
          [] Unhex(ch) = -1 -> Error(y, "INVALID_CHUNK_SIZE", i)
          [] LengthOverflows(y.content_length, 16) -> Error(y, "INVALID_CONTENT_LENGTH", i)
          [] OTHER -> [y EXCEPT !.content_length = NextLength(@, 16, Unhex(ch))]

ChunkParameters(x, ch) ==
    LET y == Chunked(x) IN IF ch = "\r" THEN Goto(y, "s_chunk_size_almost_done") ELSE y

ChunkSizeAlmostDone(x, ch, i) ==
    LET y == [Chunked(x) EXCEPT !.nread = 0]
    IN  STRICT_CHECK(x, ch # "\n", i,
            IF y.content_length = 0
            THEN [y EXCEPT !.flags = @ \cup {"F_TRAILING"}, !.state = "s_header_field_start"]
            ELSE Goto(y, "s_chunk_data"))

ChunkData(x, i) ==
    LET y == CountedByte(Chunked(x), i)
    IN  IF y.content_length = 0 THEN Goto(y, "s_chunk_data_almost_done") ELSE y

ChunkDataAlmostDone(x, d, ch, i) ==
    STRICT_CHECK(x, ch # "\r", i,
        CALLBACK_DATA(Goto(Assertion(Chunked(x), x.content_length = 0), "s_chunk_data_done"), "body", d, i))

ChunkDataDone(x, ch, i) ==
    STRICT_CHECK(x, ch # "\n", i, [Chunked(x) EXCEPT !.nread = 0, !.state = "s_chunk_size_start"])

(***************************************************************************)
(* One byte.  REEXECUTE looks at the same byte again in the new state.      *)
(***************************************************************************)
RECURSIVE Step(_, _, _)
REEXECUTE(x, d, i) == IF x.ret = -1 THEN Step(x, d, i) ELSE x

HeaderStep(x, d, ch, i) ==
    LET s == x.state
        blank == ch \in {" ", "\t"}
    IN  CASE s = "s_header_field_start" /\ ch = "\r" -> Goto(x, "s_headers_almost_done")
          [] s = "s_header_field_start" /\ ch = "\n" -> Step(Goto(x, "s_headers_almost_done"), d, i)
          [] s = "s_header_field_start" /\ ch \notin CRLF -> HeaderFieldStart(x, ch, i)
          [] s = "s_header_field" -> HeaderField(x, d, ch, i)
          [] s = "s_header_value_discard_ws" /\ blank -> x
          [] s = "s_header_value_discard_ws" /\ ch = "\r" ->
                Goto(x, "s_header_value_discard_ws_almost_done")
          [] s = "s_header_value_discard_ws" /\ ch = "\n" -> Goto(x, "s_header_value_discard_lws")
          [] s = "s_header_value_discard_ws" \/ s = "s_header_value_start" -> HeaderValueStart(x, ch, i)
          [] s = "s_header_value" ->
                LET y == HeaderValue(x, d, ch, i) IN IF ch = "\n" THEN REEXECUTE(y, d, i) ELSE y
          [] s = "s_header_value_lws" -> Step(IF blank THEN HeaderFolds(x) ELSE HeaderEnds(x), d, i)
          [] s = "s_header_value_discard_lws" /\ blank -> Goto(x, "s_header_value_discard_ws")
          [] s = "s_header_value_discard_lws" /\ ~blank -> REEXECUTE(EmptyValue(x, d, i), d, i)

HeadersAlmostDone(x, d, ch, i) ==
    CASE ch # "\n" -> Error(x, "STRICT", i)
      [] "F_TRAILING" \in x.flags -> Step(Goto(x, "s_message_done"), d, i)
      [] {"F_CHUNKED", "F_CONTENTLENGTH"} \subseteq x.flags -> Error(x, "UNEXPECTED_CONTENT_LENGTH", i)
      [] OTHER -> Step(HeadersComplete(x), d, i)

BodyStep(x, d, ch, i) ==
    CASE x.state = "s_headers_almost_done" -> HeadersAlmostDone(x, d, ch, i)
      [] x.state = "s_headers_done" -> STRICT_CHECK(x, ch # "\n", i, HeadersDone(x, i))
      [] x.state = "s_body_identity" ->
            LET y == BodyIdentity(x, d, i)
            IN  IF y.state = "s_message_done" THEN REEXECUTE(y, d, i) ELSE y
      [] x.state = "s_body_identity_eof" -> MARK(x, "body", i)
      [] x.state = "s_message_done" -> MessageDone(x, i)
      [] x.state = "s_chunk_size_start" -> ChunkSizeStart(x, ch, i)
      [] x.state = "s_chunk_size" -> ChunkSize(x, ch, i)
      [] x.state = "s_chunk_parameters" -> ChunkParameters(x, ch)
      [] x.state = "s_chunk_size_almost_done" -> ChunkSizeAlmostDone(x, ch, i)
      [] x.state = "s_chunk_data" -> ChunkData(x, i)
      [] x.state = "s_chunk_data_almost_done" -> ChunkDataAlmostDone(x, d, ch, i)
      [] x.state = "s_chunk_data_done" -> ChunkDataDone(x, ch, i)

LineStep(x, d, ch, i) ==
    LET s == x.state
    IN  CASE s = "s_dead" -> IF ch \in CRLF THEN x ELSE Error(x, "CLOSED_CONNECTION", i)
          [] s \in {"s_start_req", "s_start_res"} -> StartStep(x, ch, i)
          [] s \in DOMAIN Literal ->
                STRICT_CHECK(x, ch # Literal[s][1], i, Goto(x, Literal[s][2]))
          [] s \in DOMAIN VersionDigit \cup DOMAIN VersionAfter -> VersionStep(x, ch, i)
          [] s = "s_res_status_code" /\ ch \in CRLF -> Step(Goto(x, "s_res_status_start"), d, i)
          [] s \in {"s_res_first_status_code", "s_res_status_code"} -> StatusCodeStep(x, ch, i)
          [] s = "s_res_status_start" ->
                LET y == [MARK(x, "status", i) EXCEPT !.state = "s_res_status", !.index = 0]
                IN  IF ch \in CRLF THEN Step(y, d, i) ELSE y
          [] s = "s_res_status" -> StatusStep(x, d, ch, i)
          [] s = "s_req_method" -> MethodStep(x, ch, i)
          [] s \in UrlStates \cup {"s_req_spaces_before_url"} -> UrlStep(x, d, ch, i)
          [] s = "s_req_http_start" -> HttpStartStep(x, ch, i)
          [] s \in LineEnd -> LineEndStep(x, ch, i)

HeaderStates == {"s_header_field_start", "s_header_field", "s_header_value_discard_ws",
                 "s_header_value_start", "s_header_value", "s_header_value_lws",
                 "s_header_value_discard_lws"}
EndStates == BodyStates \cup {"s_headers_almost_done", "s_headers_done", "s_chunk_size_start",
                              "s_chunk_size", "s_chunk_parameters", "s_chunk_size_almost_done"}

Step(x, d, i) ==
    LET ch == At(d, i)
    IN  CASE x.state \in HeaderStates -> HeaderStep(x, d, ch, i)
          [] x.state \in EndStates -> BodyStep(x, d, ch, i)
          [] OTHER -> LineStep(x, d, ch, i)

CountedStep(x, d, i) ==
    LET y == IF PARSING_HEADER(x.state) THEN [x EXCEPT !.nread = @ + 1] ELSE x
    IN  IF PARSING_HEADER(x.state) /\ ~x.inner /\ Overflows(y) THEN Error(y, "HEADER_OVERFLOW", i)
                                                                ELSE Step(y, d, i)

\* Past the last byte: what is marked is handed over, complete or not.
Returning(x, n) == IF x.ret = -1 THEN [x EXCEPT !.ret = n] ELSE x
Leftover(x, d) ==
    LET end == Len(d) + 1
        set == {for \in DOMAIN x.mark : x.mark[for] # 0}
        y == Assertion(x, \A f, g \in set : f = g)
    IN  IF x.inner /\ Overflows(x) THEN Error(x, "HEADER_OVERFLOW", Len(d))
        ELSE IF set = {} THEN [y EXCEPT !.ret = Len(d)]
        ELSE Returning(CALLBACK_DATA_NOADVANCE(y, CHOOSE for \in set : TRUE, d, end), Len(d))

\* Bytes i to j, by halves: the depth of the recursion stays small.
RECURSIVE ExecuteBytes(_, _, _, _)
ExecuteBytes(x, d, i, j) ==
    LET half == (i + j) \div 2
    IN  CASE x.ret # -1 \/ i > j -> x
          [] i = j -> CountedStep(x, d, i)
          [] OTHER -> ExecuteBytes(ExecuteBytes(x, d, i, half), d, half + 1, j)

\* Marks the call takes up where the last one stopped.
Resumed(x) == CASE x.state = "s_header_field" -> [NoMark EXCEPT !.header_field = 1]
                [] x.state = "s_header_value" -> [NoMark EXCEPT !.header_value = 1]
                [] x.state \in UrlStates -> [NoMark EXCEPT !.url = 1]
                [] x.state = "s_res_status" -> [NoMark EXCEPT !.status = 1]
                [] OTHER -> NoMark

\* The sessions never pass an empty buffer: the cases of len == 0 are out.
AtEnd(x, d) == IF x.ret = -1 THEN Leftover(x, d) ELSE x
Execute(x, d) ==
    IF x.http_errno # "OK" THEN [x EXCEPT !.ret = 0]
    ELSE [AtEnd(ExecuteBytes([x EXCEPT !.mark = Resumed(x), !.ret = -1], d, 1, Len(d)), d)
            EXCEPT !.mark = NoMark, !.inner = FALSE]

\* Mutant: the position inside a matched word is a local of the call.
http_parser_executeForgetsIndex(x, d) == Execute([x EXCEPT !.index = 0], d)

http_parser_execute(x, d) == Execute(x, d)
=============================================================================
