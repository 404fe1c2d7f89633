------------------------------- MODULE HttpUrl -------------------------------
(***************************************************************************)
(* The URL parser of lamb/http/http-parser/http_parser.c (its strict        *)
(* build), and lamb/uri.cc on top of it.  A string is the sequence of its   *)
(* bytes; a byte is a string of length one, and a byte class a set.  URLs   *)
(* are shorter than 2^16 bytes, so the 16-bit offsets do not truncate.      *)
(***************************************************************************)
EXTENDS Integers, Sequences, TLC

At(s, i) == IF i \in 1..Len(s) THEN SubSeq(s, i, i) ELSE ""
Bytes(s) == {At(s, i) : i \in 1..Len(s)}

Lowercase == "abcdefghijklmnopqrstuvwxyz"
Uppercase == "ABCDEFGHIJKLMNOPQRSTUVWXYZ"
Digits == "0123456789"

IndexIn(c, s) == CHOOSE i \in 1..Len(s) : At(s, i) = c

IS_NUM == Bytes(Digits)
IS_ALPHA == Bytes(Lowercase) \cup Bytes(Uppercase)
IS_ALPHANUM == IS_ALPHA \cup IS_NUM
IS_HEX == IS_NUM \cup Bytes("abcdefABCDEF")
IS_USERINFO_CHAR == IS_ALPHANUM \cup Bytes("-_.!~*'()") \cup Bytes("%;:&=+$,")
IS_HOST_CHAR == IS_ALPHANUM \cup {".", "-"}
IS_TOKEN == IS_ALPHANUM \cup Bytes("!#$%&'*+-.^_|~")
IS_URL_CHAR == (IS_TOKEN \ {"#"}) \cup Bytes("\"(),/:;<=>@[\\]{}")

Digit(c) == IndexIn(c, Digits) - 1

\* c | 0x20; a tab becomes a closing parenthesis.
LOWER == [c \in IS_ALPHA |->
            IF c \in Bytes(Uppercase) THEN At(Lowercase, IndexIn(c, Uppercase)) ELSE c]
         @@ ("\t" :> ")")
Lower(c) == IF c \in DOMAIN LOWER THEN LOWER[c] ELSE c

Server == {"s_req_server_start", "s_req_server", "s_req_server_with_at"}
Query == {"s_req_query_string_start", "s_req_query_string"}
Fragment == {"s_req_fragment_start", "s_req_fragment"}

parse_url_char(s, ch) ==
    CASE ch \in Bytes(" \r\n\t\f") -> "s_dead"
      [] s = "s_req_spaces_before_url" /\ ch \in {"/", "*"} -> "s_req_path"
      [] s \in {"s_req_spaces_before_url", "s_req_schema"} /\ ch \in IS_ALPHA -> "s_req_schema"
      [] s = "s_req_schema" /\ ch = ":" -> "s_req_schema_slash"
      [] s = "s_req_schema_slash" /\ ch = "/" -> "s_req_schema_slash_slash"
      [] s = "s_req_schema_slash_slash" /\ ch = "/" -> "s_req_server_start"
      [] s = "s_req_server_with_at" /\ ch = "@" -> "s_dead"
      [] s \in Server /\ ch = "/" -> "s_req_path"
      [] s \in Server /\ ch = "?" -> "s_req_query_string_start"
      [] s \in Server \ {"s_req_server_with_at"} /\ ch = "@" -> "s_req_server_with_at"
      [] s \in Server /\ ch \in IS_USERINFO_CHAR \cup {"[", "]"} -> "s_req_server"
      [] s = "s_req_path" /\ ch \in IS_URL_CHAR -> s
      [] s = "s_req_path" /\ ch = "?" -> "s_req_query_string_start"
      [] s \in Query /\ ch \in IS_URL_CHAR \cup {"?"} -> "s_req_query_string"
      [] s \in Query \cup {"s_req_path"} /\ ch = "#" -> "s_req_fragment_start"
      [] s \in Fragment /\ ch \in IS_URL_CHAR \cup {"?"} -> "s_req_fragment"
      [] s \in Fragment /\ ch = "#" -> s
      [] OTHER -> "s_dead"

HostZone == IS_ALPHANUM \cup Bytes("%.-_~")

http_parse_host_char(s, ch) ==
    CASE s \in {"userinfo", "userinfo_start"} /\ ch = "@" -> "host_start"
      [] s \in {"userinfo", "userinfo_start"} /\ ch \in IS_USERINFO_CHAR -> "userinfo"
      [] s = "host_start" /\ ch = "[" -> "v6_start"
      [] s \in {"host_start", "host"} /\ ch \in IS_HOST_CHAR -> "host"
      [] s \in {"host", "v6_end"} /\ ch = ":" -> "port_start"
      [] s \in {"v6", "v6_zone"} /\ ch = "]" -> "v6_end"
      [] s \in {"v6", "v6_start"} /\ ch \in IS_HEX \cup {":", "."} -> "v6"
      [] s = "v6" /\ ch = "%" -> "v6_zone_start"
      [] s \in {"v6_zone", "v6_zone_start"} /\ ch \in HostZone -> "v6_zone"
      [] s \in {"port", "port_start"} /\ ch \in IS_NUM -> "port"
      [] OTHER -> "dead"

\* The field a host state adds its byte to, and whether it starts it anew.
HostField(s) ==
    CASE s \in {"host", "v6", "v6_zone_start", "v6_zone"} -> "host"
      [] s \in {"port", "userinfo"} -> s
      [] OTHER -> ""

RECURSIVE HostFrom(_, _, _, _)
HostFrom(host, i, s, u) ==
    IF i > Len(host)
    THEN [u EXCEPT !.ok = s \in {"host", "v6_end", "port"}]
    ELSE LET new == http_parse_host_char(s, At(host, i))
             f == HostField(new)
             fresh == new # s /\ new \in {"host", "v6", "port", "userinfo"}
             add == [u EXCEPT ![f] = (IF fresh THEN "" ELSE @) \o At(host, i)]
         IN  IF new = "dead" THEN [u EXCEPT !.ok = FALSE]
             ELSE HostFrom(host, i + 1, new, IF f = "" THEN u ELSE add)

http_parse_host(u, found_at) ==
    HostFrom(u.host, 1, IF found_at THEN "userinfo_start" ELSE "host_start",
             [u EXCEPT !.host = ""])

NoUrl == [ok |-> TRUE, schema |-> "", userinfo |-> "", host |-> "", port |-> "",
          path |-> "", query |-> "", fragment |-> ""]

UrlField(s) ==
    CASE s = "s_req_schema" -> "schema"
      [] s \in Server \ {"s_req_server_start"} -> "host"
      [] s = "s_req_path" -> "path"
      [] s = "s_req_query_string" -> "query"
      [] s = "s_req_fragment" -> "fragment"
      [] OTHER -> ""

\* Byte i has led to state s; then the bytes after it.
RECURSIVE FieldsFrom(_, _, _, _, _, _)
FieldsAt(buf, i, s, old_uf, found_at, u) ==
    LET uf == UrlField(s)
        at == found_at \/ s = "s_req_server_with_at"
        add == [u EXCEPT ![uf] = (IF uf = old_uf THEN @ ELSE "") \o At(buf, i)]
    IN  CASE s = "s_dead" -> [u EXCEPT !.ok = FALSE] @@ [found_at |-> at]
          [] uf = "" -> FieldsFrom(buf, i + 1, s, old_uf, at, u)
          [] OTHER -> FieldsFrom(buf, i + 1, s, uf, at, add)

FieldsFrom(buf, i, s, old_uf, found_at, u) ==
    IF i > Len(buf)
    THEN [u EXCEPT !.ok = ~(u.schema # "" /\ u.host = "")] @@ [found_at |-> found_at]
    ELSE FieldsAt(buf, i, parse_url_char(s, At(buf, i)), old_uf, found_at, u)

RECURSIVE Decimal(_)
Decimal(s) == IF s = "" THEN 0
              ELSE 10 * Decimal(SubSeq(s, 1, Len(s) - 1)) + Digit(At(s, Len(s)))

\* The check runs after every digit, so a long port cannot wrap the sum.
PortTooLarge(port) ==
    \E i \in 1..Len(port) : i <= 9 /\ Decimal(SubSeq(port, 1, i)) > 65535

HostParsed(r) ==
    LET u == [f \in DOMAIN NoUrl |-> r[f]]
    IN  IF u.ok /\ u.host # "" THEN http_parse_host(u, r.found_at) ELSE u

HostAndPortOnly(u) ==
    u.host # "" /\ u.port # "" /\ \A f \in DOMAIN u \ {"ok", "host", "port"} : u[f] = ""

UrlChecked(u, is_connect) ==
    [u EXCEPT !.ok = @ /\ (is_connect => HostAndPortOnly(u)) /\ ~PortTooLarge(u.port)]

http_parser_parse_url(buf, is_connect) ==
    LET start == IF is_connect THEN "s_req_server_start" ELSE "s_req_spaces_before_url"
    IN  IF buf = "" THEN [NoUrl EXCEPT !.ok = FALSE]
        ELSE UrlChecked(HostParsed(FieldsFrom(buf, 1, start, "", FALSE, NoUrl)), is_connect)

(***************************************************************************)
(* lamb/uri.cc                                                              *)
(***************************************************************************)
DefaultPort(scheme) == CASE scheme \in {"http", "ws"} -> 80 [] scheme = "https" -> 443 [] OTHER -> 0

\* Uri::Create(); ok is FALSE for the null pointer.
WithPort(u) == [u EXCEPT !.port = IF @ # "" THEN Decimal(@) ELSE DefaultPort(u.schema)]
UriCreate(urlstr) == WithPort(http_parser_parse_url(urlstr, FALSE))

getPath(uri) == IF uri.path = "" THEN "/" ELSE uri.path

getPort(uri) == IF uri.port # 0 THEN uri.port ELSE DefaultPort(uri.schema)

isDefaultPort(uri) == DefaultPort(uri.schema) # 0 /\ uri.port = DefaultPort(uri.schema)

UriToString(uri) ==
    uri.schema \o "://" \o uri.userinfo \o (IF uri.userinfo = "" THEN "" ELSE "@")
    \o uri.host \o (IF isDefaultPort(uri) THEN "" ELSE ":" \o ToString(uri.port))
    \o getPath(uri)
    \o (IF uri.query = "" THEN "" ELSE "?") \o uri.query
    \o (IF uri.fragment = "" THEN "" ELSE "#") \o uri.fragment
=============================================================================
