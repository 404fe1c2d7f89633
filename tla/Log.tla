--------------------------------- MODULE Log ---------------------------------
(***************************************************************************)
(* Loggers, appenders and formatters (log.cc, include/log.h), as operators  *)
(* on records: the table of loggers is part of the memory of the process    *)
(* that module Config describes.  The framework's own records, which go to   *)
(* the loggers root and system, are left out.                               *)
(*                                                                          *)
(* A rendered record is the sequence of its format items; what an item      *)
(* prints (a name, a number, a date) is left out.                           *)
(***************************************************************************)
EXTENDS Integers, Sequences

LogLevel == [UNKNOW |-> 0, DEBUG |-> 1, INFO |-> 2, WARN |-> 3, ERROR |-> 4, FATAL |-> 5, NOTSET |-> 6]

LevelNames == [debug |-> "DEBUG", info |-> "INFO", warn |-> "WARN", error |-> "ERROR", fatal |-> "FATAL"]

\* All lower case or all upper case; anything else, "" included, is UNKNOW.
FromString(str) ==
    IF str \in DOMAIN LevelNames THEN LogLevel[LevelNames[str]]
    ELSE IF \E l \in DOMAIN LevelNames : LevelNames[l] = str THEN LogLevel[str]
    ELSE LogLevel.UNKNOW

(***************************************************************************)
(* LogFormatter::init: plain text and %-items, in two states.               *)
(***************************************************************************)
CharAt(s, i) == SubSeq(s, i, i)

FormatItems == {"m", "p", "c", "r", "f", "l", "t", "F", "N", "n", "T", "%"}

\* Where the braces that open at i close; one past the end when they do not.
RECURSIVE Closing(_, _)
Closing(s, i) == IF i > Len(s) \/ CharAt(s, i) = "}" THEN i ELSE Closing(s, i + 1)

Plain(tmp) == IF tmp = "" THEN <<>> ELSE << <<0, tmp>> >>

\* The first loop: the patterns found and the date format, or an error.
\* `past' is the byte after the terminator, which a pattern that ends in %d reads.
RECURSIVE Scan(_, _, _, _, _, _)
Scan(s, past, i, patterns, tmp, date) ==
    LET item == CharAt(s, i + 1)
        found == patterns \o Plain(tmp) \o << <<1, item>> >>
        close == Closing(s, i + 3)
    IN  CASE i > Len(s) -> [error |-> FALSE, patterns |-> patterns \o Plain(tmp), date |-> date]
          [] i <= Len(s) /\ CharAt(s, i) # "%" -> Scan(s, past, i + 1, patterns, tmp \o CharAt(s, i), date)
          [] i = Len(s) /\ CharAt(s, i) = "%" -> Scan(s, past, i + 1, patterns, tmp, date)
          [] i < Len(s) /\ CharAt(s, i) = "%" ->
                IF item # "d" \/ (i + 2 <= Len(s) /\ CharAt(s, i + 2) # "{")
                THEN Scan(s, past, i + 2, found, "", date)
                ELSE IF i + 1 = Len(s)
                THEN [error |-> past # "}", patterns |-> found, date |-> date]
                ELSE IF close > Len(s) THEN [error |-> TRUE, patterns |-> <<>>, date |-> date]
                ELSE Scan(s, past, close + 1, found, "", date \o SubSeq(s, i + 3, close - 1))

\* The second loop stops at the first unknown item and keeps those before it.
RECURSIVE ItemsFrom(_, _, _)
ItemsFrom(patterns, date, items) ==
    IF patterns = <<>> THEN [m_error |-> FALSE, m_items |-> items]
    ELSE LET v == Head(patterns)
             next(item) == ItemsFrom(Tail(patterns), date, Append(items, item))
         IN  CASE v[1] = 0 -> next(v)
               [] v[1] = 1 /\ v[2] = "d" -> next(<<2, date>>)
               [] v[1] = 1 /\ v[2] \in FormatItems -> next(v)
               [] OTHER -> [m_error |-> TRUE, m_items |-> items]

\* Mutant: the text after the last item is forgotten.
InitFormatterNoTail(pattern, past) ==
    LET r == Scan(pattern, past, 1, <<>>, "", "")
        n == Len(r.patterns)
    IN  IF r.error THEN [m_error |-> TRUE, m_items |-> <<>>]
        ELSE ItemsFrom(IF n > 0 /\ r.patterns[n][1] = 0 THEN SubSeq(r.patterns, 1, n - 1) ELSE r.patterns,
                       r.date, <<>>)

InitFormatter(pattern, past) ==
    LET r == Scan(pattern, past, 1, <<>>, "", "")
    IN  IF r.error THEN [m_error |-> TRUE, m_items |-> <<>>] ELSE ItemsFrom(r.patterns, r.date, <<>>)

(***************************************************************************)
(* FileLogAppender.  The stream has an open file (an inode, 0 for none) and *)
(* an error flag; open() on a stream that is still open fails, and only     *)
(* close() or a successful open() brings it back.  `dir' says where each    *)
(* path leads now: [inode, ok] with ok FALSE while it cannot be opened.     *)
(***************************************************************************)
\* Mutant: the old file is kept open.
reopenKeepsFile(a, dir) == [a EXCEPT !.m_reopenError = ~dir[a.file].ok]

reopen(a, dir) ==
    LET open == IF a.bad THEN a.open ELSE 0
        ok == open = 0 /\ dir[a.file].ok
    IN  [a EXCEPT !.open = IF ok THEN dir[a.file].inode ELSE open, !.bad = ~ok, !.m_reopenError = ~ok]

FileLogAppender(file, pattern, dir) ==
    reopen([type |-> 1, file |-> file, pattern |-> pattern, m_lastTime |-> 0,
            m_reopenError |-> FALSE, open |-> 0, bad |-> FALSE], dir)

\* What is printed on the terminal, which depends on a level no constructor sets, is
\* left out.
StdoutLogAppender(pattern) == [type |-> 2, pattern |-> pattern]

\* The appender after it has seen an event of time t; `fails' when the write does.
AfterLog(a, t, dir, fails) ==
    IF a.type = 2 THEN a
    ELSE LET b == IF t >= a.m_lastTime + 3 THEN [reopen(a, dir) EXCEPT !.m_lastTime = t] ELSE a
         IN  IF b.m_reopenError THEN b ELSE [b EXCEPT !.bad = @ \/ fails]

\* The file a record of an appender that has just seen it went to, 0 for none.
Landed(b) == IF b.type = 2 \/ b.m_reopenError \/ b.bad THEN 0 ELSE b.open

(***************************************************************************)
(* Loggers.                                                                 *)
(***************************************************************************)
NewLogger == [m_level |-> LogLevel.DEBUG, m_appenders |-> <<>>]

\* LoggerMgr::getLogger creates a logger at its first use.
getLogger(loggers, name) == IF name \in DOMAIN loggers THEN loggers[name] ELSE NewLogger

WithLogger(loggers, name, logger) ==
    [n \in DOMAIN loggers \cup {name} |-> IF n = name THEN logger ELSE loggers[n]]

LoggerManager ==
    [root |-> [NewLogger EXCEPT !.m_appenders = <<StdoutLogAppender("")>>]]

(***************************************************************************)
(* The listener of the configuration variable "logs", whose value maps the  *)
(* name of a logger to its LogDefine.                                       *)
(***************************************************************************)
Deleted == [m_level |-> 100, m_appenders |-> <<>>]

Defined(define, dir) ==
    [m_level |-> define.level,
     m_appenders |-> [i \in DOMAIN define.appenders |->
                        LET a == define.appenders[i]
                        IN  IF a.type = 1 THEN FileLogAppender(a.file, a.pattern, dir)
                            ELSE StdoutLogAppender(a.pattern)]]

\* Mutant: a logger that left the configuration is left alone.
LogIniterKeepsRemoved(loggers, old, new, dir) ==
    LET changed == {n \in DOMAIN new : n \notin DOMAIN old \/ old[n] # new[n]}
    IN  [n \in DOMAIN loggers \cup changed |->
            IF n \in changed THEN Defined(new[n], dir) ELSE loggers[n]]

LogIniter(loggers, old, new, dir) ==
    LET changed == {n \in DOMAIN new : n \notin DOMAIN old \/ old[n] # new[n]}
        removed == DOMAIN old \ DOMAIN new
    IN  [n \in DOMAIN loggers \cup changed \cup removed |->
            IF n \in changed THEN Defined(new[n], dir)
            ELSE IF n \in removed THEN Deleted
            ELSE loggers[n]]
=============================================================================
