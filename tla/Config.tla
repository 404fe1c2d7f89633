------------------------------- MODULE Config -------------------------------
(***************************************************************************)
(* Configuration variables loaded from a directory of YAML files, and what  *)
(* follows them (config.cc, include/config.h, env.cc, log.cc, daemon.cc).   *)
(*                                                                          *)
(* One process, started by start_daemon, loads its directory as often as it *)
(* likes, while somebody edits, removes and restores the files, rotates the *)
(* log file, and time passes in seconds, which is what a file time can tell *)
(* apart.  The process may crash: the supervisor forks a new one from its   *)
(* own memory.                                                              *)
(***************************************************************************)
EXTENDS Log, FiniteSets, SequencesExt

CONSTANTS Scenarios,    \* [argv, mtime, calls]: the command line, the time of the files,
                        \* and how often each kind of call may come
          Tree,         \* directory -> its entries in readdir order: [name, dir]
          Docs,         \* the documents a file may hold: name -> YAML node, or Broken
          Casts,        \* configuration variable -> its type, "uint" or "logs"
          Late,         \* the variables that are looked up after the start
          LogPaths,     \* the log files
          Loggers,      \* the loggers the program writes to
          Patterns,     \* log patterns, as sequences of format items
          Defaults      \* variable -> default value

ASSUME ConfigAssumption ==
    /\ Late \subseteq DOMAIN Casts /\ DOMAIN Defaults = DOMAIN Casts
    /\ \A s \in Scenarios : s.calls \in [{"load", "edit", "log", "exit", "tick"} -> Nat]

VARIABLES argv,           \* the command line
          now,            \* seconds
          disk,           \* file -> [doc, mtime]
          dir,            \* log path -> [inode, ok]
          mem,            \* the memory of the process
          load,           \* LoadFromConfDir: [pc, todo, file, force]
          event,          \* a log event created and not yet delivered
          proc,           \* "main", "sleep" between a crash and the next fork, "ended"
          restart_count,
          left,           \* how many left of each kind may still come
          ghost           \* what the properties remember

vars == <<argv, now, disk, dir, mem, load, event, proc, restart_count, left, ghost>>

(***************************************************************************)
(* Env.                                                                     *)
(***************************************************************************)
m_cwd == "/app/"
NoKey == ""
EmptyMap == [x \in {} |-> 0]

Put(f, k, v) == [x \in DOMAIN f \cup {k} |-> IF x = k THEN v ELSE f[x]]

\* Env::init: -key value, -key; stops at the first word that is neither.
RECURSIVE EnvInit(_, _, _)
EnvInit(words, now_key, args) ==
    IF words = <<>> THEN IF now_key = NoKey THEN args ELSE Put(args, now_key, "")
    ELSE LET w == Head(words)
             option == Len(w) > 0 /\ CharAt(w, 1) = "-"
         IN  CASE option /\ Len(w) > 1 ->
                    EnvInit(Tail(words), SubSeq(w, 2, Len(w)),
                            IF now_key = NoKey THEN args ELSE Put(args, now_key, ""))
               [] ~option /\ now_key # NoKey -> EnvInit(Tail(words), NoKey, Put(args, now_key, w))
               [] OTHER -> args

EnvGet(args, key, default) == IF key \in DOMAIN args THEN args[key] ELSE default

getAbsolutePath(path) == IF path = "" THEN "/" ELSE IF CharAt(path, 1) = "/" THEN path ELSE m_cwd \o path

getConfigPath == getAbsolutePath(EnvGet(EnvInit(argv, NoKey, EmptyMap), "c", "conf"))

EndsIn(s, suffix) == Len(s) >= Len(suffix) /\ SubSeq(s, Len(s) - Len(suffix) + 1, Len(s)) = suffix

\* FSUtil::ListAllFile of a directory of Tree.
RECURSIVE FilesUnder(_)
FilesUnder(path) ==
    IF path \notin DOMAIN Tree THEN <<>>
    ELSE LET of(e) == LET full == path \o "/" \o e.name
                      IN  IF e.dir THEN IF e.name \in {".", ".."} THEN <<>> ELSE FilesUnder(full)
                          ELSE IF EndsIn(e.name, ".yml") THEN <<full>> ELSE <<>>
         IN  FlattenSeq([i \in DOMAIN Tree[path] |-> of(Tree[path][i])])

ListAllFile == SelectSeq(FilesUnder(getConfigPath), LAMBDA f : disk[f].doc # "absent")

(***************************************************************************)
(* YAML nodes: [kind, text], [kind, items], where the items of a map are    *)
(* <<key, node>>.  A conversion gives [ok, val]; it fails by an exception   *)
(* that fromString catches.                                                 *)
(***************************************************************************)
Broken == [kind |-> "broken"]
Fails == [ok |-> FALSE]
Converted(v) == [ok |-> TRUE, val |-> v]

NameChars == {CharAt("abcdefghikjlmnopqrstuvwxyz._0123456789", i) : i \in 1..38}
ValidName(s) == \A i \in 1..Len(s) : CharAt(s, i) \in NameChars

\* Every node of a document with its dotted name; an invalid name hides its subtree.
RECURSIVE ListAllMember(_, _)
ListAllMember(prefix, node) ==
    IF ~ValidName(prefix) THEN <<>>
    ELSE << <<prefix, node>> >> \o
         IF node.kind # "map" THEN <<>>
         ELSE FlattenSeq([i \in DOMAIN node.items |->
                LET it == node.items[i]
                IN  ListAllMember(IF prefix = "" THEN it[1] ELSE prefix \o "." \o it[1], it[2])])

DigitOf == [c \in {CharAt("0123456789", i) : i \in 1..10} |->
                CHOOSE i \in 0..9 : CharAt("0123456789", i + 1) = c]

\* boost::lexical_cast of a number; a map or a sequence is printed, and is none.
CastUint(node) ==
    LET cs == [i \in 1..Len(node.text) |-> CharAt(node.text, i)]
    IN  IF node.kind = "scalar" /\ cs # <<>> /\ \A i \in DOMAIN cs : cs[i] \in DOMAIN DigitOf
        THEN Converted(FoldLeft(LAMBDA n, c : 10 * n + DigitOf[c], 0, cs))
        ELSE Fails

Has(node, key) == node.kind = "map" /\ \E i \in DOMAIN node.items : node.items[i][1] = key
Field(node, key) == LET i == CHOOSE j \in DOMAIN node.items : node.items[j][1] = key
                    IN  node.items[i][2]
Text(node, key) == IF Has(node, key) THEN Field(node, key).text ELSE ""

\* An appender without a type, of an unknown one, or a file without a name is skipped.
LogAppendDefine(a) ==
    CASE Text(a, "type") = "FileLogAppender" /\ Has(a, "file") ->
            <<[type |-> 1, file |-> Text(a, "file"), pattern |-> Text(a, "pattern")]>>
      [] Text(a, "type") = "StdoutLogAppender" ->
            <<[type |-> 2, file |-> "", pattern |-> Text(a, "pattern")]>>
      [] OTHER -> <<>>

LogDefine(n) ==
    [level |-> FromString(Text(n, "level")),
     appenders |-> IF ~Has(n, "appenders") THEN <<>>
                   ELSE LET as == Field(n, "appenders").items
                        IN  FlattenSeq([i \in DOMAIN as |-> LogAppendDefine(as[i])])]

\* std::set<LogDefine> is ordered by name: of two defines of a logger the first stays.
CastLogs(node) ==
    IF node.kind = "scalar" THEN Converted(EmptyMap)
    ELSE IF node.kind = "map" \/ \E i \in DOMAIN node.items : ~Has(node.items[i], "name") THEN Fails
    ELSE LET names == {Text(node.items[i], "name") : i \in DOMAIN node.items}
             first(n) == CHOOSE i \in DOMAIN node.items :
                            /\ Text(node.items[i], "name") = n
                            /\ \A j \in 1..(i - 1) : Text(node.items[j], "name") # n
         IN  Converted([n \in names |-> LogDefine(node.items[first(n)])])

LexicalCast(var, node) == IF Casts[var] = "uint" THEN CastUint(node) ELSE CastLogs(node)

(***************************************************************************)
(* ConfigVar.  A listener keeps a copy of its variable, as those of the     *)
(* buffer sizes and of the connect timeout do; the one of "logs" sets up    *)
(* the loggers.  Listeners run before the value changes.                    *)
(***************************************************************************)
Notify(m, var, new) ==
    [m EXCEPT !.cbs = [id \in DOMAIN @ |->
                          IF @[id].var = var THEN [@[id] EXCEPT !.copy = new] ELSE @[id]],
              !.loggers = IF Casts[var] = "logs" THEN LogIniter(@, m.val[var], new, dir) ELSE @]

setValue(m, var, new) ==
    IF m.val[var] = new THEN m ELSE [Notify(m, var, new) EXCEPT !.val[var] = new]

fromString(m, var, node) ==
    LET c == LexicalCast(var, node) IN IF c.ok THEN setValue(m, var, c.val) ELSE m

LoadFromYaml(m, root) ==
    FoldLeft(LAMBDA x, member : IF member[1] \in DOMAIN x.val
                                THEN fromString(x, member[1], member[2]) ELSE x,
             m, ListAllMember("", root))

(***************************************************************************)
(* The process as its static initialisers leave it: what is not Late is     *)
(* registered, every number has a listener, the root logger prints.         *)
(***************************************************************************)
Early == DOMAIN Casts \ Late

NewListener(m, var) ==
    LET id == 1 + Cardinality(DOMAIN m.cbs)
    IN  [m EXCEPT !.cbs = Put(@, id, [var |-> var, copy |-> m.val[var]])]

Memory ==
    FoldLeft(NewListener,
             [cache |-> [f \in DOMAIN disk |-> 0], val |-> [v \in Early |-> Defaults[v]],
              cbs |-> EmptyMap, loggers |-> LoggerManager],
             SetToSeq({v \in Early : Casts[v] = "uint"}))

NotLoading == [pc |-> "idle", todo |-> <<>>, file |-> "", force |-> FALSE, st |-> 0]
NoEvent == [logger |-> ""]

\* Nothing is known of the files of a new process; one dated 0 looks already loaded.
NewGhost == [fresh |-> {}, excused |-> {f \in DOMAIN disk : disk[f].mtime = 0},
             setters |-> [v \in DOMAIN Casts |-> {}], quiet |-> FALSE, forced |-> FALSE, wrote |-> {}]

Start == 10

Init == /\ \E s \in Scenarios :
              /\ argv = s.argv /\ left = s.calls
              /\ disk = [f \in ToSet(FilesUnder(getConfigPath)) |-> [doc |-> "base", mtime |-> s.mtime]]
        /\ now = Start
        /\ dir = [p \in LogPaths |-> [inode |-> 1, ok |-> TRUE, rotated |-> 0, refused |-> 0]]
        /\ mem = Memory
        /\ load = NotLoading /\ event = NoEvent
        /\ proc = "main" /\ restart_count = 0
        /\ ghost = NewGhost

\* Something the program or its environment chooses to do.
Call(kind) == proc # "ended" /\ left[kind] > 0 /\ left' = [left EXCEPT ![kind] = @ - 1]

(***************************************************************************)
(* LoadFromConfDir: the files are listed once; each is checked against the  *)
(* time recorded for it, under the lock, and read after that.               *)
(***************************************************************************)
LoadFromConfDir(force) ==
    /\ proc = "main" /\ load.pc = "idle" /\ Call("load")
    /\ load' = [NotLoading EXCEPT !.pc = "check", !.todo = ListAllFile, !.force = force]
    /\ ghost' = [ghost EXCEPT !.quiet = TRUE]
    /\ UNCHANGED <<argv, now, disk, dir, mem, event, proc, restart_count>>

\* lstat of a file that is gone leaves st as it was.
StatTimes(f) == IF disk[f].doc = "absent" THEN {0, load.st} ELSE {disk[f].mtime}

\* Mutant: a file that was ever loaded is skipped.
NotModifiedEver(f, t) == mem.cache[f] # 0
NotModified(f, t) == mem.cache[f] = t

CheckFile ==
    /\ load.pc = "check" /\ load.todo # <<>>
    /\ LET f == Head(load.todo)
       IN  \E t \in StatTimes(f) :
              IF ~load.force /\ NotModified(f, t)
              THEN /\ load' = [load EXCEPT !.todo = Tail(@), !.st = t]
                   /\ ghost' = [ghost EXCEPT !.fresh = @ \cup {f}]
                   /\ UNCHANGED mem
              ELSE /\ load' = [load EXCEPT !.todo = Tail(@), !.st = t, !.pc = "read", !.file = f]
                   /\ ghost' = [ghost EXCEPT !.fresh = @ \cup {f}, !.excused = @ \ {f}]
                   /\ mem' = [mem EXCEPT !.cache[f] = t]
    /\ UNCHANGED <<argv, now, disk, dir, event, proc, restart_count, left>>

\* What a file gives a registered variable, the last of several.
Given(f, v) ==
    LET members == SelectSeq(ListAllMember("", Docs[disk[f].doc]), LAMBDA m : m[1] = v)
        values == SelectSeq([i \in DOMAIN members |-> LexicalCast(v, members[i][2])], LAMBDA c : c.ok)
    IN  IF disk[f].doc = "absent" \/ Docs[disk[f].doc] = Broken \/ values = <<>> THEN Fails ELSE Last(values)

LoadFile ==
    /\ load.pc = "read"
    /\ LET f == load.file
       IN  /\ IF disk[f].doc = "absent" \/ Docs[disk[f].doc] = Broken THEN UNCHANGED mem
              ELSE mem' = LoadFromYaml(mem, Docs[disk[f].doc])
           /\ ghost' = [ghost EXCEPT !.setters = [v \in DOMAIN @ |->
                            IF v \in DOMAIN mem.val /\ Given(f, v).ok THEN @[v] \cup {f} ELSE @[v]]]
    /\ load' = [load EXCEPT !.pc = "check", !.file = ""]
    /\ UNCHANGED <<argv, now, disk, dir, event, proc, restart_count, left>>

LoadReturns ==
    /\ load.pc = "check" /\ load.todo = <<>>
    /\ load' = NotLoading
    /\ ghost' = [ghost EXCEPT !.forced = ghost.quiet /\ (@ \/ load.force)]
    /\ UNCHANGED <<argv, now, disk, dir, mem, event, proc, restart_count, left>>

\* Config::Lookup of a variable no static initialiser registers, with a listener on it.
Lookup(v) ==
    /\ proc = "main" /\ load.pc = "idle" /\ v \notin DOMAIN mem.val
    /\ LET m == [mem EXCEPT !.val = Put(@, v, Defaults[v])]
       IN  mem' = IF Casts[v] = "uint" THEN NewListener(m, v) ELSE m
    /\ ghost' = [ghost EXCEPT !.forced = FALSE]
    /\ UNCHANGED <<argv, now, disk, dir, load, event, proc, restart_count, left>>

(***************************************************************************)
(* Logging: LOG_LEVEL creates an event with the time of day; it is handed   *)
(* to the logger when the statement ends, which may be later.               *)
(***************************************************************************)
CreateEvent(name) ==
    /\ proc = "main" /\ event = NoEvent /\ Call("log")
    /\ getLogger(mem.loggers, name).m_level <= LogLevel.INFO
    /\ event' = [logger |-> name, time |-> now]
    /\ mem' = [mem EXCEPT !.loggers = WithLogger(@, name, getLogger(@, name))]
    /\ UNCHANGED <<argv, now, disk, dir, load, proc, restart_count, ghost>>

\* What the properties remember of a record and a file appender that has seen it.
Record(a, b) ==
    [landed |-> Landed(b), time |-> event.time, stuck |-> b.bad /\ b.open # 0, path |-> dir[a.file]]

Deliver ==
    /\ event # NoEvent
    /\ \E fails \in BOOLEAN :
         LET lg == mem.loggers[event.logger]
             as == IF LogLevel.INFO >= lg.m_level THEN lg.m_appenders ELSE <<>>
             bs == [i \in DOMAIN as |-> AfterLog(as[i], event.time, dir, fails)]
         IN  /\ IF fails THEN Call("log") ELSE UNCHANGED left
             /\ IF as = <<>> THEN UNCHANGED mem
                ELSE mem' = [mem EXCEPT !.loggers[event.logger].m_appenders = bs]
             /\ ghost' = [ghost EXCEPT !.wrote =
                            {Record(as[i], bs[i]) : i \in {j \in DOMAIN as : as[j].type = 1}}]
    /\ event' = NoEvent
    /\ UNCHANGED <<argv, now, disk, dir, load, proc, restart_count>>

(***************************************************************************)
(* Time, the editor of the files, and whoever rotates the log.              *)
(***************************************************************************)
Tick(seconds) ==
    /\ Call("tick") /\ now' = now + seconds
    /\ UNCHANGED <<argv, disk, dir, mem, load, event, proc, restart_count, ghost>>

\* An edit in the second that is already recorded for the file cannot be seen.
Edit(f, doc) ==
    /\ disk[f].doc # doc /\ Call("edit")
    /\ disk' = [disk EXCEPT ![f] = [doc |-> doc, mtime |-> now]]
    /\ ghost' = [ghost EXCEPT !.fresh = @ \ {f}, !.quiet = FALSE, !.forced = FALSE,
                               !.excused = IF mem.cache[f] = now THEN @ \cup {f} ELSE @]
    /\ UNCHANGED <<argv, now, dir, mem, load, event, proc, restart_count>>

Rotate(p) ==
    /\ Call("log")
    /\ dir' = [dir EXCEPT ![p].inode = @ + 1, ![p].rotated = now]
    /\ UNCHANGED <<argv, now, disk, mem, load, event, proc, restart_count, ghost>>

Refuse(p) ==
    /\ dir[p].ok /\ Call("log")
    /\ dir' = [dir EXCEPT ![p].ok = FALSE]
    /\ UNCHANGED <<argv, now, disk, mem, load, event, proc, restart_count, ghost>>

Admit(p) ==
    /\ ~dir[p].ok
    /\ dir' = [dir EXCEPT ![p].ok = TRUE, ![p].refused = now]
    /\ UNCHANGED <<argv, now, disk, mem, load, event, proc, restart_count, left, ghost>>

(***************************************************************************)
(* start_daemon: with -d a supervisor forks the process, and forks it again *)
(* when it ends with a status other than 0.                                 *)
(***************************************************************************)
is_daemon == "d" \in DOMAIN EnvInit(argv, NoKey, EmptyMap)

Exit(status) ==
    /\ proc = "main" /\ Call("exit")
    /\ proc' = IF is_daemon /\ status # 0 THEN "sleep" ELSE "ended"
    /\ restart_count' = IF is_daemon /\ status # 0 THEN restart_count + 1 ELSE restart_count
    /\ load' = NotLoading /\ event' = NoEvent
    /\ ghost' = NewGhost
    /\ mem' = Memory
    /\ UNCHANGED <<argv, now, disk, dir>>

Fork ==
    /\ proc = "sleep" /\ proc' \in {"main", "ended"}
    /\ ghost' = NewGhost
    /\ UNCHANGED <<argv, now, disk, dir, mem, load, event, restart_count, left>>

Next == \/ \E force \in BOOLEAN : LoadFromConfDir(force)
        \/ CheckFile \/ LoadFile \/ LoadReturns
        \/ \E v \in Late : Lookup(v)
        \/ \E name \in Loggers : CreateEvent(name)
        \/ Deliver
        \/ \E seconds \in {1, 3} : Tick(seconds)
        \/ \E f \in DOMAIN disk, doc \in DOMAIN Docs \cup {"absent"} : Edit(f, doc)
        \/ \E p \in LogPaths : Rotate(p) \/ Refuse(p) \/ Admit(p)
        \/ \E status \in {0, 1} : Exit(status)
        \/ Fork

Spec == Init /\ [][Next]_vars

(***************************************************************************)
(* Properties.  The text of a pattern, from its items.                      *)
(***************************************************************************)
PieceText(piece) == CASE piece[1] = 0 -> piece[2]
                      [] piece[1] = 1 -> "%" \o piece[2]
                      [] piece[1] = 2 -> IF piece[2] = "" THEN "%d" ELSE "%d{" \o piece[2] \o "}"

PatternText(pieces) == FoldLeft(LAMBDA s, p : s \o PieceText(p), "", pieces)

\* A variable that one file alone has set holds what that file says now, if the
\* file was looked at since it last changed and did not change in the very second
\* recorded for it; and after a forced load that nobody disturbed every variable
\* holds what the last file that sets it says.  (LoadFromConfDir: the time is
\* recorded before the file is read, and compared in seconds.)
LoadedIsCurrent ==
    LET files == ListAllFile
        settled == ghost.fresh \ (ghost.excused \cup {load.file})
    IN  /\ \A v \in DOMAIN mem.val, f \in settled :
              ghost.setters[v] = {f} /\ Given(f, v).ok => mem.val[v] = Given(f, v).val
        /\ ghost.forced /\ load.pc = "idle" =>
              \A v \in DOMAIN mem.val :
                 LET givers == SelectSeq(files, LAMBDA f : Given(f, v).ok)
                 IN  givers # <<>> => mem.val[v] = Given(Last(givers), v).val

\* Whatever sequence of documents was loaded, each listener's copy is the value of
\* its variable, a configured logger has the level and the appenders of its define,
\* and a logger that left the configuration is silent.  (ConfigVar::setValue calls
\* the listeners with the old value still in place; LogIniter applies differences.)
ListenersInSync ==
    /\ \A id \in DOMAIN mem.cbs : mem.cbs[id].copy = mem.val[mem.cbs[id].var]
    /\ \A n \in DOMAIN mem.val["logs"] :
          LET d == mem.val["logs"][n]
              lg == mem.loggers[n]
          IN  /\ lg.m_level = d.level /\ Len(lg.m_appenders) = Len(d.appenders)
              /\ \A i \in DOMAIN d.appenders :
                    /\ lg.m_appenders[i].type = d.appenders[i].type
                    /\ lg.m_appenders[i].pattern = d.appenders[i].pattern
                    /\ d.appenders[i].type = 1 => lg.m_appenders[i].file = d.appenders[i].file
    /\ \A n \in DOMAIN mem.loggers \ (DOMAIN mem.val["logs"] \cup {"root"}) :
          mem.loggers[n] \in {NewLogger, Deleted}

\* A record goes to a file that was rotated away only within three seconds of the
\* rotation, and is lost only within three seconds of a time when the path could
\* not be opened, unless a write has failed before: a stream whose write failed is
\* never closed, so it can never be opened again.  (FileLogAppender::log, reopen.)
LogFollowsPath ==
    \A w \in ghost.wrote :
        /\ w.landed \notin {0, w.path.inode} => w.time < w.path.rotated + 3
        /\ w.landed = 0 /\ ~w.stuck => ~w.path.ok \/ w.time < w.path.refused + 3

\* A pattern made of the documented pieces gives one item for each piece, in order,
\* whatever follows it in memory.  Two cases are left out: a pattern that ends in %d,
\* and one with two date formats, which share a buffer.  (LogFormatter::init.)
PatternRenders ==
    \A n \in DOMAIN mem.loggers : \A i \in DOMAIN mem.loggers[n].m_appenders :
        \A pieces \in Patterns, past \in {"", "}"} :
            mem.loggers[n].m_appenders[i].pattern = PatternText(pieces) =>
                InitFormatter(PatternText(pieces), past) = [m_error |-> FALSE, m_items |-> pieces]
=============================================================================
