------------------------------ MODULE MCConfig ------------------------------
(***************************************************************************)
(* An instance of Config: two directories, documents that set the same and  *)
(* different variables, one that does not parse, and one define of a logger *)
(* after another.                                                           *)
(***************************************************************************)
EXTENDS Config

File(n) == [name |-> n, dir |-> FALSE]
Dir(n) == [name |-> n, dir |-> TRUE]
MCTree == "/app/conf" :> <<Dir("."), File("a.yml"), File("b.txt")>>
          @@ "/etc/lamb" :> <<Dir(".."), File("a.yml"), Dir("sub")>>
          @@ "/etc/lamb/sub" :> <<File("z.yml")>>

MCPatterns == {<< <<2, "Y">>, <<0, " [">>, <<1, "p">>, <<0, "]">> >>,
               << <<1, "%">>, <<2, "">>, <<1, "T">>, <<1, "m">> >>}
PatternWithDate == "%d{Y} [%p]"
PatternWithPercent == "%%%d%T%m"

Scalar(t) == [kind |-> "scalar", text |-> t]
Map(items) == [kind |-> "map", items |-> items]
List(items) == [kind |-> "seq", items |-> items]

Size(t) == <<"http", Map(<< <<"size", Scalar(t)>>, <<"Body", Scalar("9")>> >>)>>
Appender(type, more) == Map(<< <<"type", Scalar(type)>> >> \o more)
ToFile(pattern) == Appender("FileLogAppender", << <<"file", Scalar("log")>>, <<"pattern", Scalar(pattern)>> >>)
Define(name, level, as) ==
    Map(<< <<"name", Scalar(name)>>, <<"level", Scalar(level)>>, <<"appenders", List(as)>> >>)

MCDocs == [base |-> Map(<<Size("1"), <<"logs", List(<<Define("app", "info", <<ToFile(PatternWithDate)>>)>>)>> >>),
           late |-> Map(<< <<"late", Scalar("2")>>, Size("2"),
                           <<"logs", List(<<Map(<< <<"name", Scalar("other")>> >>)>>)>> >>),
           logs |-> Map(<<Size("x"),
                          <<"logs", List(<<Define("app", "DEBUG", <<ToFile(PatternWithPercent),
                                                                    Appender("StdoutLogAppender", <<>>)>>),
                                           Define("app", "fatal", <<>>)>>)>> >>),
           broken |-> Broken]

MCCasts == "http.size" :> "uint" @@ "late" :> "uint" @@ "logs" :> "logs"
MCDefaults == "http.size" :> 4 @@ "late" :> 0 @@ "logs" :> EmptyMap

\* Reloads, with two files or one dated 0; a restart; the log; and all together.
Scenario(argv_, mtime, l, e, o, x, t) ==
    [argv |-> argv_, mtime |-> mtime,
     calls |-> [load |-> l, edit |-> e, log |-> o, exit |-> x, tick |-> t]]
Two == <<"-c", "/etc/lamb", "-d">>
One == <<"-d", "-">>        \* the bad word ends the parsing: -d is lost
MCScenarios == {Scenario(Two, 1, 2, 2, 0, 0, 1), Scenario(Two, 0, 3, 1, 0, 0, 1),
                Scenario(One, 0, 2, 2, 0, 0, 1), Scenario(Two, 1, 2, 1, 0, 2, 0),
                Scenario(One, 1, 1, 0, 4, 0, 2), Scenario(<<"-">>, 1, 2, 1, 1, 1, 1)}
=============================================================================
