----------------------------- MODULE MCSources -----------------------------
(* Instances of Sources: files of every layout, garbled, mixed and binary. *)
EXTENDS Sources

\* Lines.
E(time, level, name) == [time |-> time, level |-> level, source |-> name]

Json(kind, entries, keys) ==
  [kind |-> kind, entries |-> entries, keys |-> keys,
   shapes |-> [s \in {"iso8601"} |-> 1], leads |-> None, level |-> FALSE, source |-> Unknown,
   order |-> "none", width |-> "short"]

Text(shapes, leads, level, name, order) ==
  [kind |-> "text", entries |-> <<Nothing>>, keys |-> {}, shapes |-> shapes, leads |-> leads,
   level |-> level, source |-> name, order |-> order, width |-> "short"]

NoShapes == [s \in {} |-> BadTime]
Iso(t) == [s \in {"iso8601"} |-> t]
Syslog(t) == [s \in {"syslog"} |-> t]
Both(t) == [s \in {"syslog", "epoch"} |-> t]

Object(t) == Json("object", <<E(t, TRUE, "api")>>, {})
Labelled(t) == Json("labelled", <<E(t, TRUE, "web")>>, {})
Streams(entries) == Json("streams", entries, {"streams", "stream", "values"})
Request(entries) == Json("request", entries, {"resourceLogs", "logRecords"})
Dumped(t) == Json("document", <<E(t, TRUE, "db")>>, {"_source", "_index"})
Ecs(t) == Json("ecs", <<E(t, TRUE, "db")>>, {})
HitsOf(entries) == Json("hits", entries, {"hits", "_source"})
Cut == Text(NoShapes, None, FALSE, Unknown, "none")
Bracket == [Cut EXCEPT !.kind = "bracket"]
Fragment(keys) == [Cut EXCEPT !.keys = keys]
App(t) == Text(Iso(t), "iso8601", TRUE, Unknown, "none")
Sshd(t) == Text(Syslog(t), "syslog", FALSE, "sshd", "none")
Daemon(t) == Text(Syslog(t), "syslog", TRUE, "cron", "source")
Logger(t) == Text(Both(t), "epoch", TRUE, "job", "level")
Access == Text([s \in {"clf"} |-> BadTime], "clf", FALSE, Unknown, "none")

\* Files.
Lined(name, lines) == [name |-> name, text |-> TRUE, lines |-> lines, whole |-> <<>>]
Whole(name, lines, whole) == [Lined(name, lines) EXCEPT !.whole = whole]
Binary == [Lined("image", <<Cut>>) EXCEPT !.text = FALSE]

Objects3 == Lined("objects", <<Object(1), Object(BadTime), Object(NoTime)>>)
LokiLines == Lined("loki", <<Cut, Labelled(1), Labelled(2)>>)
LokiPure == Lined("lokip", <<Labelled(1), Labelled(BadTime)>>)
LokiPage == Lined("page", <<Streams(<<E(1, TRUE, "web"), Stray, E(BadTime, TRUE, "web")>>)>>)
LokiPretty == Whole("pretty", <<Fragment({"resultType", "streams"}), Fragment({"stream", "values"})>>,
                    <<Streams(<<E(1, TRUE, "web"), E(2, FALSE, "web")>>)>>)
OtlpLines == Lined("otlp", <<Cut, Request(<<E(1, TRUE, "svc"), E(2, FALSE, "svc")>>),
                             Request(<<E(3, TRUE, "svc")>>)>>)
OtlpPure == Lined("otlpp", <<Request(<<E(1, TRUE, "svc")>>)>>)
OtlpList == Whole("list", <<Json("bracket", <<Nothing>>, {"resourceLogs", "logRecords"})>>,
                  <<Request(<<E(1, TRUE, "svc")>>), Json("value", <<Nothing>>, {})>>)
Dump == Lined("dump", <<Bracket, Dumped(1), Dumped(2)>>)
EcsFile == Lined("ecs", <<Ecs(1), Ecs(BadTime)>>)
Response == Whole("response", <<HitsOf(<<E(1, TRUE, "db"), E(NoTime, TRUE, "db")>>)>>,
                  <<HitsOf(<<E(1, TRUE, "db"), E(NoTime, TRUE, "db")>>)>>)
BrokenResponse == Lined("broken", <<Fragment({"hits"}), Fragment({"_source"})>>)
AppFile == Lined("app", <<App(1), App(2), App(3)>>)
SshdFile == Lined("sshd", <<Sshd(1), Sshd(2), Sshd(3)>>)
DaemonFile == Lined("daemon", <<Daemon(1), Daemon(2), Daemon(3)>>)
LoggerFile == Lined("logger", <<Logger(1), Logger(2), Sshd(1)>>)
AccessFile == Lined("access", <<Access, Access, Access>>)
Traces == Lined("traces", <<App(1), Cut, Daemon(2), Cut>>)
Plain == Lined("plain", <<Cut, App(1), Cut>>)
Values == Lined("values", <<Json("value", <<Nothing>>, {})>>)
Empty == Lined("empty", <<>>)
Far == Lined("far", <<Object(1), Object(FarTime)>>)
Widths == Lined("widths", <<App(1), [App(2) EXCEPT !.width = "long"], Cut, Cut>>)

\* A first line that only looks like the opening of a list.
OtlpBracket == Lined("otlpb", <<Bracket, Request(<<E(1, TRUE, "svc")>>), Request(<<E(2, TRUE, "svc")>>)>>)
LokiBracket == Lined("lokib", <<Bracket, Labelled(1), Labelled(2)>>)

\* One line in the shape of another format among many: what the scores are proportional for.
Minority == Lined("minority", <<Object(1), Object(2), Object(3), Labelled(4)>>)

Single(file) == [directory |-> FALSE, files |-> <<file>>]
Directory(files) == [directory |-> TRUE, files |-> files]

MCInputs ==
  {Single(f) : f \in {Objects3, LokiLines, LokiPure, LokiPage, LokiPretty, OtlpLines, OtlpPure,
                      OtlpList, Dump, EcsFile, Response, BrokenResponse, AppFile, AccessFile,
                      Traces, Plain, Values, Empty, Binary, Far, Widths}}
  \cup {Directory(<<AppFile, Binary, DaemonFile>>), Directory(<<Binary>>),
        Directory(<<Objects3, Plain>>), Directory(<<SshdFile, DaemonFile>>),
        Directory(<<AppFile, SshdFile>>), Directory(<<LoggerFile, Traces>>),
        Directory(<<AccessFile, AppFile>>), Directory(<<LokiPure, SshdFile>>)}

BracketInputs == {Single(OtlpBracket), Single(LokiBracket), Single(LokiLines)}
FarInputs == {Single(Far), Single(Objects3), Directory(<<AppFile, Far>>)}
MinorityInputs == {Single(Minority), Single(Objects3)}

Setting(format, bootstrap, model, persist, on_unknown) ==
  [format |-> format, bootstrap |-> bootstrap, model |-> model, persist |-> persist,
   on_unknown |-> on_unknown]

MCConfigs ==
  {Setting("auto", TRUE, TRUE, TRUE, "raw_lines"), Setting("auto", TRUE, FALSE, TRUE, "error"),
   Setting("auto", FALSE, FALSE, FALSE, "raw_lines"),
   Setting("raw_lines", FALSE, FALSE, FALSE, "raw_lines"),
   Setting("json_lines", FALSE, FALSE, FALSE, "raw_lines")}

MCRegistered == <<"elastic", "json_lines", "loki", "otlp", "raw_lines">>
=============================================================================
