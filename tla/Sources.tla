------------------------------- MODULE Sources -------------------------------
(***************************************************************************)
(* How an ingest reads its source (pipeline._select_adapter,               *)
(* _select_for_directory, _bootstrap; adapters/multi_file.py;              *)
(* llm/retry.py; stage_metrics.ingest_metrics): a reader is chosen for     *)
(* every file, an unknown format is worked out and its schema kept for     *)
(* later ingests, every file is read, and the counters become metrics.     *)
(* The ingest may die anywhere, and be run again.                          *)
(***************************************************************************)
EXTENDS Bootstrap

CONSTANTS Inputs,       \* the sources: [directory, files], the files in name order
          Configs,      \* the settings and --format an ingest may run with
          MaxRetries,   \* llm.max_retries
          MaxIngests,
          NoSchema,
          Torn          \* a schema file that was not written to its end

\* What a file is, as far as the readers tell: its lines have the times their shapes say, a
\* time that does not parse included, and begin with a shape they have, if with any.  What the
\* shapes of a text spell is a date or an epoch that a datetime holds.
IsList(s) == s \in Seq({s[i] : i \in DOMAIN s})

IsLine(line) ==
  /\ IsList(line.entries) /\ line.level \in BOOLEAN
  /\ None \notin DOMAIN line.shapes /\ line.leads \in DOMAIN line.shapes \cup {None}
  /\ \A s \in DOMAIN line.shapes : line.shapes[s] \notin {NoTime, FarTime}

IsFile(file) ==
  /\ DOMAIN file = {"name", "text", "lines", "whole"} /\ file.text \in BOOLEAN
  /\ IsList(file.lines) /\ \A i \in DOMAIN file.lines : IsLine(file.lines[i])
  /\ IsList(file.whole) /\ \A i \in DOMAIN file.whole : IsLine(file.whole[i])

ASSUME SourcesAssumption ==
  /\ {SampleSize, RawSample, MaxIngests} \subseteq Nat \ {0} /\ LayoutSample > 1
  /\ \A s \in Inputs : IsList(s.files) /\ \A i \in DOMAIN s.files : IsFile(s.files[i])
  /\ Configs # {} /\ \A c \in Configs : c.format \in Readers \cup {"auto"}

VARIABLES source,    \* what --source names; it does not change
          cache,     \* the schema directory: file name to schema
          config,    \* of the running ingest
          pc, ingests,
          at,        \* the file being chosen for or read
          members,   \* the files with a reader: [file, format, schema, route]
          skipped,   \* files dropped as unreadable
          attempts,  \* of the model call
          proposal,  \* the schema about to be adopted
          stats,     \* AdapterStats of the whole source
          events,    \* the records it gave
          metrics    \* what the ingest recorded, None before

vars == <<source, cache, config, pc, ingests, at, members, skipped, attempts, proposal, stats,
          events, metrics>>

selection == <<at, members, skipped>>
reading == <<stats, events, metrics>>

Health == INSTANCE LogHealth

File == source.files[at]

Reader(m) == [format |-> m.format, schema |-> m.schema]

\* load_schemas: an entry that cannot be read is passed over.
Cached == {cache[name] : name \in {n \in DOMAIN cache : cache[n] # Torn}}

NoStats == [lines |-> 0, errors |-> 0, untimed |-> 0, unmapped |-> 0, shape |-> None,
            yearless |-> FALSE]

NoProposal == [route |-> "none", schema |-> NoSchema]

Init ==
  /\ source \in Inputs
  /\ cache = <<>>
  /\ config = CHOOSE c \in Configs : TRUE
  /\ pc = "idle" /\ ingests = 0
  /\ at = 1 /\ members = <<>> /\ skipped = 0
  /\ attempts = 0 /\ proposal = NoProposal
  /\ stats = NoStats /\ events = <<>> /\ metrics = None

Begin ==
  /\ pc = "idle" /\ ingests < MaxIngests
  /\ config' \in Configs
  /\ ingests' = ingests + 1
  /\ at' = 1 /\ members' = <<>> /\ skipped' = 0
  /\ attempts' = 0 /\ proposal' = NoProposal
  /\ stats' = NoStats /\ events' = <<>> /\ metrics' = None
  /\ pc' = "select"
  /\ UNCHANGED <<source, cache>>
-----------------------------------------------------------------------------
(* Choosing a reader for every file.                                        *)

\* The ingest stops with an error: UnknownFormatError, BinarySourceError, ProviderError, or one
\* nothing catches.
Fails ==
  /\ pc' = "idle"
  /\ UNCHANGED <<source, cache, config, ingests, selection, attempts, proposal, reading>>

Choosing == pc = "select" /\ at <= Len(source.files)

\* The file has its reader.
Chosen(format, schema, route) ==
  /\ members' = Append(members, [file |-> at, format |-> format, schema |-> schema,
                                 route |-> route])
  /\ at' = at + 1
  /\ pc' = "select"
  /\ attempts' = 0 /\ proposal' = NoProposal
  /\ UNCHANGED <<source, config, ingests, skipped, reading>>

Proposed(p) ==
  /\ proposal' = p
  /\ pc' = "adopt"
  /\ UNCHANGED <<source, cache, config, ingests, selection, attempts, reading>>

\* No schema: read line by line, or refuse, as the settings say.
GiveUp ==
  IF config.on_unknown = "error" THEN Fails
  ELSE Chosen("raw_lines", NoSchema, "raw") /\ UNCHANGED cache

\* The last route of bootstrap_format, once neither the lines nor a model gave a schema.
TrySubshapes ==
  IF Subshape(File) = {} THEN GiveUp
  ELSE \E s \in Subshape(File) : Proposed([route |-> "sub-shape", schema |-> s])

\* An explicit --format is taken before the file is opened.
TakeNamed ==
  /\ Choosing /\ config.format # "auto"
  /\ Chosen(config.format, NoSchema, "named")
  /\ UNCHANGED cache

\* A file that is not text is dropped from a directory and refused alone.
SkipBinary ==
  /\ Choosing /\ config.format = "auto" /\ ~File.text
  /\ IF source.directory
     THEN /\ skipped' = skipped + 1
          /\ at' = at + 1
          /\ UNCHANGED <<source, cache, config, pc, ingests, members, attempts, proposal, reading>>
     ELSE Fails

Detected == Detect(First(File.lines, SampleSize))

Undetected == Choosing /\ config.format = "auto" /\ File.text /\ Detected = None

TakeDetected ==
  /\ Choosing /\ config.format = "auto" /\ File.text /\ Detected # None
  /\ Chosen(Detected, NoSchema, "detected")
  /\ UNCHANGED cache

BootstrapOff == Undetected /\ ~config.bootstrap /\ GiveUp

BootstrapFree ==
  /\ Undetected /\ config.bootstrap
  /\ \E p \in Free(Cached, File) : Proposed(p)

NothingFree == Undetected /\ config.bootstrap /\ Free(Cached, File) = {}

\* No model is configured, it cannot be built, or there is no line to show it.
NoModel ==
  /\ NothingFree
  /\ ~config.model \/ Usable(File) = <<>>
  /\ TrySubshapes

AskModel ==
  /\ NothingFree /\ config.model /\ Usable(File) # <<>>
  /\ pc' = "ask"
  /\ UNCHANGED <<source, cache, config, ingests, selection, attempts, proposal, reading>>

ModelAnswers ==
  /\ pc = "ask"
  /\ \/ \E s \in Inferable(File) :
          /\ Passes(s, Holdout(File))
          /\ Proposed([route |-> "model", schema |-> s])
     \/ TrySubshapes

\* A bug: the count starts over when the server says how long to wait.
ModelBusyUncounted ==
  /\ pc = "ask" /\ attempts < MaxRetries
  /\ attempts' = IF attempts = 0 THEN 1 ELSE 0
  /\ UNCHANGED <<source, cache, config, pc, ingests, selection, proposal, reading>>

\* A failure that may pass is waited out, and the call sent again.
ModelBusy ==
  /\ pc = "ask" /\ attempts < MaxRetries
  /\ attempts' = attempts + 1
  /\ UNCHANGED <<source, cache, config, pc, ingests, selection, proposal, reading>>

\* One that will not pass, or the last attempt's: nothing catches the ProviderError.
ModelFails == pc = "ask" /\ Fails

Persists == config.persist /\ proposal.route # "known"

\* The cache once the file of the proposal's slug holds this.
Stored(schema) ==
  LET entry == Slug(proposal.schema)
  IN  [name \in DOMAIN cache \cup {entry} |-> IF name = entry THEN schema ELSE cache[name]]

\* A schema that was worked out is written to the cache, and the file read with it.
Adopt ==
  /\ pc = "adopt"
  /\ cache' = IF Persists THEN Stored(proposal.schema) ELSE cache
  /\ Chosen("inferred", proposal.schema, proposal.route)

\* Nothing in a directory could be read.
NothingToRead ==
  /\ pc = "select" /\ at > Len(source.files) /\ members = <<>>
  /\ Fails

\* MaxSkipSamples skipped files are counted among the errors.
MaxSkipSamples == 5

AllChosen ==
  /\ pc = "select" /\ at > Len(source.files) /\ members # <<>>
  /\ stats' = [stats EXCEPT !.errors = IF skipped < MaxSkipSamples THEN skipped
                                       ELSE MaxSkipSamples]
  /\ at' = 1
  /\ pc' = "read"
  /\ UNCHANGED <<source, cache, config, ingests, members, skipped, attempts, proposal, events,
                 metrics>>
-----------------------------------------------------------------------------
(* Reading them.                                                            *)

\* A bug: the counters of the last file stand for all.
AbsorbedLast(r) ==
  [lines |-> r.lines, errors |-> r.errors, untimed |-> r.untimed, unmapped |-> r.unmapped,
   shape |-> r.shape, yearless |-> r.shape \in Yearless]

\* _absorb: counters add up, and a disagreement about the shape is named.
Absorbed(r) ==
  [lines |-> stats.lines + r.lines,
   errors |-> stats.errors + r.errors,
   untimed |-> stats.untimed + r.untimed,
   unmapped |-> stats.unmapped + r.unmapped,
   shape |-> IF r.shape = None \/ r.shape = stats.shape THEN stats.shape
             ELSE IF stats.shape = None THEN r.shape ELSE "mixed",
   yearless |-> stats.yearless \/ r.shape \in Yearless]

\* In a directory the file's name stands in for a source nothing else names.
SourceOf(event, file) ==
  IF source.directory /\ event.source = Unknown THEN file.name ELSE event.source

ReadMember ==
  /\ pc = "read" /\ at <= Len(members)
  /\ LET m == members[at]
         file == source.files[m.file]
     IN  /\ file.text
         /\ \E r \in {Reading(Reader(m), file)} :
              /\ ~r.raises
              /\ stats' = Absorbed(r)
              /\ events' = events \o
                   [i \in DOMAIN r.events |->
                      [file |-> m.file, time |-> r.events[i].time, own |-> r.events[i].own,
                       source |-> SourceOf(r.events[i], file)]]
  /\ at' = at + 1
  /\ UNCHANGED <<source, cache, config, pc, ingests, members, skipped, attempts, proposal,
                 metrics>>

\* A time that overflows: nothing on the way catches the OverflowError, in a directory neither.
MemberRaises ==
  /\ pc = "read" /\ at <= Len(members)
  /\ LET m == members[at]
         file == source.files[m.file]
     IN  file.text /\ Reading(Reader(m), file).raises
  /\ Fails

\* A binary file that was taken by name: counted and passed over in a directory.
MemberIsBinary ==
  /\ pc = "read" /\ at <= Len(members) /\ ~source.files[members[at].file].text
  /\ IF source.directory
     THEN /\ stats' = [stats EXCEPT !.errors = @ + 1]
          /\ at' = at + 1
          /\ UNCHANGED <<source, cache, config, pc, ingests, members, skipped, attempts,
                         proposal, events, metrics>>
     ELSE Fails

Formats == {members[i].format : i \in DOMAIN members}

\* Is there a reason to record?  A file that was not recognised, or one that was skipped.
Degraded ==
  skipped > 0 \/ \E i \in DOMAIN members : members[i].route \notin {"named", "detected"}

\* A bug, the first version's: the source's one name is asked, which a mixed directory has not.
FellBackByName == Degraded /\ Formats = {"raw_lines"}

\* INGEST_FALLBACK names raw_lines.
FellBack == Degraded /\ "raw_lines" \in Formats

\* ingest_metrics.
ReadEnds ==
  /\ pc = "read" /\ at > Len(members)
  /\ metrics' = [lines_read |-> stats.lines,
                 events_loaded |-> Len(events),
                 parse_errors |-> stats.errors,
                 unmapped_severity |-> stats.unmapped,
                 unparseable_timestamp |-> stats.untimed,
                 fallback |-> IF FellBack THEN 1 ELSE 0,
                 year_inferred |-> IF stats.shape # None /\ stats.yearless THEN 1 ELSE 0]
  /\ pc' = "idle"
  /\ UNCHANGED <<source, cache, config, ingests, selection, attempts, proposal, stats, events>>
-----------------------------------------------------------------------------
\* The process dies; a schema it was writing is cut short.
Dies ==
  /\ pc # "idle"
  /\ pc' = "idle"
  /\ \/ UNCHANGED cache
     \/ pc = "adopt" /\ Persists /\ cache' = Stored(Torn)
  /\ UNCHANGED <<source, config, ingests, selection, attempts, proposal, reading>>

Step ==
  \/ TakeNamed \/ SkipBinary \/ TakeDetected \/ BootstrapOff \/ BootstrapFree \/ NoModel
  \/ AskModel \/ ModelAnswers \/ ModelBusy \/ ModelFails \/ Adopt \/ NothingToRead \/ AllChosen
  \/ ReadMember \/ MemberRaises \/ MemberIsBinary \/ ReadEnds

\* Every ingest the bound allows is over.
Settled == pc = "idle" /\ ingests = MaxIngests /\ UNCHANGED vars

Next == Begin \/ Step \/ Dies \/ Settled

\* Choosing and reading are local work over a finite source.
Spec == Init /\ [][Next]_vars /\ WF_vars(Step)

\* An ingest nobody kills.
Surviving == Init /\ [][Begin \/ Step \/ Settled]_vars /\ WF_vars(Step)
-----------------------------------------------------------------------------
(* Properties                                                               *)

Done == metrics # None

\* The members whose reader was chosen for its file, not by the user.
Automatic == {i \in DOMAIN members : members[i].route # "named"}

\* The registered formats that are more than JSON objects with a time.
Specific == {Registered[k] : k \in DOMAIN Registered} \cap {"loki", "otlp", "elastic"}

\* The layouts of one record per line that a named format has, each by its kinds of line.
Layouts(format) ==
  CASE format = "loki" -> {{"streams", "labelled"}} [] format = "otlp" -> {{"request"}}
    [] format = "elastic" -> {{"document"}, {"ecs"}}

\* A file whose every line is a record of one named format is read by that format's reader,
\* although the generic JSON reader scores as high or higher (adapters/registry.py:81-90).
EnvelopeDecides ==
  \A i \in Automatic, f \in Specific :
    \A kinds \in Layouts(f) :
      LET lines == source.files[members[i].file].lines
      IN  (lines # <<>> /\ \A j \in DOMAIN lines : lines[j].kind \in kinds)
            => members[i].format = f

\* The lines cut short or overwritten.
Garbled(file) ==
  {j \in DOMAIN file.lines :
     file.lines[j].kind \in {"text", "bracket"} /\ file.lines[j].keys = {}}

\* What a reader makes events of.
Records(format) ==
  CASE format = "loki" -> {"streams", "labelled"} [] format = "otlp" -> {"request"}
    [] format = "elastic" -> {"document", "ecs", "object", "labelled"}
    [] format = "json_lines" -> {"object", "ecs", "labelled"} [] OTHER -> {}

Intact(file) == Picked(file.lines, DOMAIN file.lines \ Garbled(file))

\* One line of the file is corrupt, and the others, two or more, are records of the format.
OneCorruptLine(format, file) ==
  /\ Cardinality(Garbled(file)) = 1 /\ Len(Intact(file)) > 1
  /\ \A j \in DOMAIN Intact(file) : Intact(file)[j].kind \in Records(format)

\* The corrupt line is one error more than the file without it, and the same events.
CostsOneError(reader, file) ==
  LET r == Reading(reader, file)
      whole == Reading(reader, [file EXCEPT !.lines = Intact(file)])
  IN  r.errors = whole.errors + 1 /\ r.events = whole.events

\* The readers that look at the first character of a file, and a file that misleads them.
OpensLikeAList(format, file) ==
  format \in {"loki", "otlp"} /\ file.lines # <<>> /\ file.lines[1].kind = "bracket"

\* One corrupt line among the records of a file costs one error and no record of the other
\* lines, wherever it stands, unless it is the first line of a Loki or an OTLP file and begins
\* with a bracket (adapters/otlp.py:246-250, loki.py:206-208, elastic.py:303-312).
CorruptLineCostsOneError ==
  \A i \in DOMAIN members :
    LET m == members[i]
        file == source.files[m.file]
    IN  OneCorruptLine(m.format, file) /\ ~OpensLikeAList(m.format, file)
          => CostsOneError(Reader(m), file)

\* "It tolerates a corrupt first line", which is to cost "one counted parse error" while the
\* rest is streamed (adapters/otlp.py:246-249; loki.py:206-208 says the same of its own).
CorruptFirstLineIsTolerated ==
  \A i \in DOMAIN members :
    LET m == members[i]
        file == source.files[m.file]
    IN  m.format \in {"loki", "otlp"} /\ OneCorruptLine(m.format, file) /\ 1 \in Garbled(file)
          => CostsOneError(Reader(m), file)

\* "Malformed input is skipped rather than aborting the run" (adapters/base.py:24): once every
\* file has its reader and each is text, the ingest comes to its metrics.
MalformedInputIsSkipped ==
  (pc = "read" /\ \A i \in DOMAIN members : source.files[members[i].file].text)
    ~> metrics # None

\* "Proportional, so a file that is mostly something else does not win on one line"
\* (adapters/loki.py:168): a file with one line in the shape of a named format, the others
\* timed JSON records of no such format, is not given to that format's reader.
OneLineDoesNotWin ==
  \A i \in Automatic : \A f \in {"loki", "elastic"} :
    LET lines == source.files[members[i].file].lines
        rest == SelectSeq(lines, LAMBDA l : l.kind \notin UNION Layouts(f))
    IN  (Len(rest) = Len(lines) - 1 /\ Len(rest) > 1
         /\ \A j \in DOMAIN rest : rest[j].kind = "object" /\ HasTime(rest[j].entries[1]))
          => members[i].format # f

\* What the health check will call the share of events timed from their own line is never more
\* than it is, whichever readers a directory needed (base.py:85-99, stage_metrics.py:121-130).
CoverageIsNotOverstated ==
  (Done /\ config.format = "auto") =>
    Health!Timestamped([metrics |-> metrics, events |-> events])
      <= HowMany(events, LAMBDA e : e.own)

\* Every line of every file that was read is an event or a counted error, and the counters of
\* a directory are those of all its files (base.py:21-25, multi_file.py:185-210).
EveryLineAccounted ==
  Done =>
    LET file(i) == source.files[members[i].file]
        LineByLine(i) ==
          /\ file(i).text /\ ~IsDocument(members[i].format, file(i))
          /\ \A j \in DOMAIN file(i).lines :
               /\ Len(file(i).lines[j].entries) = 1
               /\ file(i).lines[j].entries[1] # Stray
        lines == [i \in DOMAIN members |-> Len(file(i).lines)]
        sum[n \in 0 .. Len(members)] == IF n = 0 THEN 0 ELSE sum[n - 1] + lines[n]
        total == sum[Len(members)]
    IN  (\A i \in DOMAIN members : LineByLine(i)) =>
          /\ metrics.lines_read = total
          /\ metrics.events_loaded + metrics.parse_errors
               = total + Min({skipped, MaxSkipSamples})

\* A schema that reads a file was scored on lines it was not derived from, whoever proposed
\* it, and reads enough of them (bootstrap/__init__.py:8-14).  Sub-shapes are not: see README.
GateHolds ==
  \A i \in DOMAIN members :
    members[i].route \in {"known", "structural", "model"} =>
      LET held == Holdout(source.files[members[i].file])
          read == Read(FlattenSeq([j \in DOMAIN held |-> View(Reader(members[i]), held[j])]),
                       Len(held))
      IN  Reaches(Len(read.events), Len(held), MatchFloor)

\* What other ingests left in the cache never makes a file read worse: the schema it is read
\* with explains as much as the one its own lines give (bootstrap/__init__.py:114-120).
CacheNeverHurts ==
  \A i \in DOMAIN members :
    members[i].route = "known" =>
      \A s \in Inspected(source.files[members[i].file]) :
        Fields(members[i].schema) >= Fields(s)

\* An ingest ends, model or no model (llm/retry.py:43-73).
IngestEnds == pc # "idle" ~> pc = "idle"
=============================================================================
