------------------------------ MODULE Adapters ------------------------------
(***************************************************************************)
(* The format readers (adapters/*.py): how a source is recognised from its *)
(* first lines, how each reader decides between one document and one       *)
(* record per line, and what it makes of every line.                       *)
(*                                                                         *)
(* A line is what the readers tell apart:                                  *)
(*   kind     "object", "ecs", "document" (an index dump), "labelled"      *)
(*            (logcli), "streams", "request" (OTLP) and "hits" are JSON    *)
(*            objects, "value" is other JSON, "bracket" is whatever begins *)
(*            with a bracket (a JSON list, the first line of one, corrupt  *)
(*            text), "text" is the rest;                                   *)
(*   entries  the records in it, Stray where a list holds something that   *)
(*            is no object;                                                *)
(*   keys     the structural keys its text shows;                          *)
(*   shapes   the timestamp shapes found anywhere in its text, each with   *)
(*            the time it parses to, and leads, the one it begins with;    *)
(*   level, source, order   the severity word and the name: its text       *)
(*            holds, and which of the two comes first;                     *)
(*   width    of its text in words: short, medium or long.                 *)
(* A file is [name, text, lines, whole]: text is FALSE when it is binary,  *)
(* whole are the values of the file read as one JSON value, none when it   *)
(* is not one.  Blank lines are skipped everywhere and left out.           *)
(***************************************************************************)
EXTENDS Integers, Sequences, FiniteSets, FiniteSetsExt, SequencesExt

CONSTANTS NoTime,       \* no timestamp where a reader looks for one
          BadTime,      \* one that parse_timestamp refuses (ValueError)
          FarTime,      \* one beyond what a datetime holds (OverflowError)
          Unknown,      \* UNKNOWN_SOURCE
          Stray,        \* an element of a list that is no object
          None,
          Registered,   \* adapters.registered, in its order
          DetectFloor,  \* adapters.min_detect_confidence, in percent
          LayoutSample, \* _LAYOUT_SAMPLE_LINES
          RawSample,    \* _TIMESTAMP_SAMPLE_LINES
          RawShare      \* _TIMESTAMP_SHARE, in percent

First(s, n) == SubSeq(s, 1, IF n < Len(s) THEN n ELSE Len(s))

HowMany(s, Test(_)) == Cardinality({i \in DOMAIN s : Test(s[i])})

\* The elements of s at some of its positions, in their order.
Picked(s, positions) ==
  FlattenSeq([i \in DOMAIN s |-> IF i \in positions THEN <<s[i]>> ELSE <<>>])

\* part / whole >= percent.
Reaches(part, whole, percent) == 100 * part >= percent * whole

\* Every reader there is.
Readers == {"json_lines", "loki", "otlp", "elastic", "raw_lines"}

ASSUME AdaptersAssumption ==
  /\ Registered \in Seq(Readers) /\ None \notin Readers
  /\ {DetectFloor, LayoutSample, RawSample, RawShare} \subseteq Nat

Shapes == <<"iso8601", "syslog", "clf", "epoch">>
Preference == <<"iso8601", "epoch", "syslog", "clf">>
Yearless == {"syslog", "clf"}
-----------------------------------------------------------------------------
(* Detection: every reader scores the sample, in hundredths of a line.      *)

ObjectKinds == {"object", "ecs", "document", "labelled", "streams", "request", "hits"}

Of(sample, kinds) == HowMany(sample, LAMBDA l : l.kind \in kinds)

Shown(sample) == UNION {sample[i].keys : i \in DOMAIN sample}

\* A top-level timestamp key, whatever its value.
Timed(line) == line.kind \in {"object", "ecs", "labelled"} /\ line.entries[1].time # NoTime

JsonScore(sample) == 40 * Of(sample, ObjectKinds) + 60 * HowMany(sample, Timed)

LokiScore(sample) ==
  LET n == Len(sample)
      hits == Of(sample, {"labelled"})
      pair == {"stream", "values"} \subseteq Shown(sample)
  IN  IF Of(sample, {"streams"}) > 0 THEN 98 * n
      ELSE IF hits > 0 THEN 60 * n + 38 * hits
      ELSE IF pair /\ {"resultType", "streams"} \subseteq Shown(sample) THEN 90 * n
      ELSE IF pair THEN 70 * n ELSE 0

OtlpScore(sample) ==
  LET n == Len(sample)
  IN  IF Of(sample, {"request"}) > 0 THEN 98 * n
      ELSE IF "resourceLogs" \notin Shown(sample) THEN 0
      ELSE IF "logRecords" \in Shown(sample) THEN 90 * n ELSE 70 * n

ElasticScore(sample) ==
  LET n == Len(sample)
      dump == Of(sample, {"document"})
      ecs == Of(sample, {"ecs"})
  IN  IF Of(sample, {"hits"}) > 0 THEN 98 * n
      ELSE IF dump > 0 THEN 60 * n + 38 * dump
      ELSE IF ecs > 0 THEN 60 * n + 35 * ecs
      ELSE IF {"hits", "_source"} \subseteq Shown(sample) THEN 90 * n
      ELSE IF {"_source", "_index"} \subseteq Shown(sample) THEN 70 * n ELSE 0

Score(format, sample) ==
  CASE format = "json_lines" -> JsonScore(sample)
    [] format = "loki" -> LokiScore(sample)
    [] format = "otlp" -> OtlpScore(sample)
    [] format = "elastic" -> ElasticScore(sample)
    [] format = "raw_lines" -> 0

Specificity(format) ==
  IF format \in {"loki", "otlp", "elastic"} THEN 2 ELSE IF format = "json_lines" THEN 1 ELSE 0

Eligible(sample) ==
  {i \in DOMAIN Registered :
     sample # <<>> /\ Score(Registered[i], sample) >= DetectFloor * Len(sample)}

\* A bug, the first version's: the highest score wins, whatever it is a score of.
DetectByScore(sample) ==
  LET S(i) == Score(Registered[i], sample)
  IN  IF Eligible(sample) = {} THEN None
      ELSE Registered[CHOOSE i \in Eligible(sample) : \A j \in Eligible(sample) \ {i} :
                        S(i) > S(j) \/ (S(i) = S(j) /\ i < j)]

\* detect_format: the tier first, the score within it, the first registered between equals.
Detect(sample) ==
  LET S(i) == Score(Registered[i], sample)
      T(i) == Specificity(Registered[i])
      Better(i, j) == \/ T(i) > T(j)
                      \/ T(i) = T(j) /\ S(i) > S(j)
                      \/ T(i) = T(j) /\ S(i) = S(j) /\ i < j
  IN  IF Eligible(sample) = {} THEN None
      ELSE Registered[CHOOSE i \in Eligible(sample) :
                        \A j \in Eligible(sample) \ {i} : Better(i, j)]
-----------------------------------------------------------------------------
(* Layout: is the file one JSON value, or one record per line?              *)

\* The lines that show a file of this format to be line-delimited.
PerLine(format) ==
  CASE format = "loki" -> {"streams", "labelled"} [] format = "otlp" -> {"request"}

\* A bug: the opening line decides alone.
LinesByFirst(format, file) ==
  file.lines # <<>> /\ file.lines[1].kind \in PerLine(format)

\* LokiAdapter and OtlpAdapter: a line of the head that is a record of its own, unless the
\* text of the first line begins with a bracket, list or not.
LinesByHead(format, file) ==
  /\ file.lines # <<>> /\ file.lines[1].kind # "bracket"
  /\ Of(First(file.lines, LayoutSample), PerLine(format)) > 0

\* ElasticAdapter: a line of the head that is a response, or no line that is an object.
ElasticIsDocument(file) ==
  LET head == First(file.lines, LayoutSample)
  IN  head # <<>> /\ (Of(head, {"hits"}) > 0 \/ Of(head, ObjectKinds) = 0)

IsDocument(format, file) ==
  CASE format \in {"loki", "otlp"} -> ~LinesByHead(format, file)
    [] format = "elastic" -> ElasticIsDocument(file)
    [] OTHER -> FALSE
-----------------------------------------------------------------------------
(* Records: what a reader finds in one line.                                *)

\* Whatever is not a record of the format: one error.
Nothing == [time |-> NoTime, level |-> FALSE, source |-> Unknown]

\* The elements of a list that are objects; the others are passed over.
Objects(entries) == Picked(entries, {i \in DOMAIN entries : entries[i] # Stray})

\* Level and name sit inside the labels or the nested fields.
Opaque(line) == [line.entries[1] EXCEPT !.level = FALSE, !.source = Unknown]

JsonView(line) ==
  CASE line.kind = "object" -> line.entries
    [] line.kind \in {"ecs", "labelled"} -> <<Opaque(line)>>
    [] OTHER -> <<Nothing>>

LokiView(line) ==
  IF line.kind \in {"streams", "labelled"} THEN Objects(line.entries) ELSE <<Nothing>>

OtlpView(line) == IF line.kind = "request" THEN Objects(line.entries) ELSE <<Nothing>>

\* A bare document is read like a wrapped one.
ElasticView(line) ==
  CASE line.kind \in {"document", "ecs"} -> line.entries
    [] line.kind = "object" -> <<[line.entries[1] EXCEPT !.source = Unknown]>>
    [] line.kind = "labelled" -> <<Opaque(line)>>
    [] OTHER -> <<Nothing>>

\* The line regex of FieldSchema: the shape, then the fields in their order.  One token that
\* is neither is tolerated before each.
Matches(schema, line) ==
  /\ line.leads = schema.shape
  /\ schema.level => line.level
  /\ schema.source => line.source # Unknown
  /\ schema.level /\ schema.source => line.order = (IF schema.first THEN "source" ELSE "level")

InferredView(schema, line) ==
  IF Matches(schema, line)
  THEN <<[time |-> line.shapes[schema.shape], level |-> schema.level,
          source |-> IF schema.source THEN line.source ELSE Unknown]>>
  ELSE <<Nothing>>

View(reader, line) ==
  CASE reader.format = "json_lines" -> JsonView(line)
    [] reader.format = "loki" -> LokiView(line)
    [] reader.format = "otlp" -> OtlpView(line)
    [] reader.format = "elastic" -> ElasticView(line)
    [] reader.format = "inferred" -> InferredView(reader.schema, line)

\* The values of a whole document: only Loki and OTLP unwrap a list.
DocumentView(format, file) ==
  FlattenSeq([i \in DOMAIN file.whole |->
                IF format = "otlp" THEN OtlpView(file.whole[i])
                ELSE IF file.whole[i].kind = "streams" THEN Objects(file.whole[i].entries)
                ELSE <<Nothing>>])

\* A _search response: one value, and no list.
IsResponse(file) ==
  Len(file.whole) = 1 /\ file.lines[1].kind # "bracket" /\ file.whole[1].kind = "hits"
-----------------------------------------------------------------------------
(* Reading: [lines, errors, untimed, unmapped, shape, raises, events], an   *)
(* event being [time, source, own], own when its time is of its own line.   *)

HasTime(entry) == entry.time \notin {NoTime, BadTime, FarTime}

\* Every entry is an event or one counted error, but for a time parse_timestamp overflows at:
\* the readers of records catch its ValueError alone, and the reading ends there.
Read(entries, lines) ==
  [lines |-> lines,
   errors |-> HowMany(entries, LAMBDA e : ~HasTime(e)),
   untimed |-> HowMany(entries, LAMBDA e : e.time = BadTime),
   unmapped |-> HowMany(entries, LAMBDA e : HasTime(e) /\ ~e.level),
   shape |-> None,
   raises |-> \E i \in DOMAIN entries : entries[i].time = FarTime,
   events |-> LET kept == Picked(entries, {i \in DOMAIN entries : HasTime(entries[i])})
              IN  [i \in DOMAIN kept |->
                     [time |-> kept[i].time, source |-> kept[i].source, own |-> TRUE]]]

ReadLines(reader, file) ==
  Read(FlattenSeq([i \in DOMAIN file.lines |-> View(reader, file.lines[i])]), Len(file.lines))

\* A document counts as one line, a response as one per hit; a value that is none of theirs
\* is one error.
ReadDocument(format, file) ==
  IF format = "elastic"
  THEN IF IsResponse(file)
       THEN LET hits == Objects(file.whole[1].entries) IN Read(hits, Len(hits))
       ELSE Read(<<Nothing>>, 0)
  ELSE Read(IF file.whole = <<>> THEN <<Nothing>> ELSE DocumentView(format, file), 1)

ReadableIn(shape, line) == shape \in DOMAIN line.shapes /\ line.shapes[shape] # BadTime

\* RawLinesAdapter: the first shape in preference that enough of the head parses in.
Adopted(file) ==
  LET head == First(file.lines, RawSample)
      fits == {i \in DOMAIN Preference :
                 head # <<>> /\ Reaches(HowMany(head, LAMBDA l : ReadableIn(Preference[i], l)),
                                        Len(head), RawShare)}
  IN  IF fits = {} THEN None ELSE Preference[Min(fits)]

\* Every line is an event: with its own time, that of the last line that had one, or its number.
\* This reader catches the overflow as well.
ReadRaw(file) ==
  LET shape == Adopted(file)
      own == {i \in DOMAIN file.lines : shape # None /\ ReadableIn(shape, file.lines[i])}
      before(i) == {j \in own : j <= i}
      time(i) == IF before(i) = {} THEN i ELSE file.lines[Max(before(i))].shapes[shape]
  IN  [lines |-> Len(file.lines),
       errors |-> 0,
       untimed |-> Len(file.lines) - Cardinality(own),
       unmapped |-> HowMany(file.lines, LAMBDA l : ~l.level),
       shape |-> shape,
       raises |-> FALSE,
       events |-> [i \in DOMAIN file.lines |->
                     [time |-> time(i), source |-> Unknown, own |-> i \in own]]]

Reading(reader, file) ==
  IF reader.format = "raw_lines" THEN ReadRaw(file)
  ELSE IF IsDocument(reader.format, file) THEN ReadDocument(reader.format, file)
  ELSE ReadLines(reader, file)
=============================================================================
