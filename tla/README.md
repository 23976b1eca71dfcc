# Mistify, specified in TLA+

Mistify turns the logs of an incident into a scratchpad - one SQLite file - and lets a language
model investigate it with a handful of tools under a budget. A second model call may write the
conclusion, a third may argue against it, and a report is rendered from what the scratchpad holds.
The whole of it can be driven from a command line or from an MCP server. This directory holds TLA+
specifications of the parts whose correctness is a matter of order, failure, concurrency or
arithmetic at a boundary, the TLC configurations that check them, and theorems about them that
TLAPS proves.

Paths are relative to `src/src/mistify/` unless they start with `tests/`.

## 1. Inventory

| Component | State it keeps | Operations | Talks to |
|---|---|---|---|
| Investigation loop `agent/loop.py` | conversation, `InvestigationResult`, coverage and silent nudges | `run`, `_nudge`, `_ask_for_something_written`, `_compact`, `_converge`, `_record` | provider (call), toolbox (call), scratchpad (notes, metrics) |
| Tool box `agent/tools.py` | `step`, `_seen_events`, `_shown_templates`, `nudged_templates` | `dispatch` over `query_templates`, `get_slice`, `run_sql`, `write_note`, `read_notes` | scratchpad |
| Token budget `agent/budget.py` | `spent` of one run, shared by all providers | `converse` refuses or charges; `loop_should_stop` | loop, synthesis, check |
| Runner `agent/runner.py`, synthesis `agent/synthesis.py`, adversarial check and rebuttal `agent/adversarial.py` | notes, critique and metrics in the scratchpad; refused stages in memory | the stages in order, each with its refusals and failures | all of the above |
| Skeleton `agent/skeleton.py` | none | one note on the top-scored template, without a model | scratchpad |
| Scratchpad `scratchpad/db.py`, `scratchpad/migrations/*.sql` | the SQLite file | open and migrate; events, templates, notes, query log, critique, metrics; guarded read-only SQL | everybody |
| MCP server `mcp_server.py` | `_IncidentLocks._held`, in memory | `ingest`, `health`, `investigate`, `report`, `report_data`, `query`, each in a worker thread | scratchpad files, pipeline, runner |
| Command line `cli.py` | none; processes share files by path | `ingest`, `health`, `investigate`, `run`, `report`, plus `reveal` and evaluation | the same |
| Ingest `pipeline.py` | the scratchpad under construction, vault, Drain3 snapshot | select a reader, calibrate, redact, template, store, score, measure, check | adapters, bootstrap, redaction, templating, scratchpad, health |
| Adapters `adapters/*.py` | counters of the source being read | detect, choose a layout, parse, merge the files of a directory | ingest, bootstrap |
| Format bootstrap `bootstrap/*.py` | schema directory on disk | best known, structural, model, sub-shape; gate; persist | adapters, providers |
| Redaction `redaction/*.py` | counts, salt, worker pool, vault | `redact`, `merge_counts`, fallback to serial, `flush` | ingest |
| Templating `templating/*.py` | Drain3 tree, per-template statistics, evictions | `process`, `snapshot`, threshold calibration | ingest |
| Anomaly scoring `scratchpad/anomaly.py` | none | score, select signal templates | ingest, loop (through a metric) |
| Log health `health.py` | none; its verdicts are metrics | twelve threshold checks over metrics, events and templates | ingest, `health`, `investigate`, report |
| Providers `llm/*.py` | pacing of the last call | `converse` with bounded retries | external services |
| Report `report/*.py`, `findings.py` | none | rank, verify citations, warn, render | scratchpad |
| Metrics `metrics.py`, `stage_metrics.py`; configuration `common/*.py` | declarations | - | everybody |
| Evaluation `eval/*.py` | results on disk | run cases, score | offline |

What is hard here, and what correct means:

* **The model is not to be relied on.** It may ask for any batch of calls, cite what it never
  read, stop early, refuse, or never stop. The loop must end, a budget that bit must be said to
  have bitten, a citation must lead back to something a tool returned, and the conversation must
  stay one a provider accepts while nudges, reminders and compaction edit it.
* **One ceiling is shared by stages that do not know of each other.** It is asked before a call
  and charged after it. The loop keeps 15 % of it for the stages that follow.
* **What is durable is committed piecewise.** A process may die between any two commits. A
  scratchpad is resumed or restarted by later attempts, whose notes, metrics and critique must not
  be taken for each other's; an ingest that is run again meets the vault, the tree and the schema
  cache of the one before.
* **Requests are served in threads, commands in processes.** Writers in the server are excluded
  per incident by a lock that refuses; the command line takes no lock at all. An ingest unlinks
  a file others have open.
* **What gates a spend was computed from something else**: from thresholds that may be edited,
  from a scratchpad that may be replaced, from metrics that may never have been recorded.
* **Opening a scratchpad migrates it**, in statements that commit one by one.
* **Answers are matched to objections by ids a model writes.**
* **Work is divided and merged**: chunks over worker processes that may die, files of a directory
  over readers that disagree, clusters evicted from a tree that events already point to. Counters
  must come out as if nothing had been divided.
* **Formats are guessed** from a few lines, by several readers that all recognise JSON, or by a
  schema derived from the very lines it is then judged by.

## 2. Modules

| Module | Models | Its state is |
|---|---|---|
| `AgentLoop` | loop, tool box, budget | `InvestigationResult`, the toolbox's sets, the conversation as kinds of messages, notes, query log |
| `AgentLoopProofs`, `MCAgentLoop` | - | theorems; templates, events, ranks, the earlier note of a resumed run |
| `InvestigationRun` | `investigate` (CLI), runner, synthesis, check | the durable part of the scratchpad, and one attempt's memory |
| `InvestigationRunProofs` | - | theorems |
| `Rebuttal` | what critique and rebuttal say, and how it is paired and stored | objections, answers, stored rows, outcome, alarm |
| `RebuttalProofs`, `MCRebuttal` | - | theorems; symmetry of events |
| `OneWriterPerIncident` | what `_IncidentLocks` promises (abstract) | writers per incident, verdict per call |
| `McpServer` | the six tools, the locks, the scratchpad files | program counter per call, guard, held incidents, which file a path leads to |
| `McpServerProofs` | - | theorems about the server, among them the refinement, and about the migrations |
| `Schema` | what opening a scratchpad promises | statements in effect, how far each connection has come |
| `Migrations` | `ScratchpadDB.apply_migrations` | `Schema`'s, recorded versions, each connection's progress |
| `MCMigrations` | - | the seven scripts, statement by statement |
| `Adapters` | the five readers: detection, layout, records, the raw reader's shape | none: operators on a file |
| `Bootstrap` | cache, structural inference, model reply, sub-shapes, gate | none: operators on a file and a cache |
| `Sources` | choosing a reader for every file, the model call, reading, counters | schema cache; one ingest's members, counters and events |
| `SourcesProofs`, `MCSources` | - | theorems; files of every layout, settings |
| `Ingest` | `pipeline.ingest`, redaction, vault, templating, scratchpad writes | scratchpad, vault and snapshot on disk; one ingest's memory |
| `OneLogPerScratchpad` | what an ingest promises the readers of a scratchpad (abstract) | is there one and is it complete, which log, how much of it |
| `IngestProofs`, `MCIngest` | - | theorems, among them the refinement; sources and settings |
| `SequenceLemmas` | - | facts about sequences that the proofs of ingest, life cycle and sources share |
| `LogHealth` | the twelve checks of `health.py` | none: operators on a scratchpad and thresholds |
| `Report` | ranking, citations, window, warnings | none: operators on a scratchpad |
| `Lifecycle` | the commands, as processes on one incident | every scratchpad file there has been, the path, a record per process |
| `LifecycleProofs`, `MCLifecycle` | - | theorems; a log, and thresholds before and after an edit |

How they fit together:

* `Sources` composes `Adapters` and `Bootstrap` (EXTENDS) and asks `LogHealth` (INSTANCE `Health`)
  what the check will make of its metrics. What it hands on - records in order, counters - is what
  `Ingest` takes as a source.
* `Ingest` ends in a health check whose verdict it leaves open; `LogHealth` computes it. It implements
  `OneLogPerScratchpad` by the mapping at its end: no scratchpad is `absent`, one without the metrics
  that come last is `filling`, and its rows are the lines of its events.
* `Lifecycle` EXTENDS `Report`, which EXTENDS `LogHealth`. It contains `Ingest` by its commits
  (unlink, create, load by halves, index, measure, assess) and an investigation as notes written
  one at a time, and adds what neither has: other processes.
* `InvestigationRun` is the investigation commit by commit. It contains the search as any number
  of turns that may write notes, and ends it in the three ways `AgentLoop` ends; `AgentLoop` is
  that search. It takes one of the rebuttal's outcomes; `Rebuttal` is where they come from.
* `McpServer` runs `Investigate` and `Migrate` as steps of its calls and implements
  `OneWriterPerIncident` by the refinement mapping at its end; `Migrations` is what happens when a
  scratchpad is opened.

Definitions whose comment begins "A bug" or "Mutant" are not part of the model. Each is the form
that a named definition would take under a plausible error, kept to see that the property it goes
with notices.

### AgentLoop

`pc` names the place in `InvestigationLoop.run`. `ModelCallsTools`, `AnswerSentBack` and
`AnswerStands` are the three things that can happen to a turn, `ResultsReturned` is everything
`run` does between two turns (append results, compact, remind, ask both budgets), `ClosingTurn`
and `ClosingTurnRefused` are `_converge`, `Record` is `_record`. Every tool is an action, because
a batch is dispatched call by call and each takes a step number and leaves an audit row. The texts
of tools and messages are abstracted to what the properties tell apart: the kind of a message,
whether a result is long enough to be compacted, the ids it returned.

The shares (0.85 of the ceiling, 0.6 of a budget) are integer arithmetic: 85 \* ceiling \div 100
and 10 \* x >= 6 \* y, against `int(ceiling * 0.85)` and `>=` on floats in the code. They agree on
the values the configurations use; a ceiling large enough for a float to round differently is not
modelled.

`grew` is a history variable: has a turn cost more than the one before it. `log` rows carry the
ids they returned, which `query_log` does not store. `SqlAliases` separates what `_run_sql` means
(a column named `id` of `log_events` is an event id) from what it does (any integer under that
name): FALSE is the first, TRUE the second.

### InvestigationRun

`Start` is the command up to `run_investigation`, with `--resume` and `--restart`; the attempt then
goes through `ForgetStages`, `BuildProviders`, the search, synthesis, critique, rebuttal, saving
(two commits: `SaveCritique`, `RecordCritique`) and `Finish`. `stamp[m]` says which attempt
recorded metric `m`; `outcomes`, `saidSpent` and `saidRefused` hold the values the properties are
about. `Crash` keeps exactly `durable`. `Malformed` says whether a model may write an id `int()`
cannot read where a list of ids is expected.

### Rebuttal

`Object` is the critique as parsed, `Read` the rebuttal's turns with tools, `Respond` its last one,
`Record` the pairing and the writing of rows. Objection `i` is the code's `"o<i>"`; `NoId` and
`StrayId` are an answer without an id and one with an id nobody handed out.

### McpServer

A call is a thread; each lock operation, existence check, unlink, connect and migration is a step
of its own. Scratchpads on one path are numbered in the order they were made, so that a connection
to one that was unlinked can be told from a connection to its successor. `Crash` forgets the locks
and keeps the files.

### Migrations

One action per thing SQLite commits. A row of `schema_migrations` stays pending, and keeps the
write lock, until the next `executescript` or the final commit. `Scripts[v][k]` says what a
statement does, and to what: `create` (refused a second time), `ensure` (`IF NOT EXISTS`), `fill`
(an `UPDATE`) or `drop` (`DROP INDEX IF EXISTS`). `After` is what it leaves; a connection that read
`schema_migrations` before another recorded a version runs that version again, drops included.
`Schema` has the part every connection shares, and what it means for a schema to be complete:
everything is there that no script drops (`Lasting`). The two indexes that `0005_event_indexes`
drops are not of these: `idx_log_events_severity` is gone for good, and `idx_log_events_trace`,
made anew at once, may be missing after all (`migrations_replay.cfg`). `MCMigrations` lists the seven
scripts in these terms.

### Adapters, Bootstrap, Sources

A line is a record of what the readers tell apart: its `kind` (a JSON value, an object, an object
of one of the named formats, whatever begins with a bracket - a list, the first line of one, or
corrupt text - and other text), the `entries` it holds (each with a time that parses, does not
parse, lies beyond what a datetime holds (`FarTime`) or is absent, a severity, a source name), the
`keys` its text shows, and, for a text line, the timestamp `shapes` in it, which of them leads,
and its `width`.
Spellings of fields and formats of numbers are abstracted; which reader drops, counts or keeps what
is not. Scores are integers, in hundredths per line of the sample, so that 0.6 + 0.38 of a share is
exact.

`Adapters!Detect` is `detect_format` (tier, then floor, then score), `IsDocument` the choice of
layout on `_LAYOUT_SAMPLE_LINES` lines, `ReadLines`, `ReadDocument` and `ReadRaw` the three ways to
read a file into `[lines, errors, untimed, unmapped, shape, raises, events]`, `Adopted` the shape the
raw reader settles on. `Bootstrap` has the four routes of `bootstrap_format`: `Known`,
`Structural`, `Inferable` (every schema a model's reply may come to), `Subshape`; and the gate,
`Passes`, on lines held out.

`Sources` is the state machine around them: a file at a time is chosen a reader (`TakeNamed`,
`SkipBinary`, `TakeDetected`, `BootstrapOff`, `BootstrapFree`, `NoModel`, `AskModel`, `ModelAnswers`,
`ModelBusy`, `ModelFails`, `Adopt`), then a file at a time is read (`ReadMember`,
`MemberIsBinary`; `MemberRaises` where `parse_timestamp` raises what the reader does not catch), then the counters become metrics (`ReadEnds`). `ModelBusy` is the retry loop of
`llm/retry.py`. `Dies` may leave the schema that was being written torn. An ingest that raises
part-way keeps no events here; what it has committed by then is a partial scratchpad, which is
`Ingest!Dies`. What the `shapes` of a text line spell is a date that a datetime holds: with a
year-9999 date beyond UTC in a text file, scoring a schema would raise as well.

### Ingest

Every action is what happens between two commits of `ingest`: `Begin` (settings and vault),
`Calibrate`, `Open` (snapshot restored, old scratchpad unlinked), `CreateIncident`, then chunk after
chunk `TakeChunk`, `MergeSlice` or `RedactHere`, `PoolBreaks`, `ChunkRedacted`, `TemplateLine`,
`ChunkStored`, then `StoreTail`, `StoreTemplates`, `SaveTree`, `Score`, `FlushVault`, `Measure`,
`Check`. A line is the value it hides, the number of texts that carry it, and its shape; a
placeholder is the pair of an ingest (whose salt is new) and a value. `Dies` keeps exactly `disk`:
scratchpad, committed part of the vault, snapshot.

Drain3 is external: it groups lines by `shape`, keeps the `MaxClusters` used last, numbers clusters
upward and never again. Whether a restored tree keeps its old capacity is Drain3's decision and left
open; so is what calibration picks, among the two cluster limits. The placeholder salt is taken as
drawn anew, which is the default; with a configured salt the placeholders of two ingests coincide.
An event stores its raw line, `scratchpad.store_raw` being on, the default. With it off
(`scratchpad/db.py:245`) the raw text is redacted and counted but not stored, so that fewer
placeholders may be stored than were counted: `CountsMatchText` and `VaultMatchesText` are about
scratchpads that keep it.

### LogHealth, Report

Operators only. `LogHealth!Check(pad, cfg)` is `check_health`: a function from the name of a check
to its verdict. A missing metric and a metric that is zero are different answers everywhere, as in
`MetricView`. Shares are compared as whole percents of exact fractions. The clock-skew search is
there in full: activity slots per source, `BestShift`, the clock most events agree on, tied
clocks, corroboration by the way raw lines write their zone. A clock is weighed by the events of
all the sources on it (`Held`). `Report!Collect` is
`report/generator.py: collect` as far as it decides something: the order of the notes, unresolved
citations, the window, the status that leads the health section, the metrics said as warnings, the
checks said as problems. `Thresholds` are all the metrics with a declared trigger, `Unworded` those
of them the report has no warning of its own for.

### Lifecycle

`files` holds every scratchpad there has been, `path` the one the name leads to: a process that has
a file open goes on with it after another unlinked the name, which is what SQLite and the file
system do. `proc[p]` is a process: the command's number, where it is, its flags, the thresholds it
loaded, the verdicts it carries, the file it has open. `StartIngest`, `StartRun`,
`StartInvestigate` and `StartHealth` (with `RecordHealth`, its commit) are the commands; `Unlink` to `Assess` the ingest; `RunOpens`,
`CheckHealth`, `Gate`, `Clear`, `Begin` the way of an investigation to its first token;
`SearchWrites`, `SearchEnds`, `Skeleton` the investigation; `Dies` the death of a process anywhere.
`report` reads: `Rendered(f)` is what it would say of file `f` now.

`run` counts as two commands. Two ingests of one incident at the same time are not modelled on the
command line: nothing there keeps them apart, and nothing in the repository claims that they may run
together. The server's lock, which does keep them apart, is in `McpServer`.

## 3. Runs

Runs that pass:

| Run | Instance | What it shows |
|---|---|---|
| `loop_evidence` | 2 templates (one chronic), 2 events, 2 tool calls, batches of 1 and 2, fresh or resumed | every event a note cites was returned by a call logged before the note (`EvidenceIsAudited`); each note has its own logged call (`NotesTraceToTheirCall`); a run that stops by itself named every acute signal template it did not cite (`EveryIgnoredSignalWasAsked`) |
| `loop_budget` | 4 tool calls, costs 1, 2 and 6 under a ceiling of 12, budget fresh or already spent, one step of history kept | the recorded outcome is `budget_limited` exactly when a budget ended the run (`BudgetStopsAreSaid`); a silent run is reminded while it still has tools (`RemindedInTime`); calls and results pair up (`CallsAnswered`); compaction touches just the results outside the window, once (`CompactionSound`); the run ends (`Terminates`) |
| `mcp` | 2 calls on 2 incidents, 1 death of the process | `WriterKeepsItsScratchpad`, `OneAuthorPerRecord`, the refinement `ImplementsPromise`, and `EveryCallAnswered` |
| `migrations` | 2 connections, the 7 scripts, 2 deaths, starting from any released version | a scratchpad that opens has every table, every column and every index that no script drops (`OpenIsComplete`), whoever made them and whatever was run twice |
| `run_attempts` | 2 attempts, 1 death, a ceiling one call can reach, malformed replies | a conclusion rests on what a search cited (`EvidenceIsGathered`) and sorts last (`ConclusionIsLast`); no metric is inherited (`MetricsAreOfThisAttempt`); a verdict is that of the saved critique, which read every note (`VerdictIsBacked`); an attempt whose process lives ends (`EveryAttemptEnds`) |
| `rebuttal` | 2 objections, 2 answers, 2 rows, 1 reading call in batches of up to 2 | a stored response was given to that objection (`ResponsesAreOwn`) |
| `ingest` | 2 ingests over 7 sources of up to 4 lines, 4 settings, 2 workers, chunks of 3, batches of 2, 2 clusters | each step is one of `OneLogPerScratchpad`: lines are taken up in their order, all of them before the scratchpad is complete, and no ingest goes on with, or writes over, what another left (`FillsOneLog`); the redaction count is that of the placeholders stored, whatever broke (`CountsMatchText`); every event has a stored template and the counts add up, whatever was evicted (`TemplatesAddUp`); the vault reveals the placeholders of its own ingest and holds no others (`VaultMatchesText`); the eviction count, a difference of two sizes, is exact (`EvictionsAreExact`); an ingest ends (`IngestEnds`) |
| `lifecycle` | 2 processes, 3 commands, 2 sets of thresholds, one log whose busiest source runs an hour ahead, 2 notes | a spend is gated by the thresholds of now, on the log as it is (`SpendIsGated`); an investigation of a partial scratchpad is warned of (`PartialIsWarned`); a refused `--restart` cleared nothing (`RefusalLeavesTheRecord`); notes are shared on purpose (`SharedOnPurpose`); the status a report leads with is the worst of the verdicts it lists, whoever checked last and recorded late (`StatusIsTheWorst`); its citations resolve, whoever re-ingested (`CitationsResolve`), since a log somebody reads is only added to (`LogsOnlyGrow`); a shifted clock is blamed on the source that has it (`ShiftedSourceIsNamed`) |
| `sources` | 2 ingests of 29 files and directories, 5 settings, samples of 2, 2 retries | a file of one format's records is read by that format's reader (`EnvelopeDecides`); one corrupt line costs one error, except where it opens a Loki or OTLP file with a bracket (`CorruptLineCostsOneError`); the health check never believes more events timed than were (`CoverageIsNotOverstated`); every line is an event or an error (`EveryLineAccounted`); a schema was scored on lines it was not derived from (`GateHolds`); a cache never makes a file read worse (`CacheNeverHurts`); choosing and reading ends (`IngestEnds`) |

Runs in which TLC finds a statement of the repository violated by what the code does:

| Run | Statement | What happens |
|---|---|---|
| `loop_sql_alias` | `agent/tools.py:180` "Every log event id this investigation has actually been shown" | `SELECT count(*) AS id FROM log_events` puts a count among the ids that may be cited |
| `run_malformed` | `tests/test_runner_degradation.py:1` "costs its stage, not the run" | `int()` raises on an id and nobody catches it |
| `sources_minority` | `adapters/loki.py:168` "a file that is mostly something else does not win on one line" | one labelled line scores 0.6 plus its share, the floor is 0.6, and the tier is compared before the score: the Loki reader takes the file, and every other line is an error |

Four more configurations are kept beside these; each is there to see one more such statement
violated, and is started by hand:

| Configuration | Statement | What happens |
|---|---|---|
| `sources_bracket.cfg` | `adapters/otlp.py:246` "It tolerates a corrupt first line"; `adapters/loki.py:206` "one counted parse error, not the file" | what is left of the first line begins with a bracket: the file is taken for a list (`otlp.py:260`, `loki.py:216`), does not parse as one, and is lost for one error |
| `sources_overflow.cfg` | `adapters/base.py:23` "Malformed input is skipped rather than aborting the run" | `parse_timestamp` is said to raise `ValueError` (`common/models.py:99`) and raises `OverflowError` of an epoch like 1e30 or of `9999-12-31T23:59:59-05:00`; the readers of records catch only the first, and the ingest ends with a traceback |
| `migrations_replay.cfg` | `scratchpad/db.py:140` "Apply any migrations not yet recorded. Idempotent." | two connections read the same versions; one migrates and opens, the other runs `0005` again and drops `idx_log_events_trace`; if it dies or meets a lock before the next statement, the index stays away |
| `lifecycle_override.cfg` | `metrics.py:282` "a report written from a run the check refused has to say that somebody overrode it", promised by `cli.py:176` | a later `--resume` over a check that passes records that nothing is overridden (`cli.py:200`), before its own first note |

`migrations_replay.cfg` goes with `MCMigrations`, `lifecycle_override.cfg` with `MCLifecycle`, the other two
with `MCSources`.

### Bounds, and why they are enough

Every bound is a constant. Settings of the program are set low so that every limit is reached:
`MaxToolCalls`, `MaxNudges`, `HistorySteps`, `RebuttalCalls`, `Ceiling`; `ChunkSize`, `BatchSize`,
`MinParallel`, `CommitInterval`, `MaxClusters`, `FewClusters`; `LayoutSample`, `RawSample`,
`SampleSize`, `MaxSubshapes`, `MaxRetries`; the thresholds in `Configs`. The others bound the
environment: `MaxAttempts`, `MaxTurns`, `MaxCrashes`, `MaxObjections`, `MaxAnswers`, `MaxBatch`,
`BatchSizes`, `Costs`, `MaxIngests`, `MaxCommands`, `MaxNotes`, and the sets of calls, incidents,
connections, processes, templates, events, ids, sources and inputs.

* Two of each actor is what an interference needs: every exclusion and every pairing relates two
  parties.
* Loop: `loop_evidence` has no token budget, so of the two reasons not to ask again only the nudge
  allowance is met there; the token share is covered by `IgnoredSignalWasAsked`. Two templates separate acute from chronic signal and named from unnamed; four calls with
  one step of history give results inside and outside the window and a compaction after a
  compaction; costs 1, 2 and 6 under 12 give turns that fit, turns that take the loop's share and
  turns that reach the ceiling.
* Attempts and ingests: two, with deaths, give a second one on top of any prefix of the first -
  another source, other settings, an old tree, an old vault.
* Ingest: chunks of 3 and batches of 2 over 4 lines make chunk, batch and source end at different
  lines; three shapes for two clusters evict and bring a shape back; slices of one line let a pool
  break before, between and after merges.
* Sources: samples of 2 over files of up to 4 lines leave lines outside every sample; the inputs
  hold, for every reader, a pure file, a garbled one and a document, and directories whose members
  disagree about format, shape and readability. What a model may answer is every schema that its
  own checks let through. What violates a statement takes the inputs it needs and no
  more: two or three sources, no deaths in `migrations_replay.cfg`, one process in
  `lifecycle_override.cfg`.
* Lifecycle: three commands are an ingest and two others, or two ingests and an investigation
  between them. The log is one that the strict thresholds fail and the lenient ones pass. One kind
  of note is enough, since the skeleton's differs from it in every part the ranking reads.

The safety properties that have a theorem (section 4) do not depend on these bounds at all.

### Fairness

Weak fairness is assumed of the loop's own steps, of an attempt's steps, of each thread of the
server that can move on (`pc' # pc`: an investigation may not write notes for ever), and of the steps
of an ingest, in `Ingest` and in `Sources`; of nothing else: a request need not arrive, a process
need not die, a pool need not break. The code justifies it: provider calls time out and are retried
a bounded number of times (`llm/retry.py`), `run_sql` and `query` have a time limit, the guard of
`_IncidentLocks` is held over a few statements, a source is finite, and the rest is local.
`Lifecycle` states none: nobody has to type a command, and its properties are about what must not
happen. `Quiet`, `Settled`, `Finished` and, in `Rebuttal`, `Done` let a finished instance stutter, so
that TLC's deadlock check, which stays on, means something; `lifecycle` turns it off, because a command line on
which nothing more is typed stops.

## 4. Theorems

Proved for all values of the constants, under the `ASSUME` of each module and the hypotheses named
here.

* **AgentLoopProofs.** `TypeCorrect`. `ReserveIsKept`: `ReserveKept` is not inductive by itself;
  `ReserveInv` adds what room is left at each place - two more turns between turns, which is what
  `loop_should_stop` tests, one while calls are dispatched or the closing turn is due.
  `FreshLoopIsNotRefused`: with an unspent budget the loop always has tokens when it comes to
  converse, so of the two refusals `run` handles only that of the closing turn can happen.
  `CitationsAreAudited` assumes `SqlAliases = FALSE`; `AuditInv` adds that every id in `seen` is in
  some logged row and that steps do not run ahead of `toolStep`. `BudgetStopsSaid` by `LimitInv`
  (`limit` agrees with the counters at each place). `IgnoredSignalWasAsked` by `AskedInv` (the
  templates a nudge named stay named, and what stands unasked has no allowance left).
  `NotesTraceToCalls` by `StepInv`: the log has one row per step, in order, and no note's step is
  ahead of them. `ConversationIsWellFormed` by `AnsweredInv`: the last message asks for tools exactly
  while its calls are dispatched, so that nudges and reminders never come between a batch and its
  results. `CompactionIsSound` needs nothing added, but an argument message by message: a message
  that carries no results moves none across the window, one that does pushes at most one out.
  `SilenceIsReminded` assumes `SmallBatches`: no turn asks for more than four tenths of the calls a
  run has. The reminder falls due at six tenths and only between turns; a turn that goes from below
  six tenths past the last call leaves no turn to write in, and the statement is then false. The
  code sets no limit to a batch, so this is a condition on the model that answers; `loop_budget`
  is an instance that meets it.
* **InvestigationRunProofs.** `TypeCorrect`, `OvershootBounded`, `MetricsAreOwn`,
  `ConclusionsCiteFindings` (`GatheredInv`: whatever any note cites, a finding cites),
  `VerdictsAreBacked` (`VerdictInv` follows the critique through rebut, save and saved, together
  with `NotesStep`: no note is written after the critique read them), `StagesAreSaid` (`SaidInv`
  says at each place what is already on record or still in `refused`),
  `OnlyTheSearchFailsTheRun` (`FailureInv`), which assumes `Malformed = FALSE`, and
  `ConclusionsComeLast`: `ConclusionInv` adds that an attempt has no synthesis on record until it
  reaches the end of that stage, and that between the note and its record the note is the last
  (`Concluded`); a resumed attempt's record is told from an earlier one's by its stamp.
* **RebuttalProofs.** `TypeCorrect`, `ResponsesBelong`, `CitationsWereShown`, `AlarmIsExact`,
  `OutcomeIsShown`, all from `StoredInv`: what `Record` stored is a function of the answers.
* **McpServerProofs.** `TypeCorrect`, `OneWriterAtATime` (with who is inside the guard),
  `ScratchpadIsKept`, `RecordHasOneAuthor`, and `ServerKeepsPromise`: every step of the server is a
  step of `OneWriterPerIncident` or a stutter, for any number of calls and incidents. A call opens
  the scratchpad of its incident, so the theorems about that are here too: `Db` is `Migrations` for
  any list of scripts, any number of connections and deaths, and of it `VersionsInOrder`
  (`OrderInv`: whatever lies before the version a connection is at is recorded, or pending in its
  own transaction), `RecordedMeansDone` and `OpenMeansComplete` (`DoneInv`: what the statements before
  `at` make for good is in effect, and so is all that a row stands for, committed or pending).
  Statements are run again by connections that read the versions early, so the step is that
  whatever runs, `LastingStays`: what no script drops is taken away by none. It needs `MadeOnce`,
  that no two statements make the same lasting thing. The theorems do not say that an index which a
  script drops and makes anew is there; it need not be. The assumption of
  an instance is not assumed by whoever instantiates it, so `Db!MigrationAssumption` is a
  hypothesis of these three.
* **LifecycleProofs.** `RefusedCommandsLeaveNoTrace`, `NotesAreSharedOnPurpose`, `SpendsAreGated`,
  `CitationsAlwaysResolve`, `PartialLogsAreWarnedOf`, `StatusIsAlwaysTheWorst`, `LogsAreOnlyAddedTo` and
  `ShiftedSourcesAreNamed`, for any number of processes, commands, notes, logs and thresholds. One
  inductive invariant, `IInv`, carries them all: `Shape` (the type); `Numbers` (no
  two processes have one number, and the later of two knows the earlier); `Traced` (every trace in a file is of a command that was issued), with
  `Clean` (a command that has not passed its gate has left none) for the first theorem; `Admitted`
  (what a process may find in the file it has open or is about to open: a plain investigation, only
  notes of commands it runs beside), `Noted` (an attempt on a file knows every earlier command still
  under way) and `Shared` for the second; `Ingested` (one ingest at a time, and what its file holds at
  each step of it) and `Informed` (verdicts carried past the check of a whole log are those of the
  log as it is) for the third; `Cited` (the rows a note cites are in its file, whose rows only grow
  from then on) for the fourth. `PartialLogsAreWarnedOf` has `Measured` (a log that is not whole has no
  metrics yet) and `Cautious` (a process past its gate, on such a log, carries a verdict that is not
  `ok`); there a check is expanded, to see that without metrics none passes.
  `LogsAreOnlyAddedTo` is an action property: the steps of an ingest are the only ones that touch a
  log, they are on the file it made (`Ingested`), and it appends. `StatusIsAlwaysTheWorst` has
  `Judgements` (the status of a file is the worst of what it says, and what a process carries to
  its gate is the result of a check). Verdicts are upserted one by one, and a check of an empty log
  has only one: that the worst of what was said before and of what is said now is the worst of
  what is said now holds because that one verdict is then `fail` (`UpsertedKeepsWorst`); every
  other check has all twelve. Verdicts that were recorded by another release of the program, with
  other checks, are not claimed.
  * `ShiftedSourcesAreNamed` is the one that looks into the search for shifted clocks. It is about
    logs from whose lines the clocks can be told, `WellClocked`: any two sources that are compared
    align best at the shift their clocks differ by, and as well only at larger ones; significantly,
    where they differ; and more lines are on time than are ahead by any one amount. Without that no
    search could be right; TLC evaluates it for the logs of the instance, whose busiest source is the
    wrong one.
    `Carries` (what a finished load measures is the log that was ingested) brings the invariant to
    it. Then: the shift that aligns two sources is the one the scan returns (`ScanFindsBest`,
    `AlignedIsFound`); there is a busiest source to compare with; each source's lag behind it is
    that of their clocks; the lag most lines agree on is the busiest source's own lead, so that what
    is taken as right is the true time and the sources off it are the shifted ones
    (`SkewsAreFound`).

  `LogsAssumption` says that the events of a log are numbered from 1.
* **IngestProofs.** For any sources, settings and sizes of chunks, batches, pools and trees, and any
  number of ingests and deaths. `IngestAssumption` says that a source is a sequence and that sizes are
  positive.
  * `ScratchpadFollowsSource`. `FollowInv` follows the lines through the buffers: what is stored, then
    `batch`, then `redacted` or `chunk`, are consecutive pieces of the source that end at `taken`
    (`Own`, `Ahead`), so that nothing is lost, doubled or out of order where a buffer is emptied into
    the next, the last, short batch included. The others rest on it.
  * `PlaceholdersAreCounted`. `CountsInv`: the tally is the placeholders of the brief and of the lines
    that were redacted, and `before` keeps what it was at the start of a chunk, for the case that the
    pool breaks. The total of a file is a sum over the source (`Running`), split at the place the
    load has reached.
  * `VaultRevealsText`. `VaultInv`: with a vault nothing is redacted by the pool, what is redacted so
    far has been handed to the vault, and the vault holds nothing that is not in the source or the
    brief (calibration reads ahead, but no line that the load does not).
  * `TemplatesCountTheirEvents`. `TemplatesInv`: every line loaded, stored or not, is under a template
    of the registry, which counts it once.
  * `EvictedAreCounted`. The count is a difference of two sizes, over a tree that may have been
    restored with clusters of an earlier ingest. That it is exact needs `UsedLast`: the clusters this
    ingest used are the most recent of the tree, and if one of them is gone, so are all it did not use.
  * `IngestKeepsPromise`: every step is one of `OneLogPerScratchpad` or a stutter. `PromiseInv` adds that
    `CreateIncident` finds no scratchpad and that what is ingested is one of `Sources`.
* **SourcesProofs.** For any inputs, settings, sample sizes, floors, schemas a model may answer, and
  any number of ingests and deaths. `SourcesAssumption` says that a source is a sequence of files, a
  file of lines, and so down to an entry (`IsFile`), and that a sample has a line and the one the layout is
  chosen by more than one (it has five).
  Two invariants: `SelectInv` (every member's reader was chosen for its own file as the selection
  says, what was adopted had passed its gate, whatever loads from the cache leads with a timestamp)
  and `ReadInv` (counters and events are those of the members read so far; `LinesBefore` is a running
  sum of their lines).
  * `CachedIsNoWorse`, `GateIsKept`: from `SelectInv` and the order of the proposals, whatever other
    ingests left in the cache, a torn schema included.
  * `LinesAreAccounted`: from `ReadInv`, with what each reader makes of a line counted once.
  * `CoverageIsTrue`: from both; only the raw reader keeps an event it could not time. It has a
    hypothesis: with a floor of 0 and no reader registered but the raw one, that one would be
    "detected", and its lines not reported as fallback. By default all five are registered, with a
    floor of 0.6.
  * `EnvelopeIsDecisive`: from `SelectInv` and the scores of all readers on a file of one named
    format's records. The floor is at most 95 in it (the code has 60): an ECS line scores 95, and a
    higher floor loses files of them. A file that mixes an Elasticsearch dump with bare ECS lines is
    not claimed.
  * `CorruptLineIsOneError`: from `SelectInv`; a file with one garbled line is compared, line by line
    and as a document, with the file without it. A Loki or OTLP file whose corrupt line is the first
    and begins with a bracket is excepted, since there the statement is false (`sources_bracket.cfg`).
    Where a time overflows, both readings raise and there is nothing to compare.
* **SequenceLemmas.** What these proofs need of sequences whose elements have no common type. The
  library's induction takes a predicate as a parameter, which no installed prover instantiates;
  `SetInduction` is induction of a set - a set of naturals that holds 0 and, with a number, the next -
  and `Running` is a sum defined with it.

A few properties are stated by theorems and no longer by runs, because the proof says more and the
runs stay short: `ReserveKept`, `OneWriter`, `RecordedInOrder`, `RecordedIsDone`,
`EveryStageIsSaid`, `OvershootIsOneCall`, `AnswersCiteShown`, `OutcomeMatchesRows`, `AlarmMatchesRows`,
`EventsFollowSource` (which `FillsOneLog` implies) and the type invariants.

Every invariant and every action property of the passing runs is stated by one of these theorems.
Only model-checked is liveness (`Terminates`, `EveryCallAnswered`, `EveryAttemptEnds`, both
`IngestEnds`): it needs `ENABLED`, which is out of this prover's reach.

No module declares a `RECURSIVE` operator.

## 5. Observations without a run

Met while modelling; each is in the model or easily put there.

Investigation:

* `agent/loop.py:387-390` expects a refusal between turns of a step that "cost far more than the
  one before it". By `FreshLoopIsNotRefused` that cannot happen: the projection that precedes
  every turn uses what has been charged already.
* `agent/loop.py:562-563` says two user messages in a row are "not a shape any provider accepts".
  The silent reminder (499) and the closing question (633) follow tool results, which are a user
  message; a reminder followed by the closing question makes three.
* `agent/tools.py:147-149` keeps one counter "so `query_log` and `scratchpad_notes` order the same
  way". The closing note (`agent/loop.py:660`) is numbered by turns, the notes before it by calls:
  after a turn with several calls it sorts before them.
* `llm/base.py:136-137`: "a refusal is not a conclusion". `_record` (`agent/loop.py:714`) says
  `converged` of a run that ended on a refusal and has notes.
* `agent/runner.py:54` runs the critique last so as not to leave "the published finding unchecked".
  A resumed attempt whose critique is refused, fails or is not asked for keeps the old critique
  beside notes it never read. The verdict in the metrics is not affected (`VerdictIsBacked`).
* `agent/adversarial.py:475`: answers that match nothing are "kept, unattached". Answers without an
  id, and all but the last with one id, go into a dictionary and are not stored.

Scratchpad, server and command line:

* Besides what `migrations_replay.cfg` shows: a process that dies inside a script, or two first opens at
  a time, make an open fail on a statement that cannot run twice; after the death, every later one
  fails too. (What opens is complete but for a dropped index: `OpenIsComplete`.)
* `mcp_server.py:87` offers the reads under `read_only_hint=True`. An ingest that unlinks between
  `path.exists()` and the connect (343) lets the read make the file, which it then migrates.
* The incident locks are per process; the command line takes none. Two plain `investigate` commands
  may both pass the check for notes (`cli.py:265`) and then share a scratchpad, which is why
  `SharedOnPurpose` has its second disjunct.
* `cli.py:271-273` wants no attempt to carry "queries it never made". A plain attempt is let
  through when there are no notes, over the query log of one that died before its first note.
* What `lifecycle_override.cfg` shows of a passed `--resume` holds of a refused `--restart` too, since
  `_preflight` (`cli.py:181-212`) records before it refuses. Conversely `health`, run again with
  looser thresholds, leaves the override standing beside verdicts that need none.
* A check is computed before it is recorded (`cli.py:165-166`, 271-275), and may be recorded over a
  log that was loaded in between: the report of a whole log then leads with `fail` and "No events
  were loaded" (`health.py:241`) above eleven verdicts of another check. `StatusIsTheWorst` says that
  status and list agree with each other, not that they are of the log as it is.
* Five metrics are declared load-bearing with a trigger and have no warning of their own in the
  report: `INGEST_TIMESTAMP_YEAR_INFERRED` (`metrics.py:131`), which only changes the words of the
  fallback's warning (`report/generator.py:421`), `INVESTIGATE_INPUT_GROWTH` (370),
  `SYNTHESIS_OUTCOME` (418), `SYNTHESIS_DROPPED_CITATIONS` (438) and `ADVERSARIAL_OBJECTIONS` (448).
  They are `Report!Unworded`.
* The skew metrics of a check (`HEALTH_MAX_SKEW_MINUTES`, `HEALTH_NAIVE_SOURCES`) are written when
  there is something to say and not removed when there no longer is.
* `run` trusts the check its ingest made ("nothing has changed since") and opens the path again;
  another process may have replaced the scratchpad in between. `SpendIsGated` excludes it.
* After `--resume`, the conclusion of the earlier attempt may outrank the later one: `rank_notes`
  compares the scores of the cited templates before the steps.

Ingest:

* The vault is unlinked (`pipeline.py:327`) well before the old scratchpad (401): a death in between
  leaves placeholders nothing reveals. A re-ingest with the vault off leaves the older vault in
  place, whose placeholders are then of no scratchpad. `VaultMatchesText` is about the vault of the
  scratchpad's own ingest.
* Sub-shape schemas are scored on the lines they were derived from and kept, while
  `bootstrap/__init__.py:4-14` and `pipeline.py:167-170` describe validation on lines held out.
  `GateHolds` is about the other routes.
* `--format raw_lines` records no fallback, so the health check counts events numbered by line as
  timed (`health.py:249`); `CoverageIsNotOverstated` is about automatic selection. In a directory
  that mixes readers the check subtracts what other readers could not time, and errs the other way.
* `_bootstrap` catches a provider that cannot be built; a `ProviderError` of the call, or a reply
  that is a JSON list, ends the ingest.
* Two ingests of one directory need not read it alike: the schema cache has grown, and a shape
  without a year takes it from the clock (`adapters/raw_lines.py:164`).
* `_select_for_directory` counts the first five skipped files as errors, and no more.
* The `OverflowError` of `sources_overflow.cfg` comes out of a directory's reader too
  (`adapters/multi_file.py:135`): one line of one file ends the ingest of all, after a first part of
  the events was committed.
* An element of a batch that is no object is dropped without being counted, though
  `adapters/base.py` says lines are "always counted".
* A file whose first five lines are corrupt is taken for a document and lost, although detection,
  which reads a hundred, has named its format. An Elasticsearch file with one `_search` response per
  line yields nothing, and a document that does not parse counts one error of zero lines.
* A line without a timestamp that leads a file read raw, once a shape was adopted, gets an ordinal
  time in 1970 (`adapters/raw_lines.py:69-72`).

## 6. Not modelled, and why

* **Anomaly scoring** (`scratchpad/anomaly.py`): frequencies, bursts and their combination are
  arithmetic on real numbers, over which TLC cannot check anything the code does. That events are
  scored, between the snapshot and the metrics, is `Ingest!Score`; the scores are constants of
  `Lifecycle` and ranks of `AgentLoop`. The chronic set of a report, cut off at fifteen templates, is
  left out with them.
* **Evaluation** (`eval/*.py`): offline, sequential, without state between cases, and real-valued.
  Nothing the program does depends on it.
* **Redaction patterns** are regular expressions: what a line hides is an attribute of the line.
* **Drain3** and the vendors' SDKs are external: `Ingest` has of Drain3 what the wrapper relies on,
  `AgentLoop` and `Sources` have of a model whatever it may answer.
* **Over-merge scores, calibration's choice** and the share of a digest are measurements of text;
  their outcomes are left open or given as metrics.
* **Queries** that change nothing (event search, template details, the read-only SQL channel) appear
  as what they may return. `reveal` prints the vault. The report's HTML, its charts and the prompts
  are wording.
* **Configuration** is validated by pydantic; the settings are constants with their ranges.
* Authorisation of paths in the server is left out except as the refusal `Reject`.

## 7. Plan

Done: the loop, the server and its abstract specification, migrations, the run, the rebuttal, the
ingest and its abstract specification, reading of sources, log health, report, and the life of a
scratchpad across commands; theorems about all of these. What is left, in the order of
what could go wrong unseen:

1. `SearchPromise`, an abstract specification of a search, that `AgentLoop` implements and of which
   the search of `InvestigationRun` is an instance. The two differ in grain: `AgentLoop` charges a
   turn once and may write several notes in it, `InvestigationRun` one.
2. That the ingest of `Lifecycle` implements `OneLogPerScratchpad`, file by file.
3. Two ingests of one incident at a time, on the command line.
4. `select_signal_templates` and the ranking metrics of `eval/ranking.py` against reference
   definitions.
