------------------------------ MODULE Lifecycle ------------------------------
(***************************************************************************)
(* The commands of the command line on one incident (cli.py: ingest,      *)
(* health, investigate, run, report; agent/skeleton.py), as processes that *)
(* interleave and may die between any two commits, over the scratchpad     *)
(* file they share by its path.                                            *)
(*                                                                         *)
(* ingest unlinks the path and creates a file of its own, so a process     *)
(* that has the old one open goes on with it: files holds every file there *)
(* has been, path the one the name leads to (0: none).  The ingest is the  *)
(* subject of Ingest and appears here by its commits; the model's search,  *)
(* conclusion and critique are InvestigationRun's, and appear as notes     *)
(* written one at a time.                                                  *)
(*                                                                         *)
(* Every command loads the health thresholds when it starts (load_config), *)
(* from --config or from a file that may have been edited since the last.  *)
(* report reads the scratchpad and changes nothing: Rendered(f) is what it *)
(* says of a file at any time.                                             *)
(***************************************************************************)
EXTENDS Report

CONSTANTS
  Procs,        \* processes of the command line
  Logs,         \* what an ingest may leave: complete scratchpads, and shifted, the
                \* sources written off the clock of the others and by how much
  Configs,      \* HealthConfig values
  Scores,       \* anomaly score of each template
  NoteKinds,    \* [role, conclusion, confidence, templates] of the notes a
                \* search may write
  MaxCommands,  \* bound: commands issued
  MaxNotes,     \* bound: notes of one file
  None

\* An ingest leaves its events as a sequence.
ASSUME LogsAssumption ==
  \A log \in Logs : Len(log.events) \in Nat /\ DOMAIN log.events = 1 .. Len(log.events)

Investigators == {"loop", "skeleton"}

\* The flags of investigate: neither, --resume, --restart.
Modes == {"plain", "resume", "restart"}

VARIABLES
  files,     \* every scratchpad file there has been
  path,      \* the file at config.scratchpad_path
  proc,      \* the process of each
  commands   \* commands issued so far

vars == <<files, path, proc, commands>>

\* A process of command cmd, which is to do what `task` says.
Process(pc, cmd, task, cfg, file, rivals) ==
  [pc |-> pc, cmd |-> cmd, cfg |-> cfg, file |-> file, rivals |-> rivals,
   investigator |-> task.investigator, mode |-> task.mode, ignore |-> task.ignore,
   log |-> task.log, reporting |-> task.reporting, verdicts |-> <<>>, whole |-> FALSE]

Task(log, investigator, mode, ignore) ==
  [log |-> log, investigator |-> investigator, mode |-> mode, ignore |-> ignore,
   reporting |-> log # None /\ investigator # "none"]

Idle == Process("idle", 0, Task(None, "none", "plain", FALSE), None, 0, {})

Empty == [metrics |-> <<>>, events |-> <<>>, templates |-> {}]

\* said, status and overridden are the metrics of the health stage; whole, trail,
\* begun, cleared and overrode remember what commands did to the file.
NewFile == [pad |-> Empty, said |-> <<>>, status |-> None, overridden |-> FALSE,
            whole |-> FALSE, notes |-> <<>>, trail |-> {}, by |-> None, spent |-> FALSE,
            begun |-> {}, cleared |-> {}, overrode |-> {}]

\* ScratchpadDB(path): the file the name leads to, made when there is none.
Opened == IF path = 0 THEN Append(files, NewFile) ELSE files
OpenedAt == IF path = 0 THEN Len(files) + 1 ELSE path

Working == {"unlink", "create", "load", "index", "measure", "assess"}
Active == {p \in Procs : proc[p].pc # "idle"}
Ingesting == {p \in Procs : proc[p].pc \in Working}

Goto(p, pc) == proc' = [proc EXCEPT ![p].pc = pc]
Finish(p) == proc' = [proc EXCEPT ![p] = Idle]

\* record_many(report.metrics()): the verdicts, and the worst of them.
Judged(f, verdicts) ==
  [f EXCEPT !.said = Upserted(@, verdicts), !.status = Worst(verdicts)]

\* The file a process has open, and a change to it.
Of(p) == files[proc[p].file]
Write(p, file) == files' = [files EXCEPT ![proc[p].file] = file]
-----------------------------------------------------------------------------
Init ==
  /\ files = <<>> /\ path = 0
  /\ proc = [p \in Procs |-> Idle]
  /\ commands = 0

\* A process of the command line, with the configuration it loads.  run has two
\* parts and counts as two commands.
Launch(p, pc, task, parts) ==
  /\ proc[p] = Idle /\ commands + parts <= MaxCommands
  /\ commands' = commands + parts
  /\ \E cfg \in Configs :
       proc' = [proc EXCEPT ![p] = Process(pc, commands + 1, task, cfg, path,
                                           {proc[q].cmd : q \in Active})]
  /\ UNCHANGED <<files, path>>

\* --ignore-health is for a model: the skeleton spends nothing.
Ignoring(investigator) == IF investigator = "loop" THEN BOOLEAN ELSE {FALSE}
-----------------------------------------------------------------------------
(* ingest, by its commits.  Two at once on one incident are not modelled.   *)

StartIngest(p) ==
  /\ Ingesting = {}
  /\ \E log \in Logs : Launch(p, "unlink", Task(log, "none", "plain", FALSE), 1)

\* run: an ingest, whose verdict its investigation is gated on.
StartRun(p) ==
  /\ Ingesting = {}
  /\ \E log \in Logs, i \in Investigators : \E ignore \in Ignoring(i) :
       Launch(p, "unlink", Task(log, i, "plain", ignore), 2)

\* A bug: the scratchpad is written over, its notes still there.
UnlinkNothing(p) ==
  /\ proc[p].pc = "unlink"
  /\ path' = path
  /\ Goto(p, IF path = 0 THEN "create" ELSE "load")
  /\ UNCHANGED <<files, commands>>

Unlink(p) ==
  /\ proc[p].pc = "unlink"
  /\ path' = 0
  /\ Goto(p, "create")
  /\ UNCHANGED <<files, commands>>

Create(p) ==
  /\ proc[p].pc = "create"
  /\ files' = Opened
  /\ path' = OpenedAt
  /\ proc' = [proc EXCEPT ![p].pc = "load", ![p].file = OpenedAt]
  /\ UNCHANGED <<commands>>

\* bulk_insert_events, chunk after chunk: half of them is a state of its own.
Load(p) ==
  LET log == proc[p].log
      half == SubSeq(log.events, 1, Len(log.events) \div 2)
      complete == Of(p).pad.events = half
  IN  /\ proc[p].pc = "load"
      /\ Write(p, [Of(p) EXCEPT !.pad.events = IF complete THEN log.events ELSE half])
      /\ Goto(p, IF complete THEN "index" ELSE "load")
      /\ UNCHANGED <<path, commands>>

\* upsert_templates and the passes over them.
Index(p) ==
  /\ proc[p].pc = "index"
  /\ Write(p, [Of(p) EXCEPT !.pad.templates = proc[p].log.templates])
  /\ Goto(p, "measure")
  /\ UNCHANGED <<path, commands>>

\* Every stage's metrics, in one transaction.
Measure(p) ==
  /\ proc[p].pc = "measure"
  /\ Write(p, [Of(p) EXCEPT !.pad.metrics = proc[p].log.metrics, !.whole = TRUE])
  /\ proc' = [proc EXCEPT ![p].pc = "assess", ![p].log = None]
  /\ UNCHANGED <<path, commands>>

\* check_health last, and its verdicts, which run carries to its preflight.
Assess(p) ==
  LET verdicts == Check(Of(p).pad, proc[p].cfg)
  IN  /\ proc[p].pc = "assess"
      /\ Write(p, Judged(Of(p), verdicts))
      /\ IF proc[p].reporting
         THEN proc' = [proc EXCEPT ![p].pc = "open", ![p].verdicts = verdicts,
                                   ![p].whole = TRUE]
         ELSE Finish(p)
      /\ UNCHANGED <<path, commands>>

\* run opens the path again, whatever it leads to by then.
RunOpens(p) ==
  /\ proc[p].pc = "open"
  /\ files' = Opened
  /\ path' = OpenedAt
  /\ proc' = [proc EXCEPT ![p].pc = "gate", ![p].file = OpenedAt]
  /\ UNCHANGED <<commands>>
-----------------------------------------------------------------------------
\* health_command: CheckHealth, and then RecordHealth.
StartHealth(p) ==
  /\ path # 0
  /\ Launch(p, "check", Task(None, "none", "plain", FALSE), 1)

\* A bug: nothing asks whether the scratchpad was investigated before.
StartInvestigateAnyway(p) ==
  \E i \in Investigators, mode \in Modes : \E ignore \in Ignoring(i) :
    /\ path # 0
    /\ Launch(p, "check", Task(None, i, mode, ignore), 1)

\* investigate_command: notes of an earlier investigation refuse a plain one.
StartInvestigate(p) ==
  \E i \in Investigators, mode \in Modes : \E ignore \in Ignoring(i) :
    /\ path # 0
    /\ mode = "plain" => files[path].notes = <<>>
    /\ Launch(p, "check", Task(None, i, mode, ignore), 1)

\* A bug: the verdicts the ingest recorded are read back.
VerdictsAsRecorded(p) == Of(p).said

\* The verdicts a spend is gated on: what the scratchpad holds now, by the
\* thresholds of now.
Verdicts(p) == Check(Of(p).pad, proc[p].cfg)

\* clear_investigation: notes, queries and the critique; the ingest's stay.
Cleared(p, f) == [f EXCEPT !.notes = <<>>, !.trail = {}, !.cleared = @ \cup {proc[p].cmd}]

\* A bug: --restart clears the scratchpad before the check is passed.
CheckHealthAfterClearing(p) ==
  /\ proc[p].pc = "check"
  /\ proc' = [proc EXCEPT ![p].pc = "gate", ![p].verdicts = Verdicts(p),
                          ![p].whole = Of(p).whole]
  /\ IF proc[p].mode = "restart" THEN Write(p, Cleared(p, Of(p))) ELSE UNCHANGED files
  /\ UNCHANGED <<path, commands>>

\* check_health, before the gate or before health records it.
CheckHealth(p) ==
  /\ proc[p].pc = "check"
  /\ proc' = [proc EXCEPT ![p].pc = "gate", ![p].verdicts = Verdicts(p),
                          ![p].whole = Of(p).whole]
  /\ UNCHANGED <<files, path, commands>>

Failed(p) == Worst(proc[p].verdicts) = "fail"
Overridden(p) == Failed(p) /\ proc[p].ignore /\ proc[p].investigator # "skeleton"
Refused(p) == Failed(p) /\ ~proc[p].ignore /\ proc[p].investigator # "skeleton"

\* health_command records the verdicts it found: of the log as it was then.
RecordHealth(p) ==
  /\ proc[p].pc = "gate" /\ proc[p].investigator = "none"
  /\ Write(p, Judged(Of(p), proc[p].verdicts))
  /\ Finish(p)
  /\ UNCHANGED <<path, commands>>

\* _preflight: the verdicts and whether they are overridden are recorded
\* either way, then a failed check refuses to call a model.
Gate(p) ==
  /\ proc[p].pc = "gate" /\ proc[p].investigator \in Investigators
  /\ Write(p, [Judged(Of(p), proc[p].verdicts) EXCEPT
                  !.overridden = Overridden(p),
                  !.overrode = IF Overridden(p) THEN @ \cup {proc[p].cmd} ELSE @])
  /\ IF Refused(p) THEN Finish(p)
     ELSE Goto(p, IF proc[p].mode = "restart" THEN "clear" ELSE "begin")
  /\ UNCHANGED <<path, commands>>

Clear(p) ==
  /\ proc[p].pc = "clear"
  /\ Write(p, Cleared(p, Of(p)))
  /\ Goto(p, "begin")
  /\ UNCHANGED <<path, commands>>

\* forget_stages: what one attempt recorded of itself is gone.
Forgotten(f) == [f EXCEPT !.by = None, !.spent = FALSE]

\* What a file is told of an attempt: the commands it began among.
Attempt(p) == [run |-> proc[p].cmd, resumed |-> proc[p].mode = "resume",
               rivals |-> proc[p].rivals]

Begin(p) ==
  /\ proc[p].pc = "begin"
  /\ Write(p, [Forgotten(Of(p)) EXCEPT !.begun = @ \cup {Attempt(p)}])
  /\ Goto(p, "search")
  /\ UNCHANGED <<path, commands>>

EventsOf(pad, ids) == {i \in DOMAIN pad.events : pad.events[i].template \in ids}

Note(p, kind) ==
  [run |-> proc[p].cmd,
   step |-> Len(SelectSeq(Of(p).notes, LAMBDA n : n.run = proc[p].cmd)) + 1,
   role |-> kind.role, conclusion |-> kind.conclusion, confidence |-> kind.confidence,
   templates |-> kind.templates, events |-> EventsOf(Of(p).pad, kind.templates)]

\* The loop: a note citing templates it was shown, and their events.
SearchWrites(p) ==
  /\ proc[p].pc = "search" /\ proc[p].investigator = "loop"
  /\ Len(Of(p).notes) < MaxNotes
  /\ \E kind \in NoteKinds :
       /\ kind.templates \subseteq {t.id : t \in Of(p).pad.templates}
       /\ Write(p, [Of(p) EXCEPT !.notes = Append(@, Note(p, kind)),
                                 !.trail = @ \cup {proc[p].cmd}, !.spent = TRUE])
  /\ UNCHANGED <<path, proc, commands>>

\* Its end, or its failure: the tokens it spent are recorded.
SearchEnds(p) ==
  /\ proc[p].pc = "search" /\ proc[p].investigator = "loop"
  /\ Write(p, [Of(p) EXCEPT !.by = "loop", !.spent = TRUE,
                            !.trail = @ \cup {proc[p].cmd}])
  /\ Finish(p)
  /\ UNCHANGED <<path, commands>>

\* run_skeleton_investigation: the most severe template, one note at low
\* confidence, and no model.
Skeleton(p) ==
  LET top == {t \in Of(p).pad.templates :
                \A u \in Of(p).pad.templates : Scores[t.id] >= Scores[u.id]}
      ended == [Of(p) EXCEPT !.by = "skeleton", !.trail = @ \cup {proc[p].cmd}]
      Found(t) == Note(p, [role |-> "finding", conclusion |-> FALSE,
                           confidence |-> "low", templates |-> {t.id}])
  IN  /\ proc[p].pc = "search" /\ proc[p].investigator = "skeleton"
      /\ Len(Of(p).notes) < MaxNotes
      /\ \/ top = {} /\ Write(p, ended)
         \/ \E t \in top : Write(p, [ended EXCEPT !.notes = Append(@, Found(t))])
      /\ Finish(p)
      /\ UNCHANGED <<path, commands>>
-----------------------------------------------------------------------------
\* write_report, of a file as it is.
Rendered(f) ==
  [by |-> files[f].by, spent |-> files[f].spent,
   says |-> Collect(files[f].pad, files[f].pad.metrics, files[f], files[f].notes, Scores)]

\* The process dies: what it committed stays.
Dies(p) ==
  /\ proc[p].pc # "idle"
  /\ Finish(p)
  /\ UNCHANGED <<files, path, commands>>

Step(p) ==
  \/ StartIngest(p) \/ StartRun(p) \/ StartInvestigate(p) \/ StartHealth(p)
  \/ Unlink(p) \/ Create(p) \/ Load(p) \/ Index(p) \/ Measure(p) \/ Assess(p)
  \/ RunOpens(p) \/ CheckHealth(p) \/ RecordHealth(p) \/ Gate(p) \/ Clear(p) \/ Begin(p)
  \/ SearchWrites(p) \/ SearchEnds(p) \/ Skeleton(p)
  \/ Dies(p)

Next == \E p \in Procs : Step(p)

Spec == Init /\ [][Next]_vars
-----------------------------------------------------------------------------
\* A model is called over a log only when no check fails on it by the
\* thresholds the command loaded, or the operator said to ignore that: whatever
\* the ingest recorded, and whatever changed in between.  (run trusts the check
\* of its own ingest, and an unfinished ingest may go on after the check.)
SpendIsGated ==
  \A p \in Active :
    proc[p].pc = "search" /\ proc[p].investigator = "loop"
      /\ proc[p].whole /\ ~proc[p].ignore /\ ~proc[p].reporting
    => Worst(Check(Of(p).pad, proc[p].cfg)) # "fail"

\* An investigation admitted over what an ingest under way or a dead one has
\* left is not admitted in silence: some check warned of it.
PartialIsWarned ==
  \A p \in Active :
    proc[p].pc = "search" /\ ~proc[p].whole => Worst(proc[p].verdicts) # "ok"

\* "Before --restart clears anything, so a refused run leaves the previous one
\* intact": a command its gate refuses has cleared no note and written none.
\* (What it does write, the verdicts and whether they were overridden, is
\* OverrideIsSaid's, in MCLifecycle.)
RefusalLeavesTheRecord ==
  \A p \in Active : proc[p].pc = "gate" /\ Refused(p) =>
    \A f \in DOMAIN files :
      /\ proc[p].cmd \notin files[f].cleared
      /\ proc[p].cmd \notin files[f].trail

\* Notes of two investigations share one scratchpad only when the later one was
\* told to resume, or when the two were under way at once.
SharedOnPurpose ==
  \A f \in DOMAIN files : \A i, j \in DOMAIN files[f].notes :
    files[f].notes[i].run < files[f].notes[j].run =>
      \E a \in files[f].begun :
        /\ a.run = files[f].notes[j].run
        /\ a.resumed \/ files[f].notes[i].run \in a.rivals

\* The status a report leads with is the worst of the verdicts it lists under it,
\* although both are upserted, by commands that checked the log at different
\* times with different thresholds and record late, and although a check of an
\* empty log has one verdict to put over the twelve of another.
StatusIsTheWorst ==
  \A f \in DOMAIN files :
    DOMAIN files[f].said # {} => Rendered(f).says.status = Worst(files[f].said)

\* A report's citations all resolve, to rows of the ingest the notes are about:
\* whichever ingest replaced the scratchpad, and whoever was still writing.
CitationsResolve == \A f \in DOMAIN files : Rendered(f).says.unresolved = {}

\* Whoever has a scratchpad open reads a log that is only added to, in order, and one
\* that is whole stays as it is: an ingest writes a file of its own, even while an
\* investigation is still at work in the one it replaces.
LogsOnlyGrow ==
  [][\A f \in DOMAIN files :
       LET held == files[f].pad.events
           now == files'[f].pad.events
       IN  /\ f \in DOMAIN files'
           /\ DOMAIN held \subseteq DOMAIN now /\ \A i \in DOMAIN held : now[i] = held[i]
           /\ files[f].whole => files'[f].pad = files[f].pad]_vars

\* Two clocks whose slots say how they stand: no shift within reach aligns them as
\* well as d does, or as well with less of it.
Aligned(ref, other, d, cfg) ==
  /\ d \in -Reach(cfg) .. Reach(cfg)
  /\ \A k \in -Reach(cfg) .. Reach(cfg) \ {d} :
       \/ Overlap(ref, other, k) < Overlap(ref, other, d)
       \/ Overlap(ref, other, k) = Overlap(ref, other, d) /\ Distance(d) < Distance(k)

\* What `shifted` says of a log is true of it, and can be told from its lines: each
\* source is ahead of the true time by so many slots, its lines align with those of
\* any other as their clocks say, significantly where the clocks differ, and more
\* lines are on time than are ahead by any one amount.
WellClocked(log, cfg) ==
  LET comparable == Comparable(log, cfg)
      slots == Slots(log, cfg)
      reach == -Reach(cfg) .. Reach(cfg)
      Clocked(ahead, d) == {s \in comparable : ahead[s] = d}
  IN  /\ comparable \subseteq Int /\ Reach(cfg) \in Nat
      /\ Cardinality(comparable) < 2 => log.shifted = {}
      /\ Cardinality(comparable) >= 2 =>
           \E ahead \in [comparable -> reach] :
             /\ \A s, t \in comparable : s # t =>
                  LET d == ahead[s] - ahead[t]
                  IN  /\ Aligned(slots[s], slots[t], d, cfg)
                      /\ d # 0 => Significant(slots[s], slots[t], d, cfg)
             /\ \A d \in reach \ {0} : Clocked(ahead, d) # {} =>
                  Held(log, Clocked(ahead, d)) < Held(log, Clocked(ahead, 0))
             /\ log.shifted = {[source |-> s, shift |-> -ahead[s]] :
                                 s \in comparable \ Clocked(ahead, 0)}

\* The sources a check calls shifted are those that are, by how much they are,
\* even where the busiest of all is the wrong one: the clock most of the log was
\* written by is taken as right (health.py: "not the busiest source's").
ShiftedSourceIsNamed ==
  \A p \in Active : proc[p].pc = "measure" =>
    UNION {found.skews : found \in SkewReports(Of(p).pad, proc[p].cfg)} = proc[p].log.shifted
=============================================================================
