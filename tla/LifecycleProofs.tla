-------------------------- MODULE LifecycleProofs --------------------------
(* What TLAPS proves about Lifecycle for any number of processes, commands,  *)
(* notes, logs and thresholds: who shares a scratchpad with whom, what a     *)
(* refused command leaves, which log a spend is gated on, that citations     *)
(* resolve, that an investigation of a partial log was warned of it, that    *)
(* the status a report leads with is the worst of its verdicts, that a log,  *)
(* once written, stays as it is, and that the sources off the time are the   *)
(* ones the check names.                                                    *)
EXTENDS Lifecycle, SequenceLemmas, FiniteSetTheorems

-----------------------------------------------------------------------------
(* The shape of the state.                                                  *)

\* The steps at which a process has a file open.
Holding == {"load", "index", "measure", "assess", "open", "check", "gate", "clear", "begin",
            "search"}

IsFile(f) ==
  /\ DOMAIN f = DOMAIN NewFile /\ DOMAIN f.pad = DOMAIN Empty
  /\ IsSeq(f.notes)

IsProcess(r, n) == DOMAIN r = DOMAIN Idle /\ r.cmd \in 0 .. n /\ (r = Idle <=> r.pc = "idle")

Shape ==
  /\ IsSeq(files) /\ \A f \in DOMAIN files : IsFile(files[f])
  /\ path \in {0} \cup DOMAIN files
  /\ commands \in Nat
  /\ DOMAIN proc = Procs /\ \A p \in Procs : IsProcess(proc[p], commands)
  /\ \A p \in Procs : proc[p].pc \in Holding => proc[p].file \in DOMAIN files

\* What no step of a process changes of itself: who it is and what it was told.
Standing(r) == <<r.cmd, r.rivals, r.mode, r.ignore, r.investigator, r.cfg, r.reporting>>

Others(p) == \A q \in Procs : q # p => proc'[q] = proc[q]

\* A process goes from one step to another.
Moves(p, from, to) ==
  /\ proc[p].pc = from /\ proc'[p].pc = to
  /\ Standing(proc'[p]) = Standing(proc[p])
  /\ Others(p) /\ commands' = commands

\* It ends.
Stops(p) == proc[p].pc # "idle" /\ proc'[p] = Idle /\ Others(p) /\ commands' = commands

\* A change to the file it has open.
Writes(p, g) ==
  /\ proc[p].file \in DOMAIN files
  /\ DOMAIN files' = DOMAIN files /\ IsSeq(files')
  /\ files'[proc[p].file] = g
  /\ \A f \in DOMAIN files : f # proc[p].file => files'[f] = files[f]

Keeps == files' = files /\ path' = path

\* It starts, under a new number.
Launches(p, pc, task) ==
  /\ proc[p].pc = "idle" /\ Keeps /\ Others(p)
  /\ proc'[p].pc = pc /\ proc'[p].cmd = commands + 1 /\ proc'[p].file = path
  /\ proc'[p].rivals = {proc[q].cmd : q \in Active}
  /\ proc'[p].mode = task.mode /\ proc'[p].log = task.log
  /\ proc'[p].reporting = task.reporting /\ proc'[p].cfg \in Configs
  /\ proc'[p].investigator = task.investigator /\ proc'[p].whole = FALSE
  /\ DOMAIN proc' = Procs /\ DOMAIN proc'[p] = DOMAIN Idle

\* A file is opened by its name, made when the name leads to none.
Opens(p) ==
  /\ IsSeq(files') /\ DOMAIN files \subseteq DOMAIN files'
  /\ \A f \in DOMAIN files : files'[f] = files[f]
  /\ path' \in DOMAIN files' /\ proc'[p].file = path'
  /\ IF path = 0 THEN path' \notin DOMAIN files /\ DOMAIN files' = DOMAIN files \cup {path'}
                      /\ files'[path'] = NewFile
     ELSE path' = path /\ files' = files
-----------------------------------------------------------------------------
(* What each action comes to.                                               *)

LEMMA NewFileFacts ==
  /\ IsFile(NewFile) /\ NewFile.notes = <<>> /\ NewFile.begun = {} /\ NewFile.trail = {}
  /\ NewFile.cleared = {} /\ NewFile.pad = Empty /\ NewFile.whole = FALSE
  BY EmptyIsSeq DEF IsFile, NewFile, Empty

LEMMA IdleFacts ==
  /\ Idle.pc = "idle" /\ Idle.cmd = 0 /\ Idle.whole = FALSE
  BY DEF Idle, Process, Task

\* The new process is told what it was started with, and its number is new.
LEMMA LaunchFacts ==
  ASSUME Shape, NEW p \in Procs, NEW pc, NEW task, NEW parts \in {1, 2},
         pc # "idle", Launch(p, pc, task, parts)
  PROVE  Launches(p, pc, task) /\ commands' = commands + parts
<1>1. PICK cfg \in Configs :
        proc' = [proc EXCEPT ![p] = Process(pc, commands + 1, task, cfg, path,
                                            {proc[q].cmd : q \in Active})]
  BY DEF Launch
<1>2. proc'[p] = Process(pc, commands + 1, task, cfg, path, {proc[q].cmd : q \in Active})
  BY <1>1 DEF Shape
<1>3. /\ Others(p) /\ DOMAIN proc' = Procs
  BY <1>1 DEF Shape, Others
<1>4. proc[p] = Idle /\ Keeps /\ commands' = commands + parts
  BY DEF Launch, Keeps
<1> QED BY <1>2, <1>3, <1>4, IdleFacts DEF Process, Idle, Launches

LEMMA WriteFacts ==
  ASSUME Shape, NEW p \in Procs, proc[p].pc \in Holding, NEW g, Write(p, g)
  PROVE  Writes(p, g)
<1>1. proc[p].file \in DOMAIN files /\ IsSeq(files)
  BY DEF Shape
<1> QED BY <1>1, ReplaceFacts DEF Write, Writes

LEMMA GotoFacts ==
  ASSUME Shape, NEW p \in Procs, NEW to, Goto(p, to), commands' = commands
  PROVE  /\ Moves(p, proc[p].pc, to) /\ DOMAIN proc' = Procs /\ DOMAIN proc'[p] = DOMAIN Idle
         /\ proc'[p].file = proc[p].file /\ proc'[p].whole = proc[p].whole
         /\ proc'[p].verdicts = proc[p].verdicts /\ proc'[p].log = proc[p].log
  BY DEF Shape, Goto, Moves, Others, Standing, IsProcess, Idle, Process, Task

LEMMA FinishFacts ==
  ASSUME Shape, NEW p \in Procs, Finish(p), proc[p].pc # "idle", commands' = commands
  PROVE  Stops(p) /\ DOMAIN proc' = Procs
  BY DEF Shape, Finish, Stops, Others

LEMMA OpenFacts ==
  ASSUME Shape, NEW p \in Procs, NEW to,
         files' = Opened, path' = OpenedAt, commands' = commands,
         proc' = [proc EXCEPT ![p].pc = to, ![p].file = OpenedAt]
  PROVE  /\ Opens(p) /\ Moves(p, proc[p].pc, to)
         /\ DOMAIN proc' = Procs /\ DOMAIN proc'[p] = DOMAIN Idle
         /\ proc'[p].whole = proc[p].whole /\ proc'[p].verdicts = proc[p].verdicts
         /\ proc'[p].log = proc[p].log
<1>1. /\ Moves(p, proc[p].pc, to) /\ DOMAIN proc' = Procs /\ DOMAIN proc'[p] = DOMAIN Idle
      /\ proc'[p].whole = proc[p].whole /\ proc'[p].verdicts = proc[p].verdicts
      /\ proc'[p].log = proc[p].log /\ proc'[p].file = OpenedAt
  BY DEF Shape, Moves, Others, Standing, IsProcess, Idle, Process, Task
<1>2. CASE path = 0
  <2>1. IsSeq(files)
    BY DEF Shape
  <2>2. files' = Append(files, NewFile) /\ path' = Len(files) + 1
    BY <1>2 DEF Opened, OpenedAt
  <2> QED BY <1>1, <1>2, <2>1, <2>2, AppendFacts DEF Opens
<1>3. CASE path # 0
  BY <1>1, <1>3 DEF Opens, Opened, OpenedAt, Shape
<1> QED BY <1>2, <1>3

-----------------------------------------------------------------------------
(* What a recorded check changes of a file: neither its log nor what the     *)
(* investigations left in it.                                               *)

Record(f) == <<f.notes, f.begun, f.cleared, f.trail>>

\* The file as a gate leaves it.
Gated(p) ==
  [Judged(Of(p), proc[p].verdicts) EXCEPT
     !.overridden = Overridden(p),
     !.overrode = IF Overridden(p) THEN @ \cup {proc[p].cmd} ELSE @]

LEMMA JudgedFacts ==
  ASSUME NEW f, IsFile(f), NEW verdicts
  PROVE  /\ IsFile(Judged(f, verdicts)) /\ Record(Judged(f, verdicts)) = Record(f)
         /\ Judged(f, verdicts).pad = f.pad /\ Judged(f, verdicts).whole = f.whole
         /\ Judged(f, verdicts).said = Upserted(f.said, verdicts)
         /\ Judged(f, verdicts).status = Worst(verdicts)
  BY DEF IsFile, NewFile, Record, Judged

LEMMA GatedFacts ==
  ASSUME NEW p \in Procs, IsFile(Of(p))
  PROVE  /\ IsFile(Gated(p)) /\ Record(Gated(p)) = Record(Of(p))
         /\ Gated(p).pad = Of(p).pad /\ Gated(p).whole = Of(p).whole
         /\ Gated(p).said = Upserted(Of(p).said, proc[p].verdicts)
         /\ Gated(p).status = Worst(proc[p].verdicts)
<1> DEFINE f == Judged(Of(p), proc[p].verdicts)
<1>1. /\ IsFile(f) /\ Record(f) = Record(Of(p)) /\ f.pad = Of(p).pad /\ f.whole = Of(p).whole
      /\ f.said = Upserted(Of(p).said, proc[p].verdicts) /\ f.status = Worst(proc[p].verdicts)
  BY JudgedFacts
<1> HIDE DEF f
<1> QED BY <1>1 DEF IsFile, NewFile, Record, Gated, f

-----------------------------------------------------------------------------
(* The shape is kept.                                                       *)

LEMMA ShapeByParts ==
  ASSUME Shape, NEW p \in Procs, DOMAIN proc' = Procs, Others(p),
         IsProcess(proc'[p], commands'), commands' \in Nat, commands' >= commands,
         proc'[p].pc \in Holding => proc'[p].file \in DOMAIN files',
         IsSeq(files'), DOMAIN files \subseteq DOMAIN files',
         \A f \in DOMAIN files' : IsFile(files'[f]),
         path' \in {0} \cup DOMAIN files'
  PROVE  Shape'
<1>1. \A q \in Procs : IsProcess(proc'[q], commands')
  <2> SUFFICES ASSUME NEW q \in Procs PROVE IsProcess(proc'[q], commands')
    OBVIOUS
  <2>1. CASE q = p
    BY <2>1
  <2>2. CASE q # p
    BY <2>2 DEF Shape, Others, IsProcess
  <2> QED BY <2>1, <2>2
<1>2. \A q \in Procs : proc'[q].pc \in Holding => proc'[q].file \in DOMAIN files'
  BY DEF Shape, Others
<1> QED BY <1>1, <1>2 DEF Shape

\* A process that goes on, or ends, with the files as they are.
LEMMA ShapeByKeeping ==
  ASSUME Shape, NEW p \in Procs, DOMAIN proc' = Procs, Others(p), files' = files,
         path' \in {0} \cup DOMAIN files, IsProcess(proc'[p], commands'),
         commands' \in Nat, commands' >= commands,
         proc'[p].pc \in Holding => proc'[p].file \in DOMAIN files
  PROVE  Shape'
  BY ShapeByParts DEF Shape

LEMMA ShapeByWriting ==
  ASSUME Shape, NEW p \in Procs, DOMAIN proc' = Procs, Others(p),
         NEW g, Writes(p, g), IsFile(g), path' = path, commands' = commands,
         IsProcess(proc'[p], commands), proc'[p].pc \in Holding => proc'[p].file = proc[p].file
  PROVE  Shape'
<1>1. \A f \in DOMAIN files' : IsFile(files'[f])
  BY DEF Shape, Writes
<1> QED BY <1>1, ShapeByParts DEF Shape, Writes

\* A step of one process to another step.
LEMMA ProcessMoves ==
  ASSUME Shape, NEW p \in Procs, NEW from, NEW to, Moves(p, from, to), from # "idle",
         to # "idle", DOMAIN proc'[p] = DOMAIN Idle
  PROVE  IsProcess(proc'[p], commands)
  BY IdleFacts DEF Shape, IsProcess, Moves, Standing

LEMMA ProcessStops ==
  ASSUME Shape, NEW p \in Procs, Stops(p) PROVE IsProcess(proc'[p], commands)
  BY IdleFacts DEF Shape, IsProcess, Stops

\* The files a process may write.
LEMMA FileOf ==
  ASSUME Shape, NEW p \in Procs, proc[p].pc \in Holding
  PROVE  Of(p) = files[proc[p].file] /\ IsFile(Of(p))
  BY DEF Shape, Of

LEMMA LaunchShape ==
  ASSUME Shape, NEW p \in Procs, NEW pc, NEW task, NEW parts \in {1, 2},
         pc # "idle", Launch(p, pc, task, parts), pc \in Holding => path # 0
  PROVE  Shape'
<1>1. Launches(p, pc, task) /\ commands' = commands + parts
  BY LaunchFacts
<1>2. commands \in Nat /\ path \in {0} \cup DOMAIN files
  BY DEF Shape
<1>3. commands' \in Nat /\ commands' >= commands /\ proc'[p].cmd \in 0 .. commands'
  BY <1>1, <1>2 DEF Launches
<1>4. IsProcess(proc'[p], commands')
  BY <1>1, <1>3, IdleFacts DEF IsProcess, Launches
<1> QED BY <1>1, <1>2, <1>3, <1>4, ShapeByKeeping DEF Keeps, Launches

LEMMA OpenShape ==
  ASSUME Shape, NEW p \in Procs, NEW to, proc[p].pc # "idle", to # "idle",
         files' = Opened, path' = OpenedAt, commands' = commands,
         proc' = [proc EXCEPT ![p].pc = to, ![p].file = OpenedAt]
  PROVE  Shape'
<1>1. /\ Opens(p) /\ Moves(p, proc[p].pc, to)
      /\ DOMAIN proc' = Procs /\ DOMAIN proc'[p] = DOMAIN Idle
  BY OpenFacts
<1>2. \A f \in DOMAIN files' : IsFile(files'[f])
  BY <1>1, NewFileFacts DEF Opens, Shape
<1> QED BY <1>1, <1>2, ShapeByParts, ProcessMoves DEF Opens, Moves, Shape

LEMMA WriteGotoShape ==
  ASSUME Shape, NEW p \in Procs, proc[p].pc \in Holding, NEW g, IsFile(g), Write(p, g),
         path' = path, commands' = commands, DOMAIN proc' = Procs,
         NEW to, Moves(p, proc[p].pc, to), to # "idle", DOMAIN proc'[p] = DOMAIN Idle,
         proc'[p].file = proc[p].file
  PROVE  Shape'
<1>1. Writes(p, g)
  BY WriteFacts
<1> QED BY <1>1, ShapeByWriting, ProcessMoves DEF Moves, Holding

LEMMA WriteFinishShape ==
  ASSUME Shape, NEW p \in Procs, proc[p].pc \in Holding, NEW g, IsFile(g), Write(p, g),
         path' = path, commands' = commands, Finish(p)
  PROVE  Shape'
<1>1. Writes(p, g) /\ Stops(p) /\ DOMAIN proc' = Procs
  BY WriteFacts, FinishFacts DEF Holding
<1> QED BY <1>1, ShapeByWriting, ProcessStops, IdleFacts DEF Stops, Holding

\* Every action keeps the shape.
LEMMA ShapeStep == ASSUME Shape, [Next]_vars PROVE Shape'
<1>1. ASSUME NEW p \in Procs, StartIngest(p) PROVE Shape'
  <2>1. PICK log \in Logs : Launch(p, "unlink", Task(log, "none", "plain", FALSE), 1)
    BY <1>1 DEF StartIngest
  <2> QED BY <2>1, LaunchShape DEF Holding
<1>2. ASSUME NEW p \in Procs, StartRun(p) PROVE Shape'
  <2>1. PICK log \in Logs, i \in Investigators, ignore \in BOOLEAN :
          Launch(p, "unlink", Task(log, i, "plain", ignore), 2)
    BY <1>2 DEF StartRun, Ignoring
  <2> QED BY <2>1, LaunchShape DEF Holding
<1>3. ASSUME NEW p \in Procs, StartInvestigate(p) PROVE Shape'
  <2>1. PICK i \in Investigators, mode \in Modes, ignore \in BOOLEAN :
          path # 0 /\ Launch(p, "check", Task(None, i, mode, ignore), 1)
    BY <1>3 DEF StartInvestigate, Ignoring
  <2> QED BY <2>1, LaunchShape
<1>4. ASSUME NEW p \in Procs, StartHealth(p) PROVE Shape'
  BY <1>4, LaunchShape DEF StartHealth
<1>5. ASSUME NEW p \in Procs, Unlink(p) PROVE Shape'
  <2>1. /\ proc[p].pc = "unlink" /\ path' = 0 /\ Goto(p, "create")
        /\ files' = files /\ commands' = commands
    BY <1>5 DEF Unlink
  <2>2. IsProcess(proc'[p], commands)
    BY <2>1, GotoFacts, ProcessMoves
  <2> QED BY <2>1, <2>2, GotoFacts, ShapeByKeeping DEF Moves, Holding, Shape
<1>6. ASSUME NEW p \in Procs, Create(p) PROVE Shape'
  BY <1>6, OpenShape DEF Create
<1>7. ASSUME NEW p \in Procs, RunOpens(p) PROVE Shape'
  BY <1>7, OpenShape DEF RunOpens
<1>8. ASSUME NEW p \in Procs, Load(p) PROVE Shape'
  <2> DEFINE log == proc[p].log
             half == SubSeq(log.events, 1, Len(log.events) \div 2)
             complete == Of(p).pad.events = half
             events == IF complete THEN log.events ELSE half
             to == IF complete THEN "index" ELSE "load"
  <2>1. /\ proc[p].pc = "load" /\ Goto(p, to) /\ path' = path /\ commands' = commands
        /\ Write(p, [Of(p) EXCEPT !.pad.events = events])
    BY <1>8 DEF Load
  <2>2. to \in {"load", "index"}
    OBVIOUS
  <2> HIDE DEF events, to
  <2>3. IsFile([Of(p) EXCEPT !.pad.events = events])
    BY <2>1, FileOf DEF IsFile, NewFile, Empty, Holding
  <2> QED BY <2>1, <2>2, <2>3, GotoFacts, WriteGotoShape DEF Holding
<1>9. ASSUME NEW p \in Procs, Index(p) PROVE Shape'
  <2>1. /\ proc[p].pc = "index" /\ Goto(p, "measure") /\ path' = path /\ commands' = commands
        /\ Write(p, [Of(p) EXCEPT !.pad.templates = proc[p].log.templates])
    BY <1>9 DEF Index
  <2>2. IsFile([Of(p) EXCEPT !.pad.templates = proc[p].log.templates])
    BY <2>1, FileOf DEF IsFile, NewFile, Empty, Holding
  <2> QED BY <2>1, <2>2, GotoFacts, WriteGotoShape DEF Holding
<1>10. ASSUME NEW p \in Procs, Measure(p) PROVE Shape'
  <2>1. /\ proc[p].pc = "measure" /\ path' = path /\ commands' = commands
        /\ proc' = [proc EXCEPT ![p].pc = "assess", ![p].log = None]
        /\ Write(p, [Of(p) EXCEPT !.pad.metrics = proc[p].log.metrics, !.whole = TRUE])
    BY <1>10 DEF Measure
  <2>2. IsFile([Of(p) EXCEPT !.pad.metrics = proc[p].log.metrics, !.whole = TRUE])
    BY <2>1, FileOf DEF IsFile, NewFile, Empty, Holding
  <2>3. /\ Moves(p, "measure", "assess") /\ DOMAIN proc' = Procs
        /\ DOMAIN proc'[p] = DOMAIN Idle /\ proc'[p].file = proc[p].file
    BY <2>1 DEF Shape, Moves, Others, Standing, IsProcess, Idle, Process, Task
  <2> QED BY <2>1, <2>2, <2>3, WriteGotoShape DEF Holding
<1>11. ASSUME NEW p \in Procs, Assess(p) PROVE Shape'
  <2> DEFINE g == Judged(Of(p), Verdicts(p))
  <2>1. proc[p].pc = "assess" /\ path' = path /\ commands' = commands /\ Write(p, g)
    BY <1>11 DEF Assess, Verdicts
  <2>2. IsFile(g)
    BY <2>1, FileOf, JudgedFacts DEF Holding
  <2> HIDE DEF g
  <2>3. CASE proc[p].reporting
    <3>1. PICK verdicts : proc' = [proc EXCEPT ![p].pc = "open", ![p].verdicts = verdicts,
                                               ![p].whole = TRUE]
      BY <1>11, <2>3 DEF Assess
    <3>2. /\ Moves(p, "assess", "open") /\ DOMAIN proc' = Procs
          /\ DOMAIN proc'[p] = DOMAIN Idle /\ proc'[p].file = proc[p].file
      BY <2>1, <3>1 DEF Shape, Moves, Others, Standing, IsProcess, Idle, Process, Task
    <3> QED BY <2>1, <2>2, <3>2, WriteGotoShape DEF Holding
  <2>4. CASE ~proc[p].reporting
    BY <1>11, <2>1, <2>2, <2>4, WriteFinishShape DEF Assess, Holding
  <2> QED BY <2>3, <2>4
<1>12. ASSUME NEW p \in Procs, CheckHealth(p) PROVE Shape'
  <2>1. PICK verdicts, whole :
          /\ proc[p].pc = "check" /\ path' = path /\ files' = files /\ commands' = commands
          /\ proc' = [proc EXCEPT ![p].pc = "gate", ![p].verdicts = verdicts,
                                  ![p].whole = whole]
    BY <1>12 DEF CheckHealth
  <2>2. /\ Moves(p, "check", "gate") /\ DOMAIN proc' = Procs
        /\ DOMAIN proc'[p] = DOMAIN Idle /\ proc'[p].file = proc[p].file
    BY <2>1 DEF Shape, Moves, Others, Standing, IsProcess, Idle, Process, Task
  <2> QED BY <2>1, <2>2, ProcessMoves, ShapeByKeeping DEF Moves, Shape, Holding
<1>13. ASSUME NEW p \in Procs, Gate(p) PROVE Shape'
  <2>1. proc[p].pc = "gate" /\ path' = path /\ commands' = commands /\ Write(p, Gated(p))
    BY <1>13 DEF Gate, Gated
  <2>2. IsFile(Gated(p))
    BY <2>1, FileOf, GatedFacts DEF Holding
  <2>3. CASE Finish(p)
    BY <2>1, <2>2, <2>3, WriteFinishShape DEF Holding
  <2>4. CASE \E to \in {"clear", "begin"} : Goto(p, to)
    BY <2>1, <2>2, <2>4, GotoFacts, WriteGotoShape DEF Holding
  <2> QED BY <1>13, <2>3, <2>4 DEF Gate
<1>14. ASSUME NEW p \in Procs, Clear(p) PROVE Shape'
  <2>1. /\ proc[p].pc = "clear" /\ path' = path /\ commands' = commands /\ Goto(p, "begin")
        /\ Write(p, Cleared(p, Of(p)))
    BY <1>14 DEF Clear
  <2>2. IsFile(Cleared(p, Of(p)))
    BY <2>1, FileOf, EmptyIsSeq DEF IsFile, NewFile, Holding, Cleared
  <2> QED BY <2>1, <2>2, GotoFacts, WriteGotoShape DEF Holding
<1>15. ASSUME NEW p \in Procs, Begin(p) PROVE Shape'
  <2> DEFINE g == [Forgotten(Of(p)) EXCEPT !.begun = @ \cup {Attempt(p)}]
  <2>1. /\ proc[p].pc = "begin" /\ path' = path /\ commands' = commands /\ Goto(p, "search")
        /\ Write(p, g)
    BY <1>15 DEF Begin
  <2>2. IsFile(g)
    BY <2>1, FileOf DEF IsFile, NewFile, Holding, Forgotten
  <2> HIDE DEF g
  <2> QED BY <2>1, <2>2, GotoFacts, WriteGotoShape DEF Holding
<1>16. ASSUME NEW p \in Procs, SearchWrites(p) PROVE Shape'
  <2>1. PICK note, trail :
          /\ proc[p].pc = "search" /\ proc' = proc /\ path' = path /\ commands' = commands
          /\ Write(p, [Of(p) EXCEPT !.notes = Append(@, note), !.trail = trail, !.spent = TRUE])
    BY <1>16 DEF SearchWrites
  <2> DEFINE g == [Of(p) EXCEPT !.notes = Append(@, note), !.trail = trail, !.spent = TRUE]
  <2>2. IsFile(Of(p)) /\ IsSeq(Append(Of(p).notes, note))
    BY <2>1, FileOf, AppendFacts DEF IsFile, Holding
  <2>3. IsFile(g)
    BY <2>2 DEF IsFile, NewFile
  <2>4. /\ DOMAIN proc' = Procs /\ Others(p) /\ IsProcess(proc'[p], commands)
        /\ proc'[p].file = proc[p].file
    BY <2>1 DEF Shape, Others
  <2>5. Writes(p, g)
    BY <2>1, WriteFacts DEF Holding
  <2> HIDE DEF g
  <2> QED BY <2>1, <2>3, <2>4, <2>5, ShapeByWriting
<1>17. ASSUME NEW p \in Procs, SearchEnds(p) PROVE Shape'
  <2>1. PICK trail :
          /\ proc[p].pc = "search" /\ Finish(p) /\ path' = path /\ commands' = commands
          /\ Write(p, [Of(p) EXCEPT !.by = "loop", !.spent = TRUE, !.trail = trail])
    BY <1>17 DEF SearchEnds
  <2>2. IsFile([Of(p) EXCEPT !.by = "loop", !.spent = TRUE, !.trail = trail])
    BY <2>1, FileOf DEF IsFile, NewFile, Holding
  <2> QED BY <2>1, <2>2, WriteFinishShape DEF Holding
<1>18. ASSUME NEW p \in Procs, Skeleton(p) PROVE Shape'
  <2> DEFINE ended == [Of(p) EXCEPT !.by = "skeleton", !.trail = @ \cup {proc[p].cmd}]
  <2>1. PICK note :
          /\ proc[p].pc = "search" /\ Finish(p) /\ path' = path /\ commands' = commands
          /\ \/ Write(p, ended)
             \/ Write(p, [ended EXCEPT !.notes = Append(@, note)])
    BY <1>18 DEF Skeleton
  <2>2. IsFile(Of(p)) /\ IsSeq(Append(Of(p).notes, note))
    BY <2>1, FileOf, AppendFacts DEF IsFile, Holding
  <2>3. IsFile(ended) /\ IsFile([ended EXCEPT !.notes = Append(@, note)])
    BY <2>2 DEF IsFile, NewFile
  <2> HIDE DEF ended
  <2> QED BY <2>1, <2>3, WriteFinishShape DEF Holding
<1>19. ASSUME NEW p \in Procs, Dies(p) PROVE Shape'
  <2>1. Stops(p) /\ DOMAIN proc' = Procs /\ files' = files /\ path' = path
    BY <1>19, FinishFacts DEF Dies
  <2> QED BY <2>1, ProcessStops, ShapeByKeeping, IdleFacts DEF Stops, Shape, Holding
<1>20. ASSUME NEW p \in Procs, RecordHealth(p) PROVE Shape'
  <2>1. /\ proc[p].pc = "gate" /\ path' = path /\ commands' = commands /\ Finish(p)
        /\ Write(p, Judged(Of(p), proc[p].verdicts))
    BY <1>20 DEF RecordHealth
  <2> QED BY <2>1, FileOf, JudgedFacts, WriteFinishShape DEF Holding
<1>21. CASE UNCHANGED vars
  BY <1>21 DEF vars, Shape
<1> QED
  <2>1. CASE Next
    <3>1. PICK p \in Procs : Step(p)
      BY <2>1 DEF Next
    <3> QED BY <3>1, <1>1, <1>2, <1>3, <1>4, <1>5, <1>6, <1>7, <1>8, <1>9, <1>10, <1>11,
               <1>12, <1>13, <1>14, <1>15, <1>16, <1>17, <1>18, <1>19, <1>20 DEF Step
  <2> QED BY <1>21, <2>1

LEMMA InitShape == Init => Shape
  BY EmptyIsSeq, IdleFacts DEF Init, Shape, IsProcess, Holding

-----------------------------------------------------------------------------
(* What a step comes to for the record of the investigations: the notes, the *)
(* attempts, and who cleared and queried what.                              *)

\* From its ingest's first commit, or run's, to the check of the notes.
Early == Working \cup {"open", "check", "gate"}

Making == {"create", "load", "index", "measure", "assess", "open"}

RecordsKept ==
  /\ DOMAIN files \subseteq DOMAIN files'
  /\ \A f \in DOMAIN files : Record(files'[f]) = Record(files[f])
  /\ \A f \in DOMAIN files' \ DOMAIN files : files'[f] = NewFile

\* A process that was active goes on as who it was, or ends.
Advances(p) ==
  /\ proc[p].pc # "idle" /\ Others(p) /\ commands' = commands
  /\ \/ proc'[p].pc = "idle"
     \/ proc'[p].pc # "idle" /\ Standing(proc'[p]) = Standing(proc[p])

LaunchStep(p) ==
  /\ \E pc, task : Launches(p, pc, task)
  /\ commands' \in Nat /\ commands' > commands
  /\ proc'[p].pc = "unlink"
     \/ /\ proc'[p].pc = "check" /\ path # 0
        /\ proc'[p].investigator # "none" /\ proc'[p].mode \notin {"resume", "restart"} =>
             files[path].notes = <<>>

\* What each of the quiet steps of a process makes of where it is.
Passes(p) ==
  \/ proc'[p].pc = "idle"
  \/ /\ proc'[p].pc \in Making /\ proc[p].pc \in Working
     /\ path' = 0 \/ path' \notin DOMAIN files \/ (path' = path /\ proc[p].pc \in Making)
  \/ /\ proc[p].pc = "open" /\ proc'[p].pc = "gate"
     /\ proc'[p].file = path' /\ path' \in DOMAIN files'
     /\ path' \notin DOMAIN files \/ path' = path
  \/ /\ proc[p].pc = "check" /\ proc'[p].pc = "gate" /\ proc'[p].file = proc[p].file
  \/ /\ proc[p].pc = "gate" /\ proc'[p].pc = "clear" /\ proc'[p].file = proc[p].file
  \/ /\ proc[p].pc = "gate" /\ proc'[p].pc = "begin" /\ proc'[p].file = proc[p].file
     /\ proc[p].mode # "restart" /\ proc[p].investigator # "none"

QuietStep(p) ==
  /\ Advances(p) /\ RecordsKept /\ Passes(p)
  /\ path' = path \/ path' = 0 \/ path' \notin DOMAIN files

\* A write to the file a process goes on with, which changes the record.
WriteStep(p, from, to, g) ==
  /\ Moves(p, from, to) /\ Writes(p, g) /\ path' = path
  /\ proc'[p].file = proc[p].file

ClearStep(p) == WriteStep(p, "clear", "begin", Cleared(p, Of(p)))

BeginStep(p) ==
  \E g : /\ WriteStep(p, "begin", "search", g)
         /\ Record(g) = <<Of(p).notes, Of(p).begun \cup {Attempt(p)}, Of(p).cleared,
                          Of(p).trail>>

\* A note cites rows of the scratchpad.
Cites(n, pad) ==
  /\ n.events \subseteq DOMAIN pad.events
  /\ n.templates \subseteq {t.id : t \in pad.templates}

\* The search writes a note or ends.
NoteStep(p) ==
  /\ proc[p].pc = "search" /\ Advances(p) /\ path' = path
  /\ proc'[p].pc # "idle" => proc'[p] = proc[p]
  /\ \E g : /\ Writes(p, g)
            /\ g.begun = Of(p).begun /\ g.cleared = Of(p).cleared
            /\ g.trail = Of(p).trail \cup {proc[p].cmd}
            /\ \/ g.notes = Of(p).notes
               \/ \E n : /\ n.run = proc[p].cmd /\ Cites(n, Of(p).pad)
                         /\ g.notes = Append(Of(p).notes, n)

LEMMA MovesAdvances ==
  ASSUME NEW p \in Procs, NEW from, NEW to, Moves(p, from, to), from # "idle", to # "idle"
  PROVE  Advances(p)
  BY DEF Moves, Advances

LEMMA StopsAdvances ==
  ASSUME NEW p \in Procs, Stops(p)
  PROVE  Advances(p) /\ proc'[p].pc = "idle"
  BY IdleFacts DEF Stops, Advances

LEMMA SameFilesKeepRecords == files' = files => RecordsKept
  BY DEF RecordsKept

\* A write that leaves the record of its file leaves every record.
LEMMA WriteKeepsRecords ==
  ASSUME NEW p \in Procs, NEW g, Writes(p, g), Record(g) = Record(Of(p))
  PROVE  RecordsKept /\ DOMAIN files' = DOMAIN files
  BY DEF Writes, RecordsKept, Of

\* A name that is opened leads to the same file, or to a new one.
LEMMA OpenKeepsRecords ==
  ASSUME NEW p \in Procs, Opens(p), path \in {0} \cup DOMAIN files
  PROVE  /\ RecordsKept /\ path' \in DOMAIN files'
         /\ path' = path \/ path' \notin DOMAIN files
  BY DEF Opens, RecordsKept

\* An ingest's write goes on to the next step of the ingest.
LEMMA IngestWriteIsQuiet ==
  ASSUME Shape, NEW p \in Procs, NEW from \in Making \cap Working, NEW to \in Making, NEW g,
         Moves(p, from, to), Writes(p, g), Record(g) = Record(Of(p)), path' = path
  PROVE  QuietStep(p)
<1>1. RecordsKept
  BY WriteKeepsRecords
<1>2. Advances(p)
  BY MovesAdvances DEF Making
<1>3. Passes(p)
  BY DEF Passes, Moves
<1> QED BY <1>1, <1>2, <1>3 DEF QuietStep

\* Every step is one of these.
LEMMA StepKinds ==
  ASSUME Shape, NEW p \in Procs, Step(p)
  PROVE  \/ LaunchStep(p) \/ QuietStep(p) \/ ClearStep(p) \/ BeginStep(p) \/ NoteStep(p)
<1> USE DEF Holding
<1>0. commands \in Nat
  BY DEF Shape
<1>1. CASE StartIngest(p)
  <2>1. PICK log \in Logs : Launch(p, "unlink", Task(log, "none", "plain", FALSE), 1)
    BY <1>1 DEF StartIngest
  <2>2. Launches(p, "unlink", Task(log, "none", "plain", FALSE)) /\ commands' = commands + 1
    BY <2>1, LaunchFacts
  <2>3. proc'[p].pc = "unlink"
    BY <2>2 DEF Launches
  <2>4. commands' \in Nat /\ commands' > commands
    BY <1>0, <2>2
  <2> QED BY <2>2, <2>3, <2>4, Zenon DEF LaunchStep
<1>2. CASE StartRun(p)
  <2>1. PICK log \in Logs, i \in Investigators, ignore \in BOOLEAN :
          Launch(p, "unlink", Task(log, i, "plain", ignore), 2)
    BY <1>2 DEF StartRun, Ignoring
  <2>2. Launches(p, "unlink", Task(log, i, "plain", ignore)) /\ commands' = commands + 2
    BY <2>1, LaunchFacts
  <2>3. proc'[p].pc = "unlink"
    BY <2>2 DEF Launches
  <2>4. commands' \in Nat /\ commands' > commands
    BY <1>0, <2>2
  <2> QED BY <2>2, <2>3, <2>4, Zenon DEF LaunchStep
<1>3. CASE StartInvestigate(p)
  <2>1. PICK i \in Investigators, mode \in Modes, ignore \in BOOLEAN :
          /\ path # 0 /\ Launch(p, "check", Task(None, i, mode, ignore), 1)
          /\ mode = "plain" => files[path].notes = <<>>
    BY <1>3 DEF StartInvestigate, Ignoring
  <2>2. Launches(p, "check", Task(None, i, mode, ignore)) /\ commands' = commands + 1
    BY <2>1, LaunchFacts
  <2>3. /\ proc'[p].pc = "check"
        /\ proc'[p].mode \notin {"resume", "restart"} => files[path].notes = <<>>
    BY <2>1, <2>2 DEF Launches, Task, Modes
  <2> QED BY <1>0, <2>1, <2>2, <2>3 DEF LaunchStep
<1>4. CASE StartHealth(p)
  <2>1. path # 0 /\ Launch(p, "check", Task(None, "none", "plain", FALSE), 1)
    BY <1>4 DEF StartHealth
  <2>2. Launches(p, "check", Task(None, "none", "plain", FALSE)) /\ commands' = commands + 1
    BY <2>1, LaunchFacts
  <2>3. proc'[p].pc = "check" /\ proc'[p].investigator = "none"
    BY <2>2 DEF Launches, Task
  <2>4. commands' \in Nat /\ commands' > commands
    BY <1>0, <2>2
  <2>5. \E pc, task : Launches(p, pc, task)
    BY <2>2, Zenon
  <2> QED BY <2>1, <2>3, <2>4, <2>5 DEF LaunchStep
<1>5. CASE Unlink(p)
  <2>1. /\ proc[p].pc = "unlink" /\ path' = 0 /\ files' = files
        /\ Moves(p, "unlink", "create")
    BY <1>5, GotoFacts DEF Unlink
  <2>2. Advances(p) /\ RecordsKept
    BY <2>1, MovesAdvances, SameFilesKeepRecords
  <2>3. Passes(p)
    BY <2>1 DEF Passes, Moves, Making, Working
  <2> QED BY <2>1, <2>2, <2>3 DEF QuietStep
<1>6. CASE Create(p)
  <2>0. /\ files' = Opened /\ path' = OpenedAt /\ commands' = commands
        /\ proc' = [proc EXCEPT ![p].pc = "load", ![p].file = OpenedAt]
        /\ proc[p].pc = "create"
    BY <1>6 DEF Create
  <2>a. Opens(p) /\ Moves(p, proc[p].pc, "load")
    BY <2>0, OpenFacts
  <2>1. Opens(p) /\ Moves(p, "create", "load")
    BY <2>0, <2>a
  <2>2. /\ RecordsKept /\ path' \in DOMAIN files'
        /\ path' = path \/ path' \notin DOMAIN files
    BY <2>1, OpenKeepsRecords DEF Shape
  <2>3. Advances(p)
    BY <2>1, MovesAdvances
  <2>4. Passes(p)
    BY <2>1, <2>2 DEF Passes, Moves, Making, Working
  <2> QED BY <2>2, <2>3, <2>4 DEF QuietStep
<1>7. CASE RunOpens(p)
  <2>0. /\ files' = Opened /\ path' = OpenedAt /\ commands' = commands
        /\ proc' = [proc EXCEPT ![p].pc = "gate", ![p].file = OpenedAt]
        /\ proc[p].pc = "open"
    BY <1>7 DEF RunOpens
  <2>a. Opens(p) /\ Moves(p, proc[p].pc, "gate")
    BY <2>0, OpenFacts
  <2>1. Opens(p) /\ Moves(p, "open", "gate") /\ proc'[p].file = path'
    BY <2>0, <2>a DEF Opens
  <2>2. /\ RecordsKept /\ path' \in DOMAIN files'
        /\ path' = path \/ path' \notin DOMAIN files
    BY <2>1, OpenKeepsRecords DEF Shape
  <2>3. Advances(p)
    BY <2>1, MovesAdvances
  <2>4. Passes(p)
    BY <2>1, <2>2 DEF Passes, Moves
  <2> QED BY <2>2, <2>3, <2>4 DEF QuietStep
<1>8. CASE Load(p)
  <2> DEFINE log == proc[p].log
             half == SubSeq(log.events, 1, Len(log.events) \div 2)
             complete == Of(p).pad.events = half
             events == IF complete THEN log.events ELSE half
             to == IF complete THEN "index" ELSE "load"
             g == [Of(p) EXCEPT !.pad.events = events]
  <2>1. proc[p].pc = "load" /\ Goto(p, to) /\ path' = path /\ commands' = commands /\ Write(p, g)
    BY <1>8 DEF Load
  <2>2. to \in {"load", "index"}
    OBVIOUS
  <2> HIDE DEF events, to
  <2>3. Record(g) = Record(Of(p))
    BY <2>1, FileOf DEF IsFile, NewFile, Record
  <2>4. Moves(p, "load", to) /\ Writes(p, g)
    BY <2>1, GotoFacts, WriteFacts
  <2> HIDE DEF g
  <2> QED BY <2>1, <2>2, <2>3, <2>4, IngestWriteIsQuiet DEF Making, Working
<1>9. CASE Index(p)
  <2> DEFINE g == [Of(p) EXCEPT !.pad.templates = proc[p].log.templates]
  <2>1. /\ proc[p].pc = "index" /\ Goto(p, "measure") /\ path' = path /\ commands' = commands
        /\ Write(p, g)
    BY <1>9 DEF Index
  <2>2. Record(g) = Record(Of(p))
    BY <2>1, FileOf DEF IsFile, NewFile, Record
  <2>3. Moves(p, "index", "measure") /\ Writes(p, g)
    BY <2>1, GotoFacts, WriteFacts
  <2> HIDE DEF g
  <2> QED BY <2>1, <2>2, <2>3, IngestWriteIsQuiet DEF Making, Working
<1>10. CASE Measure(p)
  <2> DEFINE g == [Of(p) EXCEPT !.pad.metrics = proc[p].log.metrics, !.whole = TRUE]
  <2>1. /\ proc[p].pc = "measure" /\ path' = path /\ commands' = commands /\ Write(p, g)
        /\ proc' = [proc EXCEPT ![p].pc = "assess", ![p].log = None]
    BY <1>10 DEF Measure
  <2>2. Record(g) = Record(Of(p))
    BY <2>1, FileOf DEF IsFile, NewFile, Record
  <2>3. Moves(p, "measure", "assess")
    BY <2>1 DEF Shape, Moves, Others, Standing, IsProcess, Idle, Process, Task
  <2>4. Writes(p, g)
    BY <2>1, WriteFacts
  <2> HIDE DEF g
  <2> QED BY <2>1, <2>2, <2>3, <2>4, IngestWriteIsQuiet DEF Making, Working
<1>11. CASE Assess(p)
  <2> DEFINE g == Judged(Of(p), Verdicts(p))
  <2>1. proc[p].pc = "assess" /\ path' = path /\ commands' = commands /\ Write(p, g)
    BY <1>11 DEF Assess, Verdicts
  <2>2. Record(g) = Record(Of(p))
    BY <2>1, FileOf, JudgedFacts
  <2>3. Writes(p, g)
    BY <2>1, WriteFacts
  <2> HIDE DEF g
  <2>4. CASE proc[p].reporting
    <3>1. PICK verdicts : proc' = [proc EXCEPT ![p].pc = "open", ![p].verdicts = verdicts,
                                               ![p].whole = TRUE]
      BY <1>11, <2>4 DEF Assess
    <3>2. Moves(p, "assess", "open")
      BY <2>1, <3>1 DEF Shape, Moves, Others, Standing, IsProcess, Idle, Process, Task
    <3> QED BY <2>1, <2>2, <2>3, <3>2, IngestWriteIsQuiet DEF Making, Working
  <2>5. CASE ~proc[p].reporting
    <3>1. Finish(p)
      BY <1>11, <2>5 DEF Assess
    <3>2. Advances(p) /\ proc'[p].pc = "idle"
      BY <2>1, <3>1, FinishFacts, StopsAdvances
    <3> QED BY <2>1, <2>2, <2>3, <3>2, WriteKeepsRecords DEF QuietStep, Passes
  <2> QED BY <2>4, <2>5
<1>12. CASE CheckHealth(p)
  <2>1. PICK verdicts, whole :
          /\ proc[p].pc = "check" /\ path' = path /\ files' = files /\ commands' = commands
          /\ proc' = [proc EXCEPT ![p].pc = "gate", ![p].verdicts = verdicts,
                                  ![p].whole = whole]
    BY <1>12 DEF CheckHealth
  <2>2. Moves(p, "check", "gate") /\ proc'[p].file = proc[p].file
    BY <2>1 DEF Shape, Moves, Others, Standing, IsProcess, Idle, Process, Task
  <2>3. Advances(p) /\ RecordsKept
    BY <2>1, <2>2, MovesAdvances, SameFilesKeepRecords
  <2>4. Passes(p)
    BY <2>2 DEF Passes, Moves
  <2> QED BY <2>1, <2>3, <2>4 DEF QuietStep
<1>13. CASE Gate(p)
  <2> DEFINE g == Gated(p)
  <2>1. /\ proc[p].pc = "gate" /\ path' = path /\ commands' = commands /\ Write(p, g)
        /\ proc[p].investigator # "none"
    BY <1>13 DEF Gate, Gated, Investigators
  <2>2. Record(g) = Record(Of(p))
    BY <2>1, FileOf, GatedFacts
  <2>3. Writes(p, g)
    BY <2>1, WriteFacts
  <2> HIDE DEF g
  <2>4. CASE Finish(p)
    <3>1. Advances(p) /\ proc'[p].pc = "idle"
      BY <2>1, <2>4, FinishFacts, StopsAdvances
    <3> QED BY <2>1, <2>2, <2>3, <3>1, WriteKeepsRecords DEF QuietStep, Passes
  <2>5. CASE Goto(p, IF proc[p].mode = "restart" THEN "clear" ELSE "begin")
    <3> DEFINE to == IF proc[p].mode = "restart" THEN "clear" ELSE "begin"
    <3>1. Moves(p, "gate", to) /\ proc'[p].file = proc[p].file
      BY <2>1, <2>5, GotoFacts
    <3>2. Advances(p)
      BY <3>1, MovesAdvances
    <3>3. Passes(p)
      BY <2>1, <3>1 DEF Passes, Moves
    <3> QED BY <2>1, <2>2, <2>3, <3>2, <3>3, WriteKeepsRecords DEF QuietStep
  <2> QED BY <1>13, <2>4, <2>5 DEF Gate
<1>14. CASE Clear(p)
  <2>1. /\ proc[p].pc = "clear" /\ path' = path /\ commands' = commands /\ Goto(p, "begin")
        /\ Write(p, Cleared(p, Of(p)))
    BY <1>14 DEF Clear
  <2> QED BY <2>1, GotoFacts, WriteFacts DEF ClearStep, WriteStep
<1>15. CASE Begin(p)
  <2> DEFINE g == [Forgotten(Of(p)) EXCEPT !.begun = @ \cup {Attempt(p)}]
  <2>1. /\ proc[p].pc = "begin" /\ path' = path /\ commands' = commands /\ Goto(p, "search")
        /\ Write(p, g)
    BY <1>15 DEF Begin
  <2>2. Record(g) = <<Of(p).notes, Of(p).begun \cup {Attempt(p)}, Of(p).cleared, Of(p).trail>>
    BY <2>1, FileOf DEF IsFile, NewFile, Record, Forgotten
  <2> HIDE DEF g
  <2>3. WriteStep(p, "begin", "search", g)
    BY <2>1, GotoFacts, WriteFacts DEF WriteStep
  <2> QED BY <2>2, <2>3 DEF BeginStep
<1>16. CASE SearchWrites(p)
  <2>1. PICK kind \in NoteKinds :
          /\ proc[p].pc = "search" /\ proc' = proc /\ path' = path /\ commands' = commands
          /\ kind.templates \subseteq {t.id : t \in Of(p).pad.templates}
          /\ Write(p, [Of(p) EXCEPT !.notes = Append(@, Note(p, kind)),
                                    !.trail = @ \cup {proc[p].cmd}, !.spent = TRUE])
    BY <1>16 DEF SearchWrites
  <2> DEFINE g == [Of(p) EXCEPT !.notes = Append(@, Note(p, kind)),
                                !.trail = @ \cup {proc[p].cmd}, !.spent = TRUE]
  <2>2. /\ g.begun = Of(p).begun /\ g.cleared = Of(p).cleared
        /\ g.trail = Of(p).trail \cup {proc[p].cmd}
        /\ g.notes = Append(Of(p).notes, Note(p, kind))
    BY <2>1, FileOf DEF IsFile, NewFile
  <2>3. Writes(p, g)
    BY <2>1, WriteFacts
  <2>4. Note(p, kind).run = proc[p].cmd /\ Cites(Note(p, kind), Of(p).pad)
    BY <2>1 DEF Note, Cites, EventsOf
  <2>5. Advances(p)
    BY <2>1 DEF Advances, Others
  <2> HIDE DEF g
  <2> QED BY <2>1, <2>2, <2>3, <2>4, <2>5 DEF NoteStep
<1>17. CASE SearchEnds(p)
  <2> DEFINE g == [Of(p) EXCEPT !.by = "loop", !.spent = TRUE, !.trail = @ \cup {proc[p].cmd}]
  <2>1. /\ proc[p].pc = "search" /\ Finish(p) /\ path' = path /\ commands' = commands
        /\ Write(p, g)
    BY <1>17 DEF SearchEnds
  <2>2. /\ g.begun = Of(p).begun /\ g.cleared = Of(p).cleared /\ g.notes = Of(p).notes
        /\ g.trail = Of(p).trail \cup {proc[p].cmd}
    BY <2>1, FileOf DEF IsFile, NewFile
  <2>3. Writes(p, g)
    BY <2>1, WriteFacts
  <2>4. Advances(p) /\ proc'[p].pc = "idle"
    BY <2>1, FinishFacts, StopsAdvances
  <2> HIDE DEF g
  <2> QED BY <2>1, <2>2, <2>3, <2>4 DEF NoteStep
<1>18. CASE Skeleton(p)
  <2> DEFINE ended == [Of(p) EXCEPT !.by = "skeleton", !.trail = @ \cup {proc[p].cmd}]
             Found(t) == Note(p, [role |-> "finding", conclusion |-> FALSE,
                                  confidence |-> "low", templates |-> {t.id}])
  <2>1. /\ proc[p].pc = "search" /\ Finish(p) /\ path' = path /\ commands' = commands
        /\ \/ Write(p, ended)
           \/ \E t \in Of(p).pad.templates :
                Write(p, [ended EXCEPT !.notes = Append(@, Found(t))])
    BY <1>18 DEF Skeleton
  <2>2. Advances(p) /\ proc'[p].pc = "idle"
    BY <2>1, FinishFacts, StopsAdvances
  <2>3. /\ ended.begun = Of(p).begun /\ ended.cleared = Of(p).cleared
        /\ ended.notes = Of(p).notes /\ ended.trail = Of(p).trail \cup {proc[p].cmd}
        /\ DOMAIN ended = DOMAIN NewFile
    BY <2>1, FileOf DEF IsFile, NewFile
  <2> HIDE DEF ended
  <2>4. CASE Write(p, ended)
    BY <2>1, <2>2, <2>3, <2>4, WriteFacts DEF NoteStep
  <2>5. CASE \E t \in Of(p).pad.templates :
               Write(p, [ended EXCEPT !.notes = Append(@, Found(t))])
    <3>1. PICK t \in Of(p).pad.templates :
            Write(p, [ended EXCEPT !.notes = Append(@, Found(t))])
      BY <2>5
    <3> DEFINE g == [ended EXCEPT !.notes = Append(@, Found(t))]
    <3>2. /\ g.begun = Of(p).begun /\ g.cleared = Of(p).cleared
          /\ g.trail = Of(p).trail \cup {proc[p].cmd}
          /\ g.notes = Append(Of(p).notes, Found(t))
      BY <2>3 DEF NewFile
    <3>3. Writes(p, g)
      BY <2>1, <3>1, WriteFacts
    <3>4. Found(t).run = proc[p].cmd /\ Cites(Found(t), Of(p).pad)
      BY <3>1 DEF Note, Cites, EventsOf
    <3> HIDE DEF g, Found
    <3> QED BY <2>1, <2>2, <3>2, <3>3, <3>4 DEF NoteStep
  <2> QED BY <2>1, <2>4, <2>5
<1>19. CASE Dies(p)
  <2>1. files' = files /\ path' = path /\ Advances(p) /\ proc'[p].pc = "idle"
    BY <1>19, FinishFacts, StopsAdvances DEF Dies
  <2> QED BY <2>1, SameFilesKeepRecords DEF QuietStep, Passes
<1>20. CASE RecordHealth(p)
  <2> DEFINE g == Judged(Of(p), proc[p].verdicts)
  <2>1. /\ proc[p].pc = "gate" /\ path' = path /\ commands' = commands /\ Finish(p)
        /\ Write(p, g)
    BY <1>20 DEF RecordHealth
  <2>2. Record(g) = Record(Of(p))
    BY <2>1, FileOf, JudgedFacts
  <2>3. Writes(p, g)
    BY <2>1, WriteFacts
  <2> HIDE DEF g
  <2>4. Advances(p) /\ proc'[p].pc = "idle"
    BY <2>1, FinishFacts, StopsAdvances
  <2> QED BY <2>1, <2>2, <2>3, <2>4, WriteKeepsRecords DEF QuietStep, Passes
<1> QED BY <1>1, <1>2, <1>3, <1>4, <1>5, <1>6, <1>7, <1>8, <1>9, <1>10, <1>11, <1>12, <1>13,
           <1>14, <1>15, <1>16, <1>17, <1>18, <1>19, <1>20 DEF Step

-----------------------------------------------------------------------------
(* Who was there: the number of a command is its own, the later of two       *)
(* active commands knows the earlier, and every trace is of a past command.  *)

Numbers ==
  /\ \A p \in Active : proc[p].cmd >= 1
  /\ \A p, q \in Active : p # q => proc[p].cmd # proc[q].cmd
  /\ \A p, q \in Active : proc[q].cmd < proc[p].cmd => proc[q].cmd \in proc[p].rivals

Traces(f, n) ==
  /\ \A i \in DOMAIN f.notes : f.notes[i].run \in 1 .. n
  /\ f.trail \subseteq 1 .. n /\ f.cleared \subseteq 1 .. n
  /\ \A a \in f.begun : a.run \in 1 .. n

Traced == \A f \in DOMAIN files : Traces(files[f], commands)

\* The active processes after a step of p.
LEMMA StandingFacts ==
  ASSUME NEW p \in Procs, Advances(p)
  PROVE  /\ p \in Active /\ commands' = commands
         /\ \A q \in Procs : q \in Active' => q \in Active
         /\ \A q \in Active' : proc'[q].cmd = proc[q].cmd /\ proc'[q].rivals = proc[q].rivals
<1>1. \A q \in Procs : q # p => proc'[q] = proc[q]
  BY DEF Advances, Others
<1>2. proc'[p].pc # "idle" =>
        proc'[p].cmd = proc[p].cmd /\ proc'[p].rivals = proc[p].rivals
  BY DEF Advances, Standing
<1>3. p \in Active /\ commands' = commands
  BY DEF Advances, Active
<1> QED BY <1>1, <1>2, <1>3 DEF Active

LEMMA WriteStepAdvances ==
  ASSUME NEW p \in Procs
  PROVE  /\ QuietStep(p) \/ ClearStep(p) \/ BeginStep(p) \/ NoteStep(p) => Advances(p)
<1>1. ASSUME NEW g, NEW from, NEW to, WriteStep(p, from, to, g), from # "idle", to # "idle"
      PROVE  Advances(p)
  BY <1>1, MovesAdvances DEF WriteStep
<1>2. ClearStep(p) => Advances(p)
  BY <1>1 DEF ClearStep
<1>3. BeginStep(p) => Advances(p)
  BY <1>1 DEF BeginStep
<1>4. QuietStep(p) \/ NoteStep(p) => Advances(p)
  BY DEF QuietStep, NoteStep
<1> QED BY <1>2, <1>3, <1>4

LEMMA NumbersStep == ASSUME Shape, Numbers, [Next]_vars PROVE Numbers'
<1>0. /\ commands \in Nat
      /\ \A p \in Procs : proc[p].cmd \in 0 .. commands
  BY DEF Shape, IsProcess
<1>1. ASSUME NEW p \in Procs, Advances(p) PROVE Numbers'
  BY <1>1, StandingFacts DEF Numbers, Active
<1>2. ASSUME NEW p \in Procs, LaunchStep(p) PROVE Numbers'
  <2>1. /\ Others(p) /\ proc[p].pc = "idle" /\ proc'[p].cmd = commands + 1
        /\ proc'[p].rivals = {proc[q].cmd : q \in Active}
    BY <1>2 DEF LaunchStep, Launches
  <2>2. \A q \in Active' : q = p \/ (q \in Active /\ proc'[q] = proc[q])
    BY <2>1 DEF Others, Active
  <2>3. \A q \in Active : proc[q].cmd < proc'[p].cmd /\ proc[q].cmd \in proc'[p].rivals
    BY <1>0, <2>1 DEF Active
  <2>4. \A q \in Active : q # p
    BY <2>1 DEF Active
  <2>5. \A q \in Active : proc[q].cmd \in Nat
    BY <1>0 DEF Active
  <2>6. \A q \in Active' : proc'[q].cmd >= 1
    BY <1>0, <2>1, <2>2 DEF Numbers
  <2>7. \A q, r \in Active' : q # r => proc'[q].cmd # proc'[r].cmd
    BY <1>0, <2>1, <2>2, <2>3, <2>5 DEF Numbers
  <2>8. \A q, r \in Active' : proc'[r].cmd < proc'[q].cmd => proc'[r].cmd \in proc'[q].rivals
    BY <1>0, <2>1, <2>2, <2>3, <2>5 DEF Numbers
  <2> QED BY <2>6, <2>7, <2>8 DEF Numbers
<1>3. CASE UNCHANGED vars
  BY <1>3 DEF vars, Numbers, Active
<1> QED BY <1>1, <1>2, <1>3, StepKinds, WriteStepAdvances DEF Next

LEMMA TracesGrow ==
  ASSUME NEW f, NEW n \in Nat, NEW m \in Nat, n <= m, Traces(f, n) PROVE Traces(f, m)
<1>1. 1 .. n \subseteq 1 .. m
  OBVIOUS
<1> QED BY <1>1 DEF Traces

\* The record of one file stands for what Traces reads of it.
LEMMA TracesByRecord ==
  ASSUME NEW f, NEW g, NEW n, Record(f) = Record(g), Traces(f, n) PROVE Traces(g, n)
  BY DEF Record, Traces

LEMMA TracesOfNewFile == ASSUME NEW n PROVE Traces(NewFile, n)
  BY NewFileFacts DEF Traces

\* A file whose record a process added its own number to.
LEMMA TracesByWriting ==
  ASSUME Shape, Traced, NEW p \in Procs, NEW g, Writes(p, g), commands' = commands,
         Traces(g, commands)
  PROVE  Traced'
  BY DEF Traced, Writes

LEMMA TracedStep == ASSUME Shape, Numbers, Traced, [Next]_vars PROVE Traced'
<1>0. commands \in Nat
  BY DEF Shape
<1>1. ASSUME RecordsKept, commands' \in Nat, commands' >= commands PROVE Traced'
  <2> SUFFICES ASSUME NEW f \in DOMAIN files' PROVE Traces(files'[f], commands')
    BY DEF Traced
  <2>1. CASE f \in DOMAIN files
    <3>1. Traces(files[f], commands) /\ Record(files[f]) = Record(files'[f])
      BY <1>1, <2>1 DEF Traced, RecordsKept
    <3> QED BY <1>0, <1>1, <3>1, TracesByRecord, TracesGrow
  <2>2. CASE f \notin DOMAIN files
    BY <1>1, <2>2, TracesOfNewFile DEF RecordsKept
  <2> QED BY <2>1, <2>2
<1>2. ASSUME NEW p \in Procs, LaunchStep(p) PROVE Traced'
  <2>1. files' = files /\ commands' \in Nat /\ commands' >= commands
    BY <1>0, <1>2 DEF LaunchStep, Launches, Keeps
  <2> QED BY <1>1, <2>1, SameFilesKeepRecords
<1>3. ASSUME NEW p \in Procs, Advances(p)
      PROVE  /\ proc[p].cmd \in 1 .. commands /\ commands' = commands
             /\ proc[p].file \in DOMAIN files => Traces(Of(p), commands)
  <2>1. p \in Active /\ commands' = commands
    BY <1>3, StandingFacts
  <2> QED BY <2>1 DEF Shape, IsProcess, Numbers, Traced, Of
<1>4. ASSUME NEW p \in Procs, QuietStep(p) PROVE Traced'
  BY <1>0, <1>1, <1>3, <1>4 DEF QuietStep
<1>5. ASSUME NEW p \in Procs, ClearStep(p) PROVE Traced'
  <2>1. Writes(p, Cleared(p, Of(p))) /\ proc[p].pc = "clear"
    BY <1>5 DEF ClearStep, WriteStep, Moves
  <2>2. proc[p].cmd \in 1 .. commands /\ Traces(Of(p), commands) /\ commands' = commands
    BY <1>3, <1>5, <2>1, WriteStepAdvances DEF Writes
  <2>3. IsFile(Of(p))
    BY <2>1, FileOf DEF Holding
  <2>4. Traces(Cleared(p, Of(p)), commands)
    BY <2>2, <2>3 DEF Traces, Cleared, IsFile, NewFile
  <2> QED BY <2>1, <2>2, <2>4, TracesByWriting
<1>6. ASSUME NEW p \in Procs, BeginStep(p) PROVE Traced'
  <2>1. PICK g : /\ Writes(p, g)
                 /\ g.notes = Of(p).notes /\ g.begun = Of(p).begun \cup {Attempt(p)}
                 /\ g.cleared = Of(p).cleared /\ g.trail = Of(p).trail
    BY <1>6 DEF BeginStep, WriteStep, Record
  <2>2. proc[p].cmd \in 1 .. commands /\ Traces(Of(p), commands) /\ commands' = commands
    BY <1>3, <1>6, <2>1, WriteStepAdvances DEF Writes
  <2>3. Traces(g, commands)
    BY <2>1, <2>2 DEF Traces, Attempt
  <2> QED BY <2>1, <2>2, <2>3, TracesByWriting
<1>7. ASSUME NEW p \in Procs, NoteStep(p) PROVE Traced'
  <2>1. PICK g : /\ Writes(p, g)
                 /\ g.begun = Of(p).begun /\ g.cleared = Of(p).cleared
                 /\ g.trail = Of(p).trail \cup {proc[p].cmd}
                 /\ \/ g.notes = Of(p).notes
                    \/ \E n : n.run = proc[p].cmd /\ g.notes = Append(Of(p).notes, n)
    BY <1>7 DEF NoteStep
  <2>2. proc[p].cmd \in 1 .. commands /\ Traces(Of(p), commands) /\ commands' = commands
    BY <1>3, <1>7, <2>1, WriteStepAdvances DEF Writes
  <2>3. \A i \in DOMAIN g.notes : g.notes[i].run \in 1 .. commands
    <3>1. CASE g.notes = Of(p).notes
      BY <2>2, <3>1 DEF Traces
    <3>2. CASE \E n : n.run = proc[p].cmd /\ g.notes = Append(Of(p).notes, n)
      <4>1. PICK n : n.run = proc[p].cmd /\ g.notes = Append(Of(p).notes, n)
        BY <3>2
      <4>2. IsSeq(Of(p).notes)
        BY <1>7, FileOf DEF NoteStep, Holding, IsFile
      <4>3. \A i \in DOMAIN g.notes : i \in DOMAIN Of(p).notes \/ g.notes[i] = n
        BY <4>1, <4>2, AppendFacts
      <4>4. \A i \in DOMAIN Of(p).notes : g.notes[i] = Of(p).notes[i]
        BY <4>1, <4>2, AppendFacts
      <4> QED BY <2>2, <4>1, <4>3, <4>4 DEF Traces
    <3> QED BY <2>1, <3>1, <3>2
  <2>4. Traces(g, commands)
    BY <2>1, <2>2, <2>3 DEF Traces
  <2> QED BY <2>1, <2>2, <2>4, TracesByWriting
<1>8. CASE UNCHANGED vars
  BY <1>8 DEF vars, Traced
<1> QED BY <1>2, <1>4, <1>5, <1>6, <1>7, <1>8, StepKinds DEF Next

-----------------------------------------------------------------------------
(* A command that has not passed its gate has left no trace.                *)

Traceless(n, f) == n \notin f.cleared /\ n \notin f.trail

Clean ==
  \A p \in Procs : proc[p].pc \in Early =>
    \A f \in DOMAIN files : Traceless(proc[p].cmd, files[f])

EarlyIsActive == "idle" \notin Early

LEMMA EarlyFacts == EarlyIsActive
  BY DEF EarlyIsActive, Early, Working

\* A process past its gate writes its own number only.
LEMMA CleanByWriting ==
  ASSUME Shape, Numbers, Clean, NEW p \in Procs, Advances(p), proc'[p].pc \notin Early,
         NEW g, Writes(p, g), g.cleared \subseteq Of(p).cleared \cup {proc[p].cmd},
         g.trail \subseteq Of(p).trail \cup {proc[p].cmd}
  PROVE  Clean'
<1> SUFFICES ASSUME NEW q \in Procs, proc'[q].pc \in Early, NEW f \in DOMAIN files'
             PROVE  Traceless(proc'[q].cmd, files'[f])
  BY DEF Clean
<1>1. q # p /\ proc'[q] = proc[q] /\ q \in Active /\ p \in Active
  BY EarlyFacts DEF Advances, Others, Active, EarlyIsActive
<1>2. proc[q].cmd # proc[p].cmd
  BY <1>1 DEF Numbers
<1>3. f \in DOMAIN files /\ Traceless(proc[q].cmd, files[f])
  BY <1>1 DEF Clean, Writes
<1> QED BY <1>1, <1>2, <1>3 DEF Writes, Of, Traceless

LEMMA CleanStep == ASSUME Shape, Numbers, Traced, Clean, [Next]_vars PROVE Clean'
<1>1. ASSUME NEW p \in Procs, LaunchStep(p) PROVE Clean'
  <2>1. /\ Others(p) /\ proc'[p].cmd = commands + 1 /\ files' = files
    BY <1>1 DEF LaunchStep, Launches, Keeps
  <2>2. \A f \in DOMAIN files : Traceless(proc'[p].cmd, files[f])
    BY <2>1 DEF Traceless, Traced, Traces, Shape
  <2> QED BY <2>1, <2>2 DEF Clean, Others
<1>2. ASSUME RecordsKept,
             \A q \in Procs : proc'[q].pc \in Early =>
               proc[q].pc \in Early /\ proc'[q].cmd = proc[q].cmd
      PROVE  Clean'
  <2> SUFFICES ASSUME NEW q \in Procs, proc'[q].pc \in Early, NEW f \in DOMAIN files'
               PROVE  Traceless(proc[q].cmd, files'[f])
    BY <1>2 DEF Clean
  <2>1. CASE f \in DOMAIN files
    BY <1>2, <2>1 DEF Clean, RecordsKept, Record, Traceless
  <2>2. CASE f \notin DOMAIN files
    BY <1>2, <2>2, NewFileFacts DEF RecordsKept, Traceless
  <2> QED BY <2>1, <2>2
<1>3. ASSUME NEW p \in Procs, QuietStep(p) PROVE Clean'
  <2>1. RecordsKept /\ Others(p)
    BY <1>3 DEF QuietStep, Advances
  <2>2. proc'[p].pc \in Early => proc[p].pc \in Early
    BY <1>3 DEF QuietStep, Passes, Early, Working, Making
  <2>3. proc'[p].pc \in Early => proc'[p].cmd = proc[p].cmd
    BY <1>3, EarlyFacts DEF QuietStep, Advances, Standing, EarlyIsActive
  <2> QED BY <1>2, <2>1, <2>2, <2>3 DEF Others
<1>4. ASSUME NEW p \in Procs, ClearStep(p) PROVE Clean'
  <2> DEFINE g == Cleared(p, Of(p))
  <2>1. Writes(p, g) /\ proc[p].pc = "clear" /\ proc'[p].pc = "begin"
    BY <1>4 DEF ClearStep, WriteStep, Moves
  <2>2. g.cleared = Of(p).cleared \cup {proc[p].cmd} /\ g.trail = {}
    BY <2>1, FileOf DEF Cleared, IsFile, NewFile, Holding
  <2> HIDE DEF g
  <2> QED BY <1>4, <2>1, <2>2, WriteStepAdvances, CleanByWriting DEF Early, Working
<1>5. ASSUME NEW p \in Procs, BeginStep(p) PROVE Clean'
  <2>1. PICK g : /\ Writes(p, g) /\ proc'[p].pc = "search"
                 /\ g.cleared = Of(p).cleared /\ g.trail = Of(p).trail
    BY <1>5 DEF BeginStep, WriteStep, Record, Moves
  <2> QED BY <1>5, <2>1, WriteStepAdvances, CleanByWriting DEF Early, Working
<1>6. ASSUME NEW p \in Procs, NoteStep(p) PROVE Clean'
  <2>1. PICK g : /\ Writes(p, g) /\ g.cleared = Of(p).cleared
                 /\ g.trail = Of(p).trail \cup {proc[p].cmd}
    BY <1>6 DEF NoteStep
  <2>2. proc'[p].pc \in {"idle", "search"}
    BY <1>6 DEF NoteStep
  <2> QED BY <1>6, <2>1, <2>2, WriteStepAdvances, CleanByWriting DEF Early, Working
<1>7. CASE UNCHANGED vars
  BY <1>7 DEF vars, Clean
<1> QED BY <1>1, <1>3, <1>4, <1>5, <1>6, <1>7, StepKinds DEF Next

-----------------------------------------------------------------------------
(* Who shares a scratchpad with whom.                                       *)

\* The notes of earlier commands in a file are of commands it began among.
OnlyRivals(r, f) ==
  \A i \in DOMAIN f.notes : f.notes[i].run < r.cmd => f.notes[i].run \in r.rivals

\* Every note's attempt is on record, and an attempt later than an active command knows it.
Attempted(f) ==
  \A i \in DOMAIN f.notes : \E a \in f.begun : a.run = f.notes[i].run

Known(f) ==
  \A q \in Active : \A a \in f.begun : a.run > proc[q].cmd => proc[q].cmd \in a.rivals

Noted == \A f \in DOMAIN files : Attempted(files[f]) /\ Known(files[f])

\* An investigation that was told neither to go on with another nor to replace it.
Plain(r) == r.investigator # "none" /\ r.mode \notin {"resume", "restart"}

\* What a process may find in the file it has open, or is about to open.
Fresh(p) ==
  /\ proc[p].pc \in Making /\ path # 0 => OnlyRivals(proc[p], files[path])
  /\ \/ proc[p].pc \in {"check", "gate"} /\ Plain(proc[p])
     \/ proc[p].pc \in {"begin", "search"} /\ proc[p].mode # "resume"
     => OnlyRivals(proc[p], Of(p))
  /\ proc[p].pc = "search" => Attempt(p) \in Of(p).begun

Admitted == \A p \in Procs : Fresh(p)

Shared(f) ==
  \A i, j \in DOMAIN f.notes : f.notes[i].run < f.notes[j].run =>
    \E a \in f.begun : a.run = f.notes[j].run /\ (a.resumed \/ f.notes[i].run \in a.rivals)

\* A step of p that writes: what it makes of the notes and attempts of each file.
LEMMA RecordSteps ==
  ASSUME Shape, Numbers, Admitted, NEW p \in Procs,
         QuietStep(p) \/ ClearStep(p) \/ BeginStep(p) \/ NoteStep(p),
         NEW f \in DOMAIN files
  PROVE  /\ f \in DOMAIN files'
         /\ \/ files'[f].notes = files[f].notes /\ files'[f].begun = files[f].begun
            \/ files'[f].notes = <<>> /\ files'[f].begun = files[f].begun
            \/ /\ files'[f].notes = files[f].notes
               /\ files'[f].begun = files[f].begun \cup {Attempt(p)}
            \/ /\ files'[f].begun = files[f].begun /\ f = proc[p].file
               /\ proc[p].pc = "search"
               /\ \E n : /\ n.run = proc[p].cmd /\ Cites(n, files[f].pad)
                         /\ files'[f].notes = Append(files[f].notes, n)
<1>1. CASE QuietStep(p)
  BY <1>1 DEF QuietStep, RecordsKept, Record
<1>2. ASSUME NEW g, Writes(p, g)
      PROVE  /\ f \in DOMAIN files' /\ proc[p].file \in DOMAIN files
             /\ f # proc[p].file => files'[f] = files[f]
             /\ f = proc[p].file => files'[f] = g /\ files[f] = Of(p)
  BY <1>2 DEF Writes, Of
<1>3. CASE ClearStep(p)
  <2>1. Writes(p, Cleared(p, Of(p))) /\ proc[p].pc = "clear"
    BY <1>3 DEF ClearStep, WriteStep, Moves
  <2>2. Cleared(p, Of(p)).notes = <<>> /\ Cleared(p, Of(p)).begun = Of(p).begun
    BY <2>1, FileOf DEF Cleared, IsFile, NewFile, Holding
  <2> QED BY <1>2, <2>1, <2>2
<1>4. CASE BeginStep(p)
  <2>1. PICK g : /\ Writes(p, g) /\ g.notes = Of(p).notes
                 /\ g.begun = Of(p).begun \cup {Attempt(p)}
    BY <1>4 DEF BeginStep, WriteStep, Record
  <2> QED BY <1>2, <2>1
<1>5. CASE NoteStep(p)
  <2>1. PICK g : /\ Writes(p, g) /\ g.begun = Of(p).begun /\ proc[p].pc = "search"
                 /\ \/ g.notes = Of(p).notes
                    \/ \E n : /\ n.run = proc[p].cmd /\ Cites(n, Of(p).pad)
                              /\ g.notes = Append(Of(p).notes, n)
    BY <1>5 DEF NoteStep
  <2> QED BY <1>2, <2>1
<1> QED BY <1>1, <1>3, <1>4, <1>5

\* Whatever such a step writes, who was warned of whom stays so.
LEMMA RivalsKept ==
  ASSUME Shape, Numbers, Admitted, NEW p \in Procs,
         QuietStep(p) \/ ClearStep(p) \/ BeginStep(p) \/ NoteStep(p),
         NEW f \in DOMAIN files, NEW q \in Active, OnlyRivals(proc[q], files[f])
  PROVE  OnlyRivals(proc[q], files'[f])
<1>1. CASE files'[f].notes = files[f].notes \/ files'[f].notes = <<>>
  BY <1>1 DEF OnlyRivals
<1>2. CASE \E n : n.run = proc[p].cmd /\ files'[f].notes = Append(files[f].notes, n)
  <2>1. PICK n : n.run = proc[p].cmd /\ files'[f].notes = Append(files[f].notes, n)
    BY <1>2
  <2>2. IsSeq(files[f].notes)
    BY DEF Shape, IsFile
  <2>3. /\ \A i \in DOMAIN files'[f].notes :
             i \in DOMAIN files[f].notes \/ files'[f].notes[i] = n
        /\ \A i \in DOMAIN files[f].notes : files'[f].notes[i] = files[f].notes[i]
    BY <2>1, <2>2, AppendFacts
  <2>4. p \in Active
    BY WriteStepAdvances, StandingFacts
  <2>5. n.run < proc[q].cmd => n.run \in proc[q].rivals
    BY <2>1, <2>4 DEF Numbers
  <2> QED BY <2>3, <2>5 DEF OnlyRivals
<1> QED BY <1>1, <1>2, RecordSteps

LEMMA AdmittedStep ==
  ASSUME Shape, Shape', Numbers, Admitted, [Next]_vars PROVE Admitted'
<1>1. ASSUME NEW p \in Procs, LaunchStep(p) PROVE Admitted'
  <2>1. /\ Others(p) /\ files' = files /\ path' = path /\ proc'[p].file = path
        /\ \/ proc'[p].pc = "unlink"
           \/ /\ proc'[p].pc = "check"
              /\ Plain(proc'[p]) => files[path].notes = <<>>
    BY <1>1 DEF LaunchStep, Launches, Keeps, Plain
  <2>2. Fresh(p)'
    BY <2>1 DEF Fresh, Making, OnlyRivals, Of
  <2>3. \A q \in Procs : q # p => Fresh(q)'
    BY <2>1 DEF Admitted, Fresh, Others, Of, Attempt
  <2> QED BY <2>2, <2>3 DEF Admitted
<1>3. ASSUME NEW p \in Procs,
             QuietStep(p) \/ ClearStep(p) \/ BeginStep(p) \/ NoteStep(p)
      PROVE  Admitted'
  <2>1. /\ Advances(p) /\ Others(p)
        /\ \A q \in Procs : q \in Active' => q \in Active
    BY <1>3, WriteStepAdvances, StandingFacts DEF Advances
  <2>2. /\ path' = path \/ path' = 0 \/ path' \notin DOMAIN files
        /\ path' # 0 => path' \in DOMAIN files'
    BY <1>3 DEF QuietStep, ClearStep, BeginStep, WriteStep, NoteStep, Shape
  <2>3. /\ DOMAIN files \subseteq DOMAIN files'
        /\ \A f \in DOMAIN files : files[f].begun \subseteq files'[f].begun
    BY <1>3, RecordSteps
  <2>4. \A f \in DOMAIN files' \ DOMAIN files : files'[f].notes = <<>>
    BY <1>3, NewFileFacts
       DEF QuietStep, ClearStep, BeginStep, WriteStep, NoteStep, RecordsKept, Writes
  <2>5. ASSUME NEW q \in Procs, q # p PROVE Fresh(q)'
    <3>1. proc'[q] = proc[q] /\ Attempt(q)' = Attempt(q)
      BY <2>1, <2>5 DEF Others, Attempt
    <3>2. CASE q \notin Active
      BY <3>1, <3>2 DEF Fresh, Active, Making
    <3>3. CASE q \in Active
      <4>1. Fresh(q) /\ (proc[q].pc \in Holding => proc[q].file \in DOMAIN files)
            /\ path \in {0} \cup DOMAIN files
        BY DEF Admitted, Shape
      <4>2. \A f \in DOMAIN files :
              OnlyRivals(proc[q], files[f]) => OnlyRivals(proc'[q], files'[f])
        BY <1>3, <3>1, <3>3, RivalsKept
      <4>3. \A f \in DOMAIN files' \ DOMAIN files : OnlyRivals(proc'[q], files'[f])
        BY <2>4 DEF OnlyRivals
      <4>4. proc'[q].pc \in Making /\ path' # 0 => OnlyRivals(proc'[q], files'[path'])
        BY <2>2, <3>1, <4>1, <4>2, <4>3 DEF Fresh
      <4>5. \/ proc'[q].pc \in {"check", "gate"} /\ Plain(proc'[q])
            \/ proc'[q].pc \in {"begin", "search"} /\ proc'[q].mode # "resume"
            => OnlyRivals(proc'[q], files'[proc'[q].file])
        BY <3>1, <4>1, <4>2 DEF Fresh, Holding, Of
      <4>6. proc'[q].pc = "search" => Attempt(q)' \in files'[proc'[q].file].begun
        BY <2>3, <3>1, <4>1 DEF Fresh, Holding, Of
      <4> QED BY <4>4, <4>5, <4>6 DEF Fresh, Of
    <3> QED BY <3>2, <3>3
  <2>6. Fresh(p)'
    <3>0. p \in Active /\ Fresh(p) /\ path \in {0} \cup DOMAIN files
          /\ (proc[p].pc \in Holding => proc[p].file \in DOMAIN files)
      BY <2>1, StandingFacts DEF Admitted, Shape
    <3>1. CASE proc'[p].pc = "idle"
      BY <3>1 DEF Fresh, Making
    <3>2. CASE proc'[p].pc # "idle"
      <4>1. /\ proc'[p].cmd = proc[p].cmd /\ proc'[p].rivals = proc[p].rivals
            /\ proc'[p].mode = proc[p].mode /\ Attempt(p)' = Attempt(p)
            /\ proc'[p].investigator = proc[p].investigator
        BY <2>1, <3>2 DEF Advances, Standing, Attempt
      <4>2. \A f \in DOMAIN files :
              OnlyRivals(proc[p], files[f]) => OnlyRivals(proc'[p], files'[f])
        <5>1. \A f \in DOMAIN files :
                OnlyRivals(proc[p], files[f]) => OnlyRivals(proc[p], files'[f])
          BY <1>3, <3>0, RivalsKept
        <5> QED BY <4>1, <5>1 DEF OnlyRivals
      <4>3. \A f \in DOMAIN files' \ DOMAIN files : OnlyRivals(proc'[p], files'[f])
        BY <2>4 DEF OnlyRivals
      <4>4. CASE QuietStep(p)
        <5>1. Passes(p)
          BY <4>4 DEF QuietStep
        <5>2. CASE /\ proc'[p].pc \in Making /\ proc[p].pc \in Working
                   /\ path' = 0 \/ path' \notin DOMAIN files
                      \/ (path' = path /\ proc[p].pc \in Making)
          <6>1. path' # 0 => OnlyRivals(proc'[p], files'[path'])
            BY <2>2, <3>0, <4>2, <4>3, <5>2 DEF Fresh
          <6> QED BY <5>2, <6>1 DEF Fresh, Making
        <5>3. CASE /\ proc[p].pc = "open" /\ proc'[p].pc = "gate"
                   /\ proc'[p].file = path' /\ path' \in DOMAIN files'
                   /\ path' \notin DOMAIN files \/ path' = path
          <6>1. OnlyRivals(proc'[p], files'[path'])
            <7>1. CASE path' \notin DOMAIN files
              BY <4>3, <5>3, <7>1
            <7>2. CASE path' = path /\ path \in DOMAIN files
              <8>1. path # 0
                BY <7>2 DEF Shape, IsSeq
              <8> QED BY <3>0, <4>2, <5>3, <7>2, <8>1 DEF Fresh, Making
            <7> QED BY <5>3, <7>1, <7>2
          <6> QED BY <5>3, <6>1 DEF Fresh, Making, Of
        <5>4. CASE /\ proc[p].pc \in {"check", "gate"} /\ proc'[p].file = proc[p].file
                   /\ \/ proc[p].pc = "check" /\ proc'[p].pc = "gate"
                      \/ proc[p].pc = "gate" /\ proc'[p].pc = "clear"
                      \/ proc[p].pc = "gate" /\ proc'[p].pc = "begin"
                         /\ proc[p].mode # "restart" /\ proc[p].investigator # "none"
          <6>1. proc[p].file \in DOMAIN files
            BY <3>0, <5>4 DEF Holding
          <6>2. Plain(proc[p]) => OnlyRivals(proc'[p], files'[proc'[p].file])
            BY <3>0, <4>2, <5>4, <6>1 DEF Fresh, Of
          <6> QED BY <4>1, <5>4, <6>2 DEF Fresh, Making, Of, Plain
        <5> QED BY <3>2, <5>1, <5>2, <5>3, <5>4 DEF Passes
      <4>5. CASE ClearStep(p)
        <5>1. /\ Writes(p, Cleared(p, Of(p))) /\ proc[p].pc = "clear"
              /\ proc'[p].pc = "begin" /\ proc'[p].file = proc[p].file
          BY <4>5 DEF ClearStep, WriteStep, Moves
        <5>2. Cleared(p, Of(p)).notes = <<>>
          BY <5>1, FileOf DEF Cleared, IsFile, NewFile, Holding
        <5>3. OnlyRivals(proc'[p], files'[proc'[p].file])
          BY <5>1, <5>2 DEF Writes, OnlyRivals
        <5> QED BY <5>1, <5>3 DEF Fresh, Making, Of
      <4>6. CASE BeginStep(p)
        <5>1. PICK g : /\ Writes(p, g) /\ proc[p].pc = "begin" /\ proc'[p].pc = "search"
                       /\ proc'[p].file = proc[p].file /\ g.notes = Of(p).notes
                       /\ g.begun = Of(p).begun \cup {Attempt(p)}
          BY <4>6 DEF BeginStep, WriteStep, Record, Moves
        <5>2. proc[p].mode # "resume" => OnlyRivals(proc'[p], files'[proc'[p].file])
          BY <3>0, <4>2, <5>1 DEF Fresh, Holding, Of
        <5>3. Attempt(p) \in files'[proc'[p].file].begun
          BY <5>1 DEF Writes
        <5> QED BY <4>1, <5>1, <5>2, <5>3 DEF Fresh, Making, Of
      <4>7. CASE NoteStep(p)
        <5>1. proc[p].pc = "search" /\ proc'[p] = proc[p] /\ proc[p].file \in DOMAIN files
          BY <3>0, <3>2, <4>7 DEF NoteStep, Holding
        <5>2. proc[p].mode # "resume" => OnlyRivals(proc'[p], files'[proc'[p].file])
          BY <3>0, <4>2, <5>1 DEF Fresh, Of
        <5>3. Attempt(p)' \in files'[proc'[p].file].begun
          BY <2>3, <3>0, <4>1, <5>1 DEF Fresh, Of
        <5> QED BY <5>1, <5>2, <5>3 DEF Fresh, Making, Of
      <4> QED BY <1>3, <4>4, <4>5, <4>6, <4>7
    <3> QED BY <3>1, <3>2
  <2> QED BY <2>5, <2>6 DEF Admitted
<1>4. CASE UNCHANGED vars
  BY <1>4 DEF vars, Admitted, Fresh, Of, Attempt
<1> QED BY <1>1, <1>3, <1>4, StepKinds DEF Next

\* Files a step leaves out of are new and empty.
LEMMA NewFilesAreEmpty ==
  ASSUME NEW p \in Procs, QuietStep(p) \/ ClearStep(p) \/ BeginStep(p) \/ NoteStep(p)
  PROVE  \A f \in DOMAIN files' \ DOMAIN files : files'[f].notes = <<>> /\ files'[f].begun = {}
  BY NewFileFacts DEF QuietStep, ClearStep, BeginStep, WriteStep, NoteStep, RecordsKept, Writes

LEMMA RecordedStep ==
  ASSUME Shape, Numbers, Traced, Admitted, Noted, [Next]_vars PROVE Noted'
<1>1. ASSUME NEW p \in Procs, LaunchStep(p) PROVE Noted'
  <2>1. Others(p) /\ files' = files /\ proc'[p].cmd = commands + 1
    BY <1>1 DEF LaunchStep, Launches, Keeps
  <2>2. \A f \in DOMAIN files : \A a \in files[f].begun : ~(a.run > proc'[p].cmd)
    BY <2>1 DEF Traced, Traces, Shape
  <2>3. \A q \in Active' : q = p \/ (q \in Active /\ proc'[q] = proc[q])
    BY <2>1 DEF Others, Active
  <2> QED BY <2>1, <2>2, <2>3 DEF Noted, Attempted, Known
<1>3. ASSUME NEW p \in Procs,
             QuietStep(p) \/ ClearStep(p) \/ BeginStep(p) \/ NoteStep(p),
             NEW f \in DOMAIN files'
      PROVE  Attempted(files'[f])
  <2>1. CASE f \notin DOMAIN files
    BY <1>3, <2>1, NewFilesAreEmpty DEF Attempted
  <2>2. CASE f \in DOMAIN files
    <3>1. Attempted(files[f])
      BY <2>2 DEF Noted
    <3>2. CASE files'[f].notes = files[f].notes /\ files[f].begun \subseteq files'[f].begun
      BY <3>1, <3>2 DEF Attempted
    <3>3. CASE files'[f].notes = <<>>
      BY <3>3 DEF Attempted
    <3>4. CASE /\ files'[f].begun = files[f].begun /\ f = proc[p].file
               /\ proc[p].pc = "search"
               /\ \E n : n.run = proc[p].cmd /\ files'[f].notes = Append(files[f].notes, n)
      <4>1. PICK n : n.run = proc[p].cmd /\ files'[f].notes = Append(files[f].notes, n)
        BY <3>4
      <4>2. IsSeq(files[f].notes)
        BY <2>2 DEF Shape, IsFile
      <4>3. /\ \A i \in DOMAIN files'[f].notes :
                 i \in DOMAIN files[f].notes \/ files'[f].notes[i] = n
            /\ \A i \in DOMAIN files[f].notes : files'[f].notes[i] = files[f].notes[i]
        BY <4>1, <4>2, AppendFacts
      <4>4. Attempt(p) \in files[f].begun /\ Attempt(p).run = proc[p].cmd
        BY <3>4 DEF Admitted, Fresh, Of, Attempt
      <4> QED BY <3>1, <3>4, <4>1, <4>3, <4>4 DEF Attempted
    <3> QED BY <1>3, <2>2, <3>2, <3>3, <3>4, RecordSteps
  <2> QED BY <2>1, <2>2
<1>4. ASSUME NEW p \in Procs,
             QuietStep(p) \/ ClearStep(p) \/ BeginStep(p) \/ NoteStep(p),
             NEW f \in DOMAIN files', NEW q \in Active', NEW a \in files'[f].begun,
             a.run > proc'[q].cmd
      PROVE  proc'[q].cmd \in a.rivals
  <2>1. q \in Active /\ p \in Active /\ proc'[q].cmd = proc[q].cmd
    BY <1>4, WriteStepAdvances, StandingFacts DEF Active
  <2>2. f \in DOMAIN files
    BY <1>4, NewFilesAreEmpty
  <2>3. a \in files[f].begun \/ a = Attempt(p)
    BY <1>4, <2>2, RecordSteps
  <2>4. CASE a \in files[f].begun
    BY <1>4, <2>1, <2>2, <2>4 DEF Noted, Known
  <2>5. CASE a = Attempt(p)
    BY <1>4, <2>1, <2>5 DEF Numbers, Attempt, Shape, IsProcess, Active
  <2> QED BY <2>3, <2>4, <2>5
<1>5. ASSUME NEW p \in Procs,
             QuietStep(p) \/ ClearStep(p) \/ BeginStep(p) \/ NoteStep(p)
      PROVE  Noted'
  BY <1>3, <1>4, <1>5 DEF Noted, Known
<1>6. CASE UNCHANGED vars
  BY <1>6 DEF vars, Noted, Known, Active
<1> QED BY <1>1, <1>5, <1>6, StepKinds DEF Next

LEMMA SharedStep ==
  ASSUME Shape, Numbers, Traced, Admitted, Noted, \A f \in DOMAIN files : Shared(files[f]),
         [Next]_vars
  PROVE  (\A f \in DOMAIN files : Shared(files[f]))'
<1>1. ASSUME NEW p \in Procs, LaunchStep(p) PROVE \A f \in DOMAIN files' : Shared(files'[f])
  BY <1>1 DEF LaunchStep, Launches, Keeps
<1>3. ASSUME NEW p \in Procs,
             QuietStep(p) \/ ClearStep(p) \/ BeginStep(p) \/ NoteStep(p),
             NEW f \in DOMAIN files'
      PROVE  Shared(files'[f])
  <2>1. CASE f \notin DOMAIN files
    BY <1>3, <2>1, NewFilesAreEmpty DEF Shared
  <2>2. CASE f \in DOMAIN files
    <3>1. Shared(files[f])
      BY <2>2
    <3>2. CASE files'[f].notes = files[f].notes /\ files[f].begun \subseteq files'[f].begun
      BY <3>1, <3>2 DEF Shared
    <3>3. CASE files'[f].notes = <<>>
      BY <3>3 DEF Shared
    <3>4. CASE /\ files'[f].begun = files[f].begun /\ f = proc[p].file
               /\ proc[p].pc = "search"
               /\ \E n : n.run = proc[p].cmd /\ files'[f].notes = Append(files[f].notes, n)
      <4>1. PICK n : n.run = proc[p].cmd /\ files'[f].notes = Append(files[f].notes, n)
        BY <3>4
      <4>2. IsSeq(files[f].notes)
        BY <2>2 DEF Shape, IsFile
      <4> DEFINE old == files[f].notes
                 new == files'[f].notes
      <4>3. /\ \A i \in DOMAIN new : i \in DOMAIN old \/ new[i] = n
            /\ \A i \in DOMAIN old : new[i] = old[i]
        BY <4>1, <4>2, AppendFacts
      <4>4. /\ Attempt(p) \in files[f].begun /\ Attempt(p).run = proc[p].cmd
            /\ Attempt(p).resumed \/ OnlyRivals(proc[p], files[f])
            /\ Attempt(p).rivals = proc[p].rivals
        BY <3>4 DEF Admitted, Fresh, Of, Attempt
      <4>5. p \in Active
        BY <3>4 DEF Active
      <4>6. \A i \in DOMAIN old : old[i].run < n.run =>
              \E a \in files[f].begun : a.run = n.run /\ (a.resumed \/ old[i].run \in a.rivals)
        BY <4>1, <4>4 DEF OnlyRivals
      <4>7. \A j \in DOMAIN old : n.run < old[j].run =>
              \E a \in files[f].begun : a.run = old[j].run /\ (a.resumed \/ n.run \in a.rivals)
        <5> SUFFICES ASSUME NEW j \in DOMAIN old, n.run < old[j].run
                     PROVE  \E a \in files[f].begun :
                              a.run = old[j].run /\ (a.resumed \/ n.run \in a.rivals)
          OBVIOUS
        <5>1. PICK a \in files[f].begun : a.run = old[j].run
          BY <2>2 DEF Noted, Attempted
        <5>2. a.run \in Nat /\ n.run \in Nat
          BY <2>2, <4>1 DEF Traced, Traces, Shape, IsProcess
        <5>3. n.run \in a.rivals
          BY <2>2, <4>1, <4>5, <5>1, <5>2 DEF Noted, Known
        <5> QED BY <5>1, <5>3
      <4>8. ~(n.run < n.run)
        BY <4>1 DEF Shape, IsProcess
      <4>9. \A i, j \in DOMAIN old : old[i].run < old[j].run =>
              \E a \in files[f].begun :
                a.run = old[j].run /\ (a.resumed \/ old[i].run \in a.rivals)
        BY <3>1 DEF Shared
      <4>10. \A i, j \in DOMAIN new : new[i].run < new[j].run =>
              \E a \in files[f].begun :
                a.run = new[j].run /\ (a.resumed \/ new[i].run \in a.rivals)
        <5> SUFFICES ASSUME NEW i \in DOMAIN new, NEW j \in DOMAIN new, new[i].run < new[j].run
                     PROVE  \E a \in files[f].begun :
                              a.run = new[j].run /\ (a.resumed \/ new[i].run \in a.rivals)
          OBVIOUS
        <5>1. CASE i \in DOMAIN old /\ j \in DOMAIN old
          <6>1. new[i] = old[i] /\ new[j] = old[j]
            BY <4>3, <5>1
          <6> HIDE DEF old, new
          <6> QED BY <4>9, <5>1, <6>1
        <5>2. CASE i \in DOMAIN old /\ new[j] = n
          <6>1. new[i] = old[i]
            BY <4>3, <5>2
          <6> HIDE DEF old, new
          <6> QED BY <4>6, <5>2, <6>1
        <5>3. CASE new[i] = n /\ j \in DOMAIN old
          <6>1. new[j] = old[j]
            BY <4>3, <5>3
          <6> HIDE DEF old, new
          <6> QED BY <4>7, <5>3, <6>1
        <5>4. CASE new[i] = n /\ new[j] = n
          BY <4>8, <5>4
        <5> HIDE DEF old, new
        <5> QED BY <4>3, <5>1, <5>2, <5>3, <5>4
      <4>11. files'[f].begun = files[f].begun
        BY <3>4
      <4> QED BY <4>10, <4>11, Zenon DEF Shared
    <3> QED BY <1>3, <2>2, <3>2, <3>3, <3>4, RecordSteps
  <2> QED BY <2>1, <2>2
<1>4. CASE UNCHANGED vars
  BY <1>4 DEF vars
<1> QED BY <1>1, <1>3, <1>4, StepKinds DEF Next

-----------------------------------------------------------------------------
(* What a step comes to for what an ingest leaves, and for what a process    *)
(* knows of it.                                                             *)

Past == {"clear", "begin", "search"}

PadsKept ==
  /\ DOMAIN files \subseteq DOMAIN files'
  /\ \A f \in DOMAIN files : files'[f].pad = files[f].pad /\ files'[f].whole = files[f].whole
  /\ \A f \in DOMAIN files' \ DOMAIN files : files'[f] = NewFile

Starts(p) ==
  /\ Others(p) /\ Keeps /\ proc[p].pc = "idle"
  /\ \/ /\ proc'[p].pc = "unlink" /\ Ingesting = {}
        /\ proc'[p].log \in Logs /\ proc'[p].cfg \in Configs
     \/ proc'[p].pc = "check"

\* An ingest's place in its log, and the file it has open.
Placed(p) == proc'[p].file = proc[p].file /\ proc'[p].log = proc[p].log

\* The steps that leave every log as it is.
Goes(p) ==
  /\ Others(p) /\ PadsKept /\ path' = path
  /\ \/ proc'[p].pc = "idle"
     \/ /\ Standing(proc'[p]) = Standing(proc[p]) /\ proc'[p].file = proc[p].file
        /\ \/ /\ proc'[p].verdicts = proc[p].verdicts /\ proc'[p].whole = proc[p].whole
              /\ \/ proc[p].pc \in Past /\ proc'[p].pc \in Past
                 \/ proc[p].pc = "gate" /\ proc'[p].pc \in Past /\ ~Refused(p)
           \/ /\ proc[p].pc = "check" /\ proc'[p].pc = "gate"
              /\ proc'[p].verdicts = Verdicts(p) /\ proc'[p].whole = Of(p).whole
           \/ /\ proc[p].pc = "assess" /\ proc'[p].pc = "open"
              /\ proc[p].reporting /\ proc'[p].whole

Unlinks(p) ==
  /\ Moves(p, "unlink", "create") /\ Placed(p)
  /\ path' = 0 /\ files' = files

OpensFor(p) ==
  /\ Opens(p)
  /\ \/ Moves(p, "create", "load") /\ proc'[p].log = proc[p].log
     \/ Moves(p, "open", "gate") /\ proc'[p].whole = proc[p].whole

Half(log) == SubSeq(log.events, 1, Len(log.events) \div 2)

\* A step of the ingest that writes a part of its log.
Loads(p) ==
  /\ path' = path /\ proc'[p].file = proc[p].file
  /\ \E g :
       /\ Writes(p, g) /\ g.notes = Of(p).notes
       /\ \/ /\ Moves(p, "load", "load") /\ proc'[p].log = proc[p].log
             /\ Of(p).pad.events # Half(proc[p].log)
             /\ g.pad.events = Half(proc[p].log) /\ g.pad.templates = Of(p).pad.templates
             /\ g.whole = Of(p).whole /\ g.pad.metrics = Of(p).pad.metrics
          \/ /\ Moves(p, "load", "index") /\ proc'[p].log = proc[p].log
             /\ Of(p).pad.events = Half(proc[p].log)
             /\ g.pad.events = proc[p].log.events /\ g.pad.templates = Of(p).pad.templates
             /\ g.whole = Of(p).whole /\ g.pad.metrics = Of(p).pad.metrics
          \/ /\ Moves(p, "index", "measure") /\ proc'[p].log = proc[p].log
             /\ g.pad.events = Of(p).pad.events
             /\ g.whole = Of(p).whole /\ g.pad.metrics = Of(p).pad.metrics
          \/ /\ Moves(p, "measure", "assess")
             /\ g.pad.events = Of(p).pad.events /\ g.pad.templates = Of(p).pad.templates
             /\ g.whole

LEMMA WriteKeepsPads ==
  ASSUME NEW p \in Procs, NEW g, Writes(p, g), g.pad = Of(p).pad, g.whole = Of(p).whole
  PROVE  PadsKept
  BY DEF Writes, PadsKept, Of

LEMMA StepPads ==
  ASSUME Shape, NEW p \in Procs, Step(p)
  PROVE  \/ Starts(p) \/ Goes(p) \/ Unlinks(p) \/ OpensFor(p) \/ Loads(p)
         \/ proc' = proc /\ path' = path /\ PadsKept
<1> USE DEF Holding
<1>1. CASE StartIngest(p)
  <2>1. PICK log \in Logs : Launch(p, "unlink", Task(log, "none", "plain", FALSE), 1)
    BY <1>1 DEF StartIngest
  <2>2. Launches(p, "unlink", Task(log, "none", "plain", FALSE)) /\ Ingesting = {}
    BY <1>1, <2>1, LaunchFacts DEF StartIngest
  <2> QED BY <2>2 DEF Starts, Launches, Task
<1>2. CASE StartRun(p)
  <2>1. PICK log \in Logs, i \in Investigators, ignore \in BOOLEAN :
          Launch(p, "unlink", Task(log, i, "plain", ignore), 2)
    BY <1>2 DEF StartRun, Ignoring
  <2>2. Launches(p, "unlink", Task(log, i, "plain", ignore)) /\ Ingesting = {}
    BY <1>2, <2>1, LaunchFacts DEF StartRun
  <2> QED BY <2>2 DEF Starts, Launches, Task
<1>3. CASE StartInvestigate(p)
  <2>1. PICK i \in Investigators, mode \in Modes, ignore \in BOOLEAN :
          Launch(p, "check", Task(None, i, mode, ignore), 1)
    BY <1>3 DEF StartInvestigate, Ignoring
  <2>2. Launches(p, "check", Task(None, i, mode, ignore))
    BY <2>1, LaunchFacts
  <2> QED BY <2>2 DEF Starts, Launches
<1>4. CASE StartHealth(p)
  <2>1. Launches(p, "check", Task(None, "none", "plain", FALSE))
    BY <1>4, LaunchFacts DEF StartHealth
  <2> QED BY <2>1 DEF Starts, Launches
<1>5. CASE Unlink(p)
  BY <1>5, GotoFacts DEF Unlink, Unlinks, Placed
<1>6. CASE Create(p)
  <2>1. /\ files' = Opened /\ path' = OpenedAt /\ commands' = commands
        /\ proc' = [proc EXCEPT ![p].pc = "load", ![p].file = OpenedAt]
        /\ proc[p].pc = "create"
    BY <1>6 DEF Create
  <2>2. Opens(p) /\ Moves(p, proc[p].pc, "load") /\ proc'[p].log = proc[p].log
    BY <2>1, OpenFacts
  <2> QED BY <2>1, <2>2 DEF OpensFor
<1>7. CASE RunOpens(p)
  <2>1. /\ files' = Opened /\ path' = OpenedAt /\ commands' = commands
        /\ proc' = [proc EXCEPT ![p].pc = "gate", ![p].file = OpenedAt]
        /\ proc[p].pc = "open"
    BY <1>7 DEF RunOpens
  <2>2. Opens(p) /\ Moves(p, proc[p].pc, "gate") /\ proc'[p].whole = proc[p].whole
    BY <2>1, OpenFacts
  <2> QED BY <2>1, <2>2 DEF OpensFor
<1>8. CASE Load(p)
  <2> DEFINE log == proc[p].log
             complete == Of(p).pad.events = Half(log)
             events == IF complete THEN log.events ELSE Half(log)
             to == IF complete THEN "index" ELSE "load"
             g == [Of(p) EXCEPT !.pad.events = events]
  <2>1. proc[p].pc = "load" /\ Goto(p, to) /\ path' = path /\ commands' = commands /\ Write(p, g)
    BY <1>8 DEF Load, Half
  <2> HIDE DEF events, to
  <2>2. /\ g.notes = Of(p).notes /\ g.pad.events = events
        /\ g.pad.templates = Of(p).pad.templates /\ g.whole = Of(p).whole
        /\ g.pad.metrics = Of(p).pad.metrics
    BY <2>1, FileOf DEF IsFile, NewFile, Empty
  <2>3. Moves(p, "load", to) /\ Writes(p, g) /\ Placed(p)
    BY <2>1, GotoFacts, WriteFacts DEF Placed
  <2> HIDE DEF g
  <2>4. CASE complete
    <3>1. events = log.events /\ to = "index"
      BY <2>4 DEF events, to
    <3> QED BY <2>1, <2>2, <2>3, <2>4, <3>1 DEF Loads, Placed
  <2>5. CASE ~complete
    <3>1. events = Half(log) /\ to = "load"
      BY <2>5 DEF events, to
    <3> QED BY <2>1, <2>2, <2>3, <2>5, <3>1 DEF Loads, Placed
  <2> QED BY <2>4, <2>5
<1>9. CASE Index(p)
  <2> DEFINE g == [Of(p) EXCEPT !.pad.templates = proc[p].log.templates]
  <2>1. /\ proc[p].pc = "index" /\ Goto(p, "measure") /\ path' = path /\ commands' = commands
        /\ Write(p, g)
    BY <1>9 DEF Index
  <2>2. /\ g.notes = Of(p).notes /\ g.pad.events = Of(p).pad.events
        /\ g.whole = Of(p).whole /\ g.pad.metrics = Of(p).pad.metrics
    BY <2>1, FileOf DEF IsFile, NewFile, Empty
  <2>3. Moves(p, "index", "measure") /\ Writes(p, g) /\ Placed(p)
    BY <2>1, GotoFacts, WriteFacts DEF Placed
  <2> HIDE DEF g
  <2> QED BY <2>1, <2>2, <2>3 DEF Loads, Placed
<1>10. CASE Measure(p)
  <2> DEFINE g == [Of(p) EXCEPT !.pad.metrics = proc[p].log.metrics, !.whole = TRUE]
  <2>1. /\ proc[p].pc = "measure" /\ path' = path /\ commands' = commands /\ Write(p, g)
        /\ proc' = [proc EXCEPT ![p].pc = "assess", ![p].log = None]
    BY <1>10 DEF Measure
  <2>2. /\ g.notes = Of(p).notes /\ g.pad.events = Of(p).pad.events
        /\ g.pad.templates = Of(p).pad.templates /\ g.whole
    BY <2>1, FileOf DEF IsFile, NewFile, Empty
  <2>3. Moves(p, "measure", "assess") /\ proc'[p].file = proc[p].file
    BY <2>1 DEF Shape, Moves, Others, Standing, IsProcess, Idle, Process, Task
  <2>4. Writes(p, g)
    BY <2>1, WriteFacts
  <2> HIDE DEF g
  <2> QED BY <2>1, <2>2, <2>3, <2>4 DEF Loads
<1>11. CASE Assess(p)
  <2> DEFINE g == Judged(Of(p), Verdicts(p))
  <2>1. proc[p].pc = "assess" /\ path' = path /\ commands' = commands /\ Write(p, g)
    BY <1>11 DEF Assess, Verdicts
  <2>2. g.pad = Of(p).pad /\ g.whole = Of(p).whole
    BY <2>1, FileOf, JudgedFacts
  <2>3. Writes(p, g)
    BY <2>1, WriteFacts
  <2> HIDE DEF g
  <2>4. PadsKept
    BY <2>2, <2>3, WriteKeepsPads
  <2>5. CASE proc[p].reporting
    <3>1. PICK verdicts : proc' = [proc EXCEPT ![p].pc = "open", ![p].verdicts = verdicts,
                                               ![p].whole = TRUE]
      BY <1>11, <2>5 DEF Assess
    <3>2. Moves(p, "assess", "open") /\ proc'[p].file = proc[p].file /\ proc'[p].whole
      BY <2>1, <3>1 DEF Shape, Moves, Others, Standing, IsProcess, Idle, Process, Task
    <3> QED BY <2>1, <2>4, <2>5, <3>2 DEF Goes, Moves
  <2>6. CASE ~proc[p].reporting
    <3>1. Stops(p)
      BY <1>11, <2>1, <2>6, FinishFacts DEF Assess
    <3> QED BY <2>1, <2>4, <3>1, IdleFacts DEF Goes, Stops
  <2> QED BY <2>5, <2>6
<1>12. CASE CheckHealth(p)
  <2>1. /\ proc[p].pc = "check" /\ path' = path /\ files' = files /\ commands' = commands
        /\ proc' = [proc EXCEPT ![p].pc = "gate", ![p].verdicts = Verdicts(p),
                                ![p].whole = Of(p).whole]
    BY <1>12 DEF CheckHealth
  <2>2. /\ Moves(p, "check", "gate") /\ proc'[p].file = proc[p].file
        /\ proc'[p].verdicts = Verdicts(p) /\ proc'[p].whole = Of(p).whole
    BY <2>1 DEF Shape, Moves, Others, Standing, IsProcess, Idle, Process, Task
  <2>3. PadsKept
    BY <2>1 DEF PadsKept
  <2> QED BY <2>1, <2>2, <2>3 DEF Goes, Moves
<1>13. CASE Gate(p)
  <2> DEFINE g == Gated(p)
  <2>1. proc[p].pc = "gate" /\ path' = path /\ commands' = commands /\ Write(p, g)
    BY <1>13 DEF Gate, Gated
  <2>2. g.pad = Of(p).pad /\ g.whole = Of(p).whole
    BY <2>1, FileOf, GatedFacts
  <2>3. Writes(p, g)
    BY <2>1, WriteFacts
  <2> HIDE DEF g
  <2>4. PadsKept
    BY <2>2, <2>3, WriteKeepsPads
  <2>5. CASE Refused(p)
    <3>1. Stops(p)
      BY <1>13, <2>1, <2>5, FinishFacts DEF Gate
    <3> QED BY <2>1, <2>4, <3>1, IdleFacts DEF Goes, Stops
  <2>6. CASE ~Refused(p)
    <3>1. PICK to \in {"clear", "begin"} : Goto(p, to)
      BY <1>13, <2>6 DEF Gate
    <3>2. /\ Moves(p, proc[p].pc, to) /\ proc'[p].file = proc[p].file
          /\ proc'[p].verdicts = proc[p].verdicts /\ proc'[p].whole = proc[p].whole
      BY <2>1, <3>1, GotoFacts
    <3> QED BY <2>1, <2>4, <2>6, <3>1, <3>2 DEF Goes, Moves, Past
  <2> QED BY <2>5, <2>6
<1>14. CASE Clear(p)
  <2> DEFINE g == Cleared(p, Of(p))
  <2>1. proc[p].pc = "clear" /\ path' = path /\ commands' = commands /\ Goto(p, "begin")
        /\ Write(p, g)
    BY <1>14 DEF Clear
  <2>2. g.pad = Of(p).pad /\ g.whole = Of(p).whole
    BY <2>1, FileOf DEF IsFile, NewFile, Cleared
  <2>3. Writes(p, g)
    BY <2>1, WriteFacts
  <2> HIDE DEF g
  <2>4. PadsKept
    BY <2>2, <2>3, WriteKeepsPads
  <2>5. /\ Moves(p, proc[p].pc, "begin") /\ proc'[p].file = proc[p].file
        /\ proc'[p].verdicts = proc[p].verdicts /\ proc'[p].whole = proc[p].whole
    BY <2>1, GotoFacts
  <2> QED BY <2>1, <2>4, <2>5 DEF Goes, Moves, Past
<1>15. CASE Begin(p)
  <2> DEFINE g == [Forgotten(Of(p)) EXCEPT !.begun = @ \cup {Attempt(p)}]
  <2>1. proc[p].pc = "begin" /\ path' = path /\ commands' = commands /\ Goto(p, "search")
        /\ Write(p, g)
    BY <1>15 DEF Begin
  <2>2. g.pad = Of(p).pad /\ g.whole = Of(p).whole
    BY <2>1, FileOf DEF IsFile, NewFile, Forgotten
  <2>3. Writes(p, g)
    BY <2>1, WriteFacts
  <2> HIDE DEF g
  <2>4. PadsKept
    BY <2>2, <2>3, WriteKeepsPads
  <2>5. /\ Moves(p, proc[p].pc, "search") /\ proc'[p].file = proc[p].file
        /\ proc'[p].verdicts = proc[p].verdicts /\ proc'[p].whole = proc[p].whole
    BY <2>1, GotoFacts
  <2> QED BY <2>1, <2>4, <2>5 DEF Goes, Moves, Past
<1>16. CASE SearchWrites(p)
  <2>1. PICK note, trail :
          /\ proc[p].pc = "search" /\ proc' = proc /\ path' = path
          /\ Write(p, [Of(p) EXCEPT !.notes = Append(@, note), !.trail = trail, !.spent = TRUE])
    BY <1>16 DEF SearchWrites
  <2> DEFINE g == [Of(p) EXCEPT !.notes = Append(@, note), !.trail = trail, !.spent = TRUE]
  <2>2. g.pad = Of(p).pad /\ g.whole = Of(p).whole
    BY <2>1, FileOf DEF IsFile, NewFile
  <2>3. Writes(p, g)
    BY <2>1, WriteFacts
  <2> HIDE DEF g
  <2> QED BY <2>1, <2>2, <2>3, WriteKeepsPads
<1>17. CASE SearchEnds(p)
  <2>1. PICK trail :
          /\ proc[p].pc = "search" /\ Finish(p) /\ path' = path /\ commands' = commands
          /\ Write(p, [Of(p) EXCEPT !.by = "loop", !.spent = TRUE, !.trail = trail])
    BY <1>17 DEF SearchEnds
  <2> DEFINE g == [Of(p) EXCEPT !.by = "loop", !.spent = TRUE, !.trail = trail]
  <2>2. g.pad = Of(p).pad /\ g.whole = Of(p).whole
    BY <2>1, FileOf DEF IsFile, NewFile
  <2>3. Writes(p, g) /\ Stops(p)
    BY <2>1, WriteFacts, FinishFacts
  <2> HIDE DEF g
  <2> QED BY <2>1, <2>2, <2>3, WriteKeepsPads, IdleFacts DEF Goes, Stops
<1>18. CASE Skeleton(p)
  <2> DEFINE ended == [Of(p) EXCEPT !.by = "skeleton", !.trail = @ \cup {proc[p].cmd}]
  <2>1. PICK note :
          /\ proc[p].pc = "search" /\ Finish(p) /\ path' = path /\ commands' = commands
          /\ \/ Write(p, ended)
             \/ Write(p, [ended EXCEPT !.notes = Append(@, note)])
    BY <1>18 DEF Skeleton
  <2> DEFINE g == [ended EXCEPT !.notes = Append(@, note)]
  <2>2. /\ ended.pad = Of(p).pad /\ ended.whole = Of(p).whole
        /\ DOMAIN ended = DOMAIN NewFile
    BY <2>1, FileOf DEF IsFile, NewFile
  <2> HIDE DEF ended
  <2>3. g.pad = Of(p).pad /\ g.whole = Of(p).whole
    BY <2>2 DEF NewFile
  <2> HIDE DEF g
  <2>4. Stops(p) /\ (Writes(p, ended) \/ Writes(p, g))
    BY <2>1, WriteFacts, FinishFacts DEF g
  <2>5. PadsKept
    BY <2>2, <2>3, <2>4, WriteKeepsPads
  <2> QED BY <2>1, <2>4, <2>5, IdleFacts DEF Goes, Stops
<1>19. CASE Dies(p)
  <2>1. files' = files /\ path' = path /\ Stops(p)
    BY <1>19, FinishFacts DEF Dies
  <2>2. PadsKept
    BY <2>1 DEF PadsKept
  <2> QED BY <2>1, <2>2, IdleFacts DEF Goes, Stops
<1>20. CASE RecordHealth(p)
  <2> DEFINE g == Judged(Of(p), proc[p].verdicts)
  <2>1. /\ proc[p].pc = "gate" /\ path' = path /\ commands' = commands /\ Finish(p)
        /\ Write(p, g)
    BY <1>20 DEF RecordHealth
  <2>2. g.pad = Of(p).pad /\ g.whole = Of(p).whole
    BY <2>1, FileOf, JudgedFacts
  <2>3. Writes(p, g) /\ Stops(p)
    BY <2>1, WriteFacts, FinishFacts
  <2> HIDE DEF g
  <2> QED BY <2>1, <2>2, <2>3, WriteKeepsPads, IdleFacts DEF Goes, Stops
<1> QED BY <1>1, <1>2, <1>3, <1>4, <1>5, <1>6, <1>7, <1>8, <1>9, <1>10, <1>11, <1>12, <1>13,
           <1>14, <1>15, <1>16, <1>17, <1>18, <1>19, <1>20 DEF Step

-----------------------------------------------------------------------------
(* One ingest at a time, in a file of its own: what a scratchpad holds only  *)
(* grows, and no more once it is whole.                                      *)

Blank(f) == f.pad = Empty /\ ~f.whole

Loading(p) ==
  /\ proc[p].pc \in {"unlink", "create", "load", "index"} => proc[p].log \in Logs
  /\ proc[p].pc = "create" /\ path # 0 => Blank(files[path])
  /\ proc[p].pc = "load" =>
       /\ ~Of(p).whole /\ Of(p).pad.templates = {}
       /\ Of(p).pad.events \in {<<>>, Half(proc[p].log)}
  /\ proc[p].pc = "index" => ~Of(p).whole /\ Of(p).pad.templates = {}
  /\ proc[p].pc = "measure" => ~Of(p).whole

Alone == \A p, q \in Ingesting : p = q

Ingested == Alone /\ \A p \in Procs : Loading(p)

LEMMA AloneStep == ASSUME Shape, Alone, [Next]_vars PROVE Alone'
<1>1. ASSUME NEW p \in Procs, Others(p), proc'[p].pc \in Working => p \in Ingesting
      PROVE  Alone'
  BY <1>1 DEF Alone, Ingesting, Others
<1>2. ASSUME NEW p \in Procs, Starts(p) PROVE Alone'
  BY <1>1, <1>2 DEF Starts, Alone, Ingesting, Others, Working
<1>3. ASSUME NEW p \in Procs, Goes(p) PROVE Alone'
  <2>1. proc'[p].pc \in {"idle", "gate", "open"} \cup Past
    BY <1>3 DEF Goes
  <2> QED BY <1>1, <1>3, <2>1 DEF Goes, Past, Working
<1>4. ASSUME NEW p \in Procs, Unlinks(p) \/ OpensFor(p) \/ Loads(p) PROVE Alone'
  BY <1>1, <1>4 DEF Unlinks, OpensFor, Loads, Moves, Ingesting, Working
<1>5. CASE proc' = proc
  BY <1>5 DEF Alone, Ingesting
<1> QED BY <1>2, <1>3, <1>4, <1>5, StepPads DEF Next, vars

LEMMA LoadingStep == ASSUME Shape, Shape', Ingested, [Next]_vars PROVE Ingested'
<1> SUFFICES ASSUME NEW q \in Procs PROVE Loading(q)'
  BY AloneStep DEF Ingested
<1>0. /\ Loading(q) /\ path \in {0} \cup DOMAIN files /\ 0 \notin DOMAIN files
      /\ proc[q].pc \in Holding => proc[q].file \in DOMAIN files
  BY DEF Ingested, Shape, IsSeq
<1> USE DEF Holding
<1>1. ASSUME NEW p \in Procs, Starts(p) PROVE Loading(q)'
  <2>1. CASE q = p
    BY <1>1, <2>1 DEF Starts, Loading
  <2>2. CASE q # p
    BY <1>0, <1>1, <2>2 DEF Starts, Keeps, Others, Loading, Of
  <2> QED BY <2>1, <2>2
<1>2. ASSUME PadsKept, path' = path, proc'[q] = proc[q] PROVE Loading(q)'
  BY <1>0, <1>2 DEF PadsKept, Loading, Of, Blank
<1>3. ASSUME NEW p \in Procs, Goes(p) PROVE Loading(q)'
  <2>1. CASE q = p
    <3>1. proc'[q].pc \in {"idle", "gate", "open"} \cup Past
      BY <1>3, <2>1 DEF Goes
    <3> QED BY <3>1 DEF Loading, Past
  <2>2. CASE q # p
    BY <1>2, <1>3, <2>2 DEF Goes, Others
  <2> QED BY <2>1, <2>2
<1>4. ASSUME NEW p \in Procs, Unlinks(p) PROVE Loading(q)'
  <2>1. CASE q = p
    BY <1>0, <1>4, <2>1 DEF Unlinks, Moves, Placed, Loading
  <2>2. CASE q # p
    BY <1>0, <1>4, <2>2 DEF Unlinks, Moves, Others, Loading, Of
  <2> QED BY <2>1, <2>2
<1>5. ASSUME NEW p \in Procs, OpensFor(p) PROVE Loading(q)'
  <2>1. /\ \A f \in DOMAIN files : files'[f] = files[f]
        /\ IF path = 0 THEN files'[path'] = NewFile ELSE path' = path
        /\ proc'[p].file = path' /\ path' \in DOMAIN files' /\ Others(p)
    BY <1>5 DEF OpensFor, Opens, Moves
  <2>2. NewFile.pad = Empty /\ ~NewFile.whole /\ Blank(NewFile)
    BY NewFileFacts DEF Blank
  <2>3. CASE q = p
    <3>1. CASE proc[p].pc = "create" /\ proc'[p].pc = "load" /\ proc'[p].log = proc[p].log
      <4>1. Blank(files'[path'])
        BY <1>0, <2>1, <2>2, <2>3, <3>1 DEF Loading
      <4>2. files'[path'].pad.events = <<>> /\ files'[path'].pad.templates = {}
        BY <4>1 DEF Blank, Empty
      <4> QED BY <1>0, <2>1, <2>3, <3>1, <4>1, <4>2 DEF Loading, Of, Blank
    <3>2. CASE proc'[p].pc = "gate"
      BY <2>3, <3>2 DEF Loading
    <3> QED BY <1>5, <3>1, <3>2 DEF OpensFor, Moves
  <2>4. CASE q # p
    <3>1. proc'[q] = proc[q]
      BY <2>1, <2>4 DEF Others
    <3>2. proc'[q].pc = "create" /\ path' # 0 => Blank(files'[path'])
      BY <1>0, <2>1, <2>2, <3>1 DEF Loading
    <3> QED BY <1>0, <2>1, <3>1, <3>2 DEF Loading, Of
  <2> QED BY <2>3, <2>4
<1>6. ASSUME NEW p \in Procs, Loads(p) PROVE Loading(q)'
  <2>1. PICK g : /\ path' = path /\ proc'[p].file = proc[p].file /\ Writes(p, g) /\ Others(p)
                 /\ \/ /\ proc[p].pc = "load" /\ proc'[p].pc = "load"
                       /\ proc'[p].log = proc[p].log
                       /\ g.pad.events = Half(proc[p].log)
                       /\ g.pad.templates = Of(p).pad.templates /\ g.whole = Of(p).whole
                    \/ /\ proc[p].pc = "load" /\ proc'[p].pc = "index"
                       /\ proc'[p].log = proc[p].log
                       /\ g.pad.templates = Of(p).pad.templates /\ g.whole = Of(p).whole
                    \/ /\ proc[p].pc = "index" /\ proc'[p].pc = "measure"
                       /\ g.whole = Of(p).whole
                    \/ proc[p].pc = "measure" /\ proc'[p].pc = "assess"
    BY <1>6 DEF Loads, Moves
  <2>2. CASE q = p
    <3>1. Of(q)' = g
      BY <2>1, <2>2 DEF Of, Writes
    <3> QED BY <1>0, <2>1, <2>2, <3>1 DEF Loading
  <2>3. CASE q # p
    <3>1. proc'[q] = proc[q] /\ p \in Ingesting
      BY <2>1, <2>3 DEF Others, Ingesting, Working
    <3>2. proc[q].pc \notin Working
      BY <2>3, <3>1 DEF Ingested, Alone, Ingesting
    <3> QED BY <3>1, <3>2 DEF Loading, Working
  <2> QED BY <2>2, <2>3
<1>7. CASE UNCHANGED vars
  BY <1>0, <1>7 DEF vars, Loading, Of
<1> QED BY <1>1, <1>2, <1>3, <1>4, <1>5, <1>6, <1>7, StepPads DEF Next

LEMMA HalfOfNumber == ASSUME NEW k \in Nat PROVE k \div 2 \in Nat /\ k \div 2 <= k
  OBVIOUS

\* One sequence begins with the other.
Begins(s, t) == DOMAIN s \subseteq DOMAIN t /\ \A i \in DOMAIN s : t[i] = s[i]

\* A log begins with its first half.
LEMMA HalfOfLog == ASSUME NEW log \in Logs PROVE Begins(Half(log), log.events)
<1> DEFINE k == Len(log.events)
           n == k \div 2
           half == SubSeq(log.events, 1, n)
           S == {log.events[i] : i \in DOMAIN log.events}
<1>2. k \in Nat /\ DOMAIN log.events = 1 .. k
  BY LogsAssumption
<1> HIDE DEF k
<1>3. n \in Nat /\ n <= k
  BY <1>2, HalfOfNumber
<1> HIDE DEF n
<1>4. \A i \in 1 .. n : log.events[i] \in S
  BY <1>2, <1>3
<1> HIDE DEF S
<1>5. /\ half \in Seq(S) /\ Len(half) = IF 1 <= n THEN n - 1 + 1 ELSE 0
      /\ \A i \in 1 .. n - 1 + 1 : half[i] = log.events[1 + i - 1]
  BY <1>3, <1>4, SubSeqProperties
<1> HIDE DEF half
<1>6. Len(half) = n /\ DOMAIN half = 1 .. Len(half)
  BY <1>3, <1>5
<1>7. DOMAIN half \subseteq DOMAIN log.events
  BY <1>2, <1>3, <1>6
<1>8. \A i \in DOMAIN half : half[i] = log.events[i]
  BY <1>3, <1>5, <1>6
<1>9. Begins(half, log.events)
  BY <1>7, <1>8 DEF Begins
<1> QED BY <1>9 DEF Half, half, n, k

\* What a scratchpad holds is never taken out of it.
Grows(f, g) ==
  /\ Begins(f.pad.events, g.pad.events)
  /\ {t.id : t \in f.pad.templates} \subseteq {t.id : t \in g.pad.templates}

LEMMA PadsGrow ==
  ASSUME Shape, Ingested, NEW p \in Procs, Step(p), NEW f \in DOMAIN files
  PROVE  f \in DOMAIN files' /\ Grows(files[f], files'[f])
<1>1. CASE files'[f].pad = files[f].pad /\ f \in DOMAIN files'
  BY <1>1 DEF Grows, Begins
<1>2. CASE Loads(p)
  <2>1. Loading(p)
    BY DEF Ingested
  <2>2. PICK g : /\ Writes(p, g)
                 /\ \/ /\ proc[p].pc = "load"
                       /\ g.pad.templates = Of(p).pad.templates
                       /\ \/ /\ Of(p).pad.events # Half(proc[p].log)
                             /\ g.pad.events = Half(proc[p].log)
                          \/ /\ Of(p).pad.events = Half(proc[p].log)
                             /\ g.pad.events = proc[p].log.events
                    \/ proc[p].pc = "index" /\ g.pad.events = Of(p).pad.events
                    \/ /\ proc[p].pc = "measure" /\ g.pad.events = Of(p).pad.events
                       /\ g.pad.templates = Of(p).pad.templates
    BY <1>2 DEF Loads, Moves
  <2>3. /\ f \in DOMAIN files'
        /\ f # proc[p].file => files'[f] = files[f]
        /\ f = proc[p].file => files'[f] = g /\ files[f] = Of(p)
    BY <2>2 DEF Writes, Of
  <2>4. CASE f # proc[p].file
    BY <2>3, <2>4 DEF Grows, Begins
  <2>5. CASE f = proc[p].file
    <3>1. CASE proc[p].pc = "load"
      <4>1. proc[p].log \in Logs /\ Of(p).pad.events \in {<<>>, Half(proc[p].log)}
        BY <2>1, <3>1 DEF Loading
      <4>2. Begins(Of(p).pad.events, g.pad.events)
        BY <2>2, <3>1, <4>1, HalfOfLog DEF Begins
      <4>3. g.pad.templates = Of(p).pad.templates
        BY <2>2, <3>1
      <4> QED BY <2>3, <2>5, <4>2, <4>3 DEF Grows
    <3>2. CASE proc[p].pc = "index"
      <4>1. Of(p).pad.templates = {} /\ g.pad.events = Of(p).pad.events
        BY <2>1, <2>2, <3>2 DEF Loading
      <4> QED BY <2>3, <2>5, <4>1 DEF Grows, Begins
    <3>3. CASE proc[p].pc = "measure"
      BY <2>2, <2>3, <2>5, <3>3 DEF Grows, Begins
    <3> QED BY <2>2, <3>1, <3>2, <3>3
  <2> QED BY <2>4, <2>5
<1> QED BY <1>1, <1>2, StepPads DEF Starts, Keeps, Goes, PadsKept, Unlinks, OpensFor, Opens

\* A whole scratchpad stays as it is.
LEMMA WholeIsFinal ==
  ASSUME Shape, Ingested, NEW p \in Procs, Step(p), NEW f \in DOMAIN files, files[f].whole
  PROVE  files'[f].whole /\ files'[f].pad = files[f].pad
<1>1. CASE Loads(p)
  <2>1. PICK g : Writes(p, g) /\ proc[p].pc \in {"load", "index", "measure"}
    BY <1>1 DEF Loads, Moves
  <2>2. ~Of(p).whole
    BY <2>1 DEF Ingested, Loading
  <2> QED BY <2>1, <2>2 DEF Writes, Of
<1> QED BY <1>1, StepPads DEF Starts, Keeps, Goes, PadsKept, Unlinks, OpensFor, Opens

-----------------------------------------------------------------------------
(* What a process past its gate knows of the log it calls a model over.     *)

Informed(p) ==
  /\ proc[p].pc = "open" => proc[p].reporting
  /\ proc[p].pc \in {"gate"} \cup Past /\ proc[p].whole /\ ~proc[p].reporting =>
       Of(p).whole /\ proc[p].verdicts = Check(Of(p).pad, proc[p].cfg)
  /\ proc[p].pc \in Past => ~Refused(p)

LEMMA InformedStep ==
  ASSUME Shape, Ingested, \A p \in Procs : Informed(p), [Next]_vars
  PROVE  \A q \in Procs : Informed(q)'
<1> SUFFICES ASSUME NEW q \in Procs PROVE Informed(q)'
  OBVIOUS
<1>0. Informed(q) /\ (proc[q].pc \in Holding => proc[q].file \in DOMAIN files)
  BY DEF Shape
<1>1. ASSUME NEW p \in Procs, Step(p), proc'[q] = proc[q] PROVE Informed(q)'
  <2>1. proc[q].pc \in Holding /\ Of(q).whole =>
          (Of(q).whole)' /\ (Of(q).pad)' = Of(q).pad
    BY <1>0, <1>1, WholeIsFinal DEF Of
  <2> QED BY <1>0, <1>1, <2>1 DEF Informed, Refused, Failed, Past, Holding
<1>2. ASSUME NEW p \in Procs, Step(p), q # p, Others(p) PROVE Informed(q)'
  BY <1>1, <1>2 DEF Others
<1>3. ASSUME NEW p \in Procs, Starts(p) PROVE proc'[p].pc \in {"unlink", "check"}
  BY <1>3 DEF Starts
<1>4. ASSUME NEW p \in Procs, Step(p), Goes(p), q = p PROVE Informed(q)'
  <2>1. CASE proc'[p].pc = "idle"
    BY <1>4, <2>1 DEF Informed, Past
  <2> DEFINE Same == /\ Standing(proc'[p]) = Standing(proc[p])
                     /\ proc'[p].file = proc[p].file
  <2>2. CASE /\ Same
             /\ proc'[p].verdicts = proc[p].verdicts /\ proc'[p].whole = proc[p].whole
             /\ proc'[p].pc \in Past
             /\ proc[p].pc \in Past \/ (proc[p].pc = "gate" /\ ~Refused(p))
    <3>1. /\ proc'[p].ignore = proc[p].ignore /\ proc'[p].reporting = proc[p].reporting
          /\ proc'[p].investigator = proc[p].investigator /\ proc'[p].cfg = proc[p].cfg
      BY <2>2 DEF Standing
    <3>2. proc[p].pc \in Holding /\ proc[p].file \in DOMAIN files
      BY <1>0, <1>4, <2>2 DEF Past, Holding
    <3>3. Of(p).whole => (Of(p).whole)' /\ (Of(p).pad)' = Of(p).pad
      BY <1>4, <2>2, <3>2, WholeIsFinal DEF Of
    <3>4. ~Refused(p)
      BY <1>0, <1>4, <2>2 DEF Informed
    <3>5. ~(Refused(p))'
      BY <2>2, <3>1, <3>4 DEF Refused, Failed
    <3>6. proc[p].whole /\ ~proc[p].reporting =>
            Of(p).whole /\ proc[p].verdicts = Check(Of(p).pad, proc[p].cfg)
      BY <1>0, <1>4, <2>2 DEF Informed
    <3>7. (proc[p].whole /\ ~proc[p].reporting =>
            Of(p).whole /\ proc[p].verdicts = Check(Of(p).pad, proc[p].cfg))'
      BY <2>2, <3>1, <3>3, <3>6
    <3> QED BY <1>4, <2>2, <3>5, <3>7 DEF Informed, Past
  <2>3. CASE /\ Same
             /\ proc[p].pc = "check" /\ proc'[p].pc = "gate"
             /\ proc'[p].verdicts = Verdicts(p) /\ proc'[p].whole = Of(p).whole
    <3>1. proc'[p].cfg = proc[p].cfg
      BY <2>3 DEF Standing
    <3>2. proc[p].file \in DOMAIN files
      BY <1>0, <1>4, <2>3 DEF Holding
    <3>3. Of(p).whole => (Of(p).whole)' /\ (Of(p).pad)' = Of(p).pad
      BY <1>4, <2>3, <3>2, WholeIsFinal DEF Of
    <3> QED BY <1>4, <2>3, <3>1, <3>3 DEF Informed, Verdicts, Past
  <2>4. CASE Same /\ proc'[p].pc = "open" /\ proc[p].reporting
    <3>1. proc'[p].reporting = proc[p].reporting
      BY <2>4 DEF Standing
    <3> QED BY <1>4, <2>4, <3>1 DEF Informed, Past
  <2> QED BY <1>4, <2>1, <2>2, <2>3, <2>4 DEF Goes
<1>5. ASSUME NEW p \in Procs, Unlinks(p) \/ OpensFor(p) \/ Loads(p), q = p
      PROVE  Informed(q)'
  <2>1. CASE Moves(p, "open", "gate")
    BY <1>0, <1>5, <2>1 DEF Moves, Standing, Informed, Past
  <2>2. CASE proc'[p].pc \in {"create", "load", "index", "measure", "assess"}
    BY <1>5, <2>2 DEF Informed, Past
  <2> QED BY <1>5, <2>1, <2>2 DEF Unlinks, OpensFor, Loads, Moves
<1>6. ASSUME NEW p \in Procs, Step(p) PROVE Informed(q)'
  <2>1. CASE proc' = proc
    BY <1>1, <1>6, <2>1
  <2>2. CASE Starts(p) /\ q = p
    BY <1>3, <2>2 DEF Informed, Past
  <2>3. CASE (Starts(p) \/ Goes(p) \/ Unlinks(p) \/ OpensFor(p) \/ Loads(p)) /\ q # p
    BY <1>2, <1>6, <2>3 DEF Starts, Goes, Unlinks, OpensFor, Loads, Moves
  <2> QED BY <1>4, <1>5, <1>6, <2>1, <2>2, <2>3, StepPads
<1>7. CASE UNCHANGED vars
  BY <1>0, <1>7 DEF vars, Informed, Of, Refused, Failed
<1> QED BY <1>6, <1>7 DEF Next

-----------------------------------------------------------------------------
(* A log that is not whole has no metrics yet, and a check without them      *)
(* never passes.                                                             *)

Measured(f) == f.whole \/ f.pad.metrics = <<>>

LEMMA MeasuredStep ==
  ASSUME Shape, Ingested, \A f \in DOMAIN files : Measured(files[f]), [Next]_vars
  PROVE  \A f \in DOMAIN files' : Measured(files'[f])
<1>1. ASSUME PadsKept PROVE \A f \in DOMAIN files' : Measured(files'[f])
  BY <1>1, NewFileFacts DEF PadsKept, Measured, Empty
<1>2. ASSUME NEW p \in Procs, Opens(p) PROVE \A f \in DOMAIN files' : Measured(files'[f])
  <2>1. Measured(NewFile)
    BY NewFileFacts DEF Measured, Empty
  <2> QED BY <1>2, <2>1 DEF Opens
<1>3. ASSUME NEW p \in Procs, Loads(p) PROVE \A f \in DOMAIN files' : Measured(files'[f])
  <2>1. PICK g : /\ Writes(p, g)
                 /\ g.whole \/ (g.whole = Of(p).whole /\ g.pad.metrics = Of(p).pad.metrics)
    BY <1>3 DEF Loads
  <2>2. Measured(g)
    BY <2>1 DEF Measured, Writes, Of
  <2> QED BY <2>1, <2>2 DEF Writes
<1>4. CASE files' = files
  BY <1>4
<1> QED BY <1>1, <1>2, <1>3, <1>4, StepPads DEF Next, vars, Starts, Keeps, Goes, Unlinks, OpensFor

LEMMA UnmeasuredIsNotOk ==
  ASSUME NEW pad, NEW cfg, pad.metrics = <<>> PROVE Worst(Check(pad, cfg)) # "ok"
<1>1. DOMAIN pad.metrics = {}
  BY EmptyIsSeq
<1>2. CASE Loaded(pad) = 0
  <2>1. Check(pad, cfg) = [events |-> "fail"]
    BY <1>2 DEF Check, Events
  <2> QED BY <2>1 DEF Worst
<1>3. CASE Loaded(pad) # 0
  <2>1. ParseErrors(pad, cfg) = "warn"
    BY <1>1 DEF ParseErrors, Recorded, Unmeasured
  <2>2. "parse_errors" \in DOMAIN Check(pad, cfg) /\ Check(pad, cfg)["parse_errors"] = "warn"
    BY <1>3, <2>1 DEF Check
  <2> HIDE DEF Check
  <2> QED BY <2>2 DEF Worst
<1> QED BY <1>2, <1>3

\* A process past its gate was warned of the log it did not find whole.
Cautious(p) ==
  /\ proc[p].pc = "open" => proc[p].whole
  /\ proc[p].pc \in {"gate"} \cup Past /\ ~proc[p].whole => Worst(proc[p].verdicts) # "ok"

LEMMA CautiousStep ==
  ASSUME Shape, \A f \in DOMAIN files : Measured(files[f]),
         \A p \in Procs : Cautious(p), [Next]_vars
  PROVE  \A q \in Procs : Cautious(q)'
<1> SUFFICES ASSUME NEW q \in Procs PROVE Cautious(q)'
  OBVIOUS
<1>1. CASE proc'[q] = proc[q]
  BY <1>1 DEF Cautious
<1>2. ASSUME NEW p \in Procs, Goes(p), q = p PROVE Cautious(q)'
  <2>1. CASE proc'[p].pc = "idle" \/ (proc'[p].pc = "open" /\ proc'[p].whole)
    BY <1>2, <2>1 DEF Cautious, Past
  <2>2. CASE /\ proc'[p].verdicts = proc[p].verdicts /\ proc'[p].whole = proc[p].whole
             /\ proc'[p].pc \in Past /\ proc[p].pc \in {"gate"} \cup Past
    BY <1>2, <2>2 DEF Cautious, Past
  <2>3. CASE /\ proc[p].pc = "check" /\ proc'[p].pc = "gate"
             /\ proc'[p].verdicts = Verdicts(p) /\ proc'[p].whole = Of(p).whole
    <3>1. Measured(Of(p))
      BY <1>2, <2>3 DEF Shape, Holding, Of
    <3>2. ~Of(p).whole => Worst(Verdicts(p)) # "ok"
      BY <3>1, UnmeasuredIsNotOk DEF Measured, Verdicts
    <3> QED BY <1>2, <2>3, <3>2 DEF Cautious
  <2> QED BY <1>2, <2>1, <2>2, <2>3 DEF Goes
<1>3. ASSUME NEW p \in Procs, Unlinks(p) \/ OpensFor(p) \/ Loads(p) \/ Starts(p), q = p
      PROVE  Cautious(q)'
  <2>1. CASE Moves(p, "open", "gate") /\ proc'[p].whole = proc[p].whole
    BY <1>3, <2>1 DEF Moves, Cautious
  <2>2. CASE proc'[p].pc \in {"unlink", "check", "create", "load", "index", "measure", "assess"}
    BY <1>3, <2>2 DEF Cautious, Past
  <2> QED BY <1>3, <2>1, <2>2 DEF Unlinks, OpensFor, Loads, Starts, Moves
<1>4. ASSUME NEW p \in Procs, Step(p) PROVE Cautious(q)'
  <2>1. CASE q = p
    BY <1>1, <1>2, <1>3, <1>4, <2>1, StepPads
  <2>2. CASE q # p
    BY <1>1, <1>4, <2>2, StepPads DEF Starts, Goes, Unlinks, OpensFor, Loads, Moves, Others
  <2> QED BY <2>1, <2>2
<1> QED BY <1>1, <1>4 DEF Next, vars

-----------------------------------------------------------------------------
(* Citations.                                                               *)

Cited(f) == \A i \in DOMAIN f.notes : Cites(f.notes[i], f.pad)

LEMMA CitesGrow ==
  ASSUME NEW f, NEW g, Grows(f, g), NEW n, Cites(n, f.pad) PROVE Cites(n, g.pad)
  BY DEF Grows, Begins, Cites

LEMMA CitedStep ==
  ASSUME Shape, Shape', Numbers, Admitted, Ingested, \A f \in DOMAIN files : Cited(files[f]),
         [Next]_vars
  PROVE  \A f \in DOMAIN files' : Cited(files'[f])
<1>1. ASSUME NEW p \in Procs, Step(p), NEW f \in DOMAIN files,
             files'[f].notes = files[f].notes
      PROVE  Cited(files'[f])
  BY <1>1, PadsGrow, CitesGrow DEF Cited
<1>2. ASSUME NEW p \in Procs, Step(p),
             QuietStep(p) \/ ClearStep(p) \/ BeginStep(p) \/ NoteStep(p),
             NEW f \in DOMAIN files'
      PROVE  Cited(files'[f])
  <2>1. CASE f \notin DOMAIN files
    BY <1>2, <2>1, NewFilesAreEmpty DEF Cited
  <2>2. CASE f \in DOMAIN files
    <3>1. CASE files'[f].notes = files[f].notes
      BY <1>1, <1>2, <2>2, <3>1
    <3>2. CASE files'[f].notes = <<>>
      BY <3>2 DEF Cited
    <3>3. CASE \E n : /\ n.run = proc[p].cmd /\ Cites(n, files[f].pad)
                      /\ files'[f].notes = Append(files[f].notes, n)
      <4>1. PICK n : Cites(n, files[f].pad) /\ files'[f].notes = Append(files[f].notes, n)
        BY <3>3
      <4>2. IsSeq(files[f].notes)
        BY <2>2 DEF Shape, IsFile
      <4>3. /\ \A i \in DOMAIN files'[f].notes :
                 i \in DOMAIN files[f].notes \/ files'[f].notes[i] = n
            /\ \A i \in DOMAIN files[f].notes : files'[f].notes[i] = files[f].notes[i]
        BY <4>1, <4>2, AppendFacts
      <4>4. \A i \in DOMAIN files'[f].notes : Cites(files'[f].notes[i], files[f].pad)
        BY <2>2, <4>1, <4>3 DEF Cited
      <4>5. Grows(files[f], files'[f])
        BY <1>2, <2>2, PadsGrow
      <4> QED BY <4>4, <4>5, CitesGrow DEF Cited
    <3> QED BY <1>2, <2>2, <3>1, <3>2, <3>3, RecordSteps
  <2> QED BY <2>1, <2>2
<1>3. ASSUME NEW p \in Procs, Step(p), LaunchStep(p) PROVE \A f \in DOMAIN files' : Cited(files'[f])
  BY <1>3 DEF LaunchStep, Launches, Keeps
<1>4. CASE UNCHANGED vars
  BY <1>4 DEF vars
<1> QED BY <1>2, <1>3, <1>4, StepKinds DEF Next

-----------------------------------------------------------------------------
(* The log an ingest carries, and the thresholds it was told, are what the   *)
(* scratchpad holds when it is measured.                                     *)

Carries(p) ==
  /\ proc[p].pc \in {"unlink", "create", "load", "index", "measure"} =>
       proc[p].log \in Logs /\ proc[p].cfg \in Configs
  /\ proc[p].pc \in {"index", "measure"} => Of(p).pad.events = proc[p].log.events

LEMMA CarriesStep ==
  ASSUME Shape, Ingested, \A p \in Procs : Carries(p), [Next]_vars
  PROVE  \A q \in Procs : Carries(q)'
<1> SUFFICES ASSUME NEW q \in Procs PROVE Carries(q)'
  OBVIOUS
<1>0. Carries(q) /\ (proc[q].pc \in Holding => proc[q].file \in DOMAIN files)
  BY DEF Shape
<1> USE DEF Holding
<1>1. ASSUME \A f \in DOMAIN files : files'[f].pad = files[f].pad, proc'[q] = proc[q]
      PROVE  Carries(q)'
  BY <1>0, <1>1 DEF Carries, Of
<1>2. ASSUME NEW p \in Procs, q = p, proc'[p].pc \in {"idle", "check", "open", "gate"} \cup Past
      PROVE  Carries(q)'
  BY <1>2 DEF Carries, Past
<1>3. ASSUME NEW p \in Procs, Starts(p) PROVE Carries(q)'
  <2>1. CASE q = p
    BY <1>3, <2>1 DEF Starts, Carries
  <2>2. CASE q # p
    BY <1>1, <1>3, <2>2 DEF Starts, Keeps, Others
  <2> QED BY <2>1, <2>2
<1>4. ASSUME NEW p \in Procs, Goes(p) PROVE Carries(q)'
  <2>1. CASE q = p
    BY <1>2, <1>4, <2>1 DEF Goes
  <2>2. CASE q # p
    BY <1>1, <1>4, <2>2 DEF Goes, Others, PadsKept
  <2> QED BY <2>1, <2>2
<1>5. ASSUME NEW p \in Procs, Unlinks(p) PROVE Carries(q)'
  <2>1. CASE q = p
    BY <1>0, <1>5, <2>1 DEF Unlinks, Moves, Placed, Standing, Carries
  <2>2. CASE q # p
    BY <1>1, <1>5, <2>2 DEF Unlinks, Moves, Others
  <2> QED BY <2>1, <2>2
<1>6. ASSUME NEW p \in Procs, OpensFor(p) PROVE Carries(q)'
  <2>1. CASE q = p /\ proc'[p].pc = "load"
    BY <1>0, <1>6, <2>1 DEF OpensFor, Moves, Standing, Carries
  <2>2. CASE q = p /\ proc'[p].pc = "gate"
    BY <1>2, <2>2
  <2>3. CASE q # p
    BY <1>1, <1>6, <2>3 DEF OpensFor, Opens, Moves, Others
  <2> QED BY <1>6, <2>1, <2>2, <2>3 DEF OpensFor, Moves
<1>7. ASSUME NEW p \in Procs, Loads(p) PROVE Carries(q)'
  <2>1. PICK g : /\ proc'[p].file = proc[p].file /\ Writes(p, g) /\ Others(p)
                 /\ proc'[p].cfg = proc[p].cfg
                 /\ \/ /\ proc[p].pc = "load" /\ proc'[p].pc = "load"
                       /\ proc'[p].log = proc[p].log
                    \/ /\ proc[p].pc = "load" /\ proc'[p].pc = "index"
                       /\ proc'[p].log = proc[p].log /\ g.pad.events = proc[p].log.events
                    \/ /\ proc[p].pc = "index" /\ proc'[p].pc = "measure"
                       /\ proc'[p].log = proc[p].log /\ g.pad.events = Of(p).pad.events
                    \/ proc[p].pc = "measure" /\ proc'[p].pc = "assess"
    BY <1>7 DEF Loads, Moves, Standing
  <2>2. CASE q = p
    <3>1. Of(q)' = g
      BY <2>1, <2>2 DEF Of, Writes
    <3> QED BY <1>0, <2>1, <2>2, <3>1 DEF Carries
  <2>3. CASE q # p
    <3>1. proc'[q] = proc[q] /\ p \in Ingesting
      BY <2>1, <2>3 DEF Others, Ingesting, Working
    <3>2. proc[q].pc \notin Working
      BY <2>3, <3>1 DEF Ingested, Alone, Ingesting
    <3> QED BY <3>1, <3>2 DEF Carries, Working
  <2> QED BY <2>2, <2>3
<1>8. CASE UNCHANGED vars
  BY <1>0, <1>8 DEF vars, Carries, Of
<1>9. CASE proc' = proc /\ PadsKept
  BY <1>1, <1>9 DEF PadsKept
<1> QED BY <1>3, <1>4, <1>5, <1>6, <1>7, <1>8, <1>9, StepPads DEF Next

-----------------------------------------------------------------------------
(* Clocks: the scan for the best shift finds the one that aligns two sources, *)
(* and the clock most of the log was written by is the one taken as right.    *)

\* One shift aligns two sources better than another.
Better(ref, other, k, best) ==
  \/ Overlap(ref, other, k) > Overlap(ref, other, best)
  \/ Overlap(ref, other, k) = Overlap(ref, other, best) /\ Distance(k) < Distance(best)

\* The better of the shift the scan has come to and the best before it.
BetterOf(ref, other, k, best) == IF k # 0 /\ Better(ref, other, k, best) THEN k ELSE best

\* What the scan has after each shift up to n, for a reach of r.
IsScan(f, ref, other, r, n) ==
  f = [k \in -r - 1 .. n |-> IF k < -r THEN 0 ELSE BetterOf(ref, other, k, f[k - 1])]

LEMMA ScanExists ==
  ASSUME NEW ref, NEW other, NEW r \in Nat PROVE \E f : IsScan(f, ref, other, r, r)
<1> DEFINE T == {n \in Nat : \E f : IsScan(f, ref, other, r, n - r - 1)}
<1>1. 0 \in T
  <2> DEFINE f == [k \in -r - 1 .. 0 - r - 1 |-> 0]
  <2>1. IsScan(f, ref, other, r, 0 - r - 1)
    BY DEF IsScan
  <2> QED BY <2>1
<1>2. ASSUME NEW m \in T PROVE m + 1 \in T
  <2> DEFINE n == m - r - 1
  <2>1. m \in Nat /\ n \in Int /\ n >= -r - 1 /\ m + 1 - r - 1 = n + 1
    OBVIOUS
  <2>2. PICK f :
          f = [k \in -r - 1 .. n |-> IF k < -r THEN 0 ELSE BetterOf(ref, other, k, f[k - 1])]
    BY <1>2 DEF IsScan
  <2> HIDE DEF n
  <2> DEFINE last == BetterOf(ref, other, n + 1, f[n])
             g == [k \in -r - 1 .. n + 1 |-> IF k = n + 1 THEN last ELSE f[k]]
  <2>3. ASSUME NEW k \in -r - 1 .. n + 1
        PROVE  g[k] = IF k < -r THEN 0 ELSE BetterOf(ref, other, k, g[k - 1])
    <3>1. CASE k = n + 1
      <4>1. ~(k < -r) /\ k - 1 = n /\ n \in -r - 1 .. n + 1 /\ n # n + 1
        BY <2>1, <3>1
      <4>2. g[n] = f[n] /\ g[k] = last
        BY <3>1, <4>1
      <4> QED BY <3>1, <4>1, <4>2
    <3>2. CASE k # n + 1
      <4>1. k \in -r - 1 .. n /\ g[k] = f[k]
        BY <2>1, <3>2
      <4>2. CASE k < -r
        BY <2>2, <4>1, <4>2
      <4>3. CASE ~(k < -r)
        <5>1. k - 1 \in -r - 1 .. n + 1 /\ k - 1 # n + 1
          BY <2>1, <3>2, <4>1, <4>3
        <5>2. g[k - 1] = f[k - 1]
          BY <5>1
        <5>3. f[k] = BetterOf(ref, other, k, f[k - 1])
          BY <2>2, <4>1, <4>3
        <5> QED BY <4>1, <4>3, <5>2, <5>3
      <4> QED BY <4>2, <4>3
    <3> QED BY <3>1, <3>2
  <2>4. g = [k \in -r - 1 .. n + 1 |-> g[k]]
    OBVIOUS
  <2> HIDE DEF g
  <2>5. g = [k \in -r - 1 .. n + 1 |-> IF k < -r THEN 0 ELSE BetterOf(ref, other, k, g[k - 1])]
    BY <2>3, <2>4
  <2>6. IsScan(g, ref, other, r, m + 1 - r - 1) /\ m + 1 \in Nat
    BY <2>1, <2>5 DEF IsScan
  <2> QED BY <2>6
<1>3. T = Nat
  <2> HIDE DEF T
  <2>1. T \in SUBSET Nat
    BY DEF T
  <2> QED BY <1>1, <1>2, <2>1, SetInduction
<1> DEFINE m == r + r + 1
<1>4. m \in Nat /\ m - r - 1 = r
  OBVIOUS
<1> HIDE DEF m
<1>5. PICK f : IsScan(f, ref, other, r, m - r - 1)
  BY <1>3, <1>4
<1> QED BY <1>4, <1>5

\* What the scan of a whole reach comes to: the shift no other is better than.
LEMMA ScanFindsBest ==
  ASSUME NEW ref, NEW other, NEW r \in Nat, NEW f, IsScan(f, ref, other, r, r),
         \A k \in -r .. r : Overlap(ref, other, k) \in Nat
  PROVE  f[r] \in -r .. r /\ \A k \in -r .. r : ~Better(ref, other, k, f[r])
<1> DEFINE Unbeaten(b, n) == /\ b \in -r .. r /\ ~Better(ref, other, 0, b)
                         /\ \A k \in -r .. r : k <= n => ~Better(ref, other, k, b)
           T == {m \in Nat : m <= r + r + 1 => Unbeaten(f[m - r - 1], m - r - 1)}
<1>1. /\ f[-r - 1] = 0
      /\ \A k \in -r .. r : f[k] = BetterOf(ref, other, k, f[k - 1])
  BY DEF IsScan
<1>2. \A k \in -r .. r : Distance(k) \in Nat
  BY DEF Distance
<1>3. \A k \in -r .. r : ~Better(ref, other, k, k)
  BY <1>2 DEF Better
<1>4. 0 \in T
  <2>1. 0 - r - 1 = -r - 1 /\ 0 \in -r .. r
    OBVIOUS
  <2>2. \A k \in -r .. r : ~(k <= -r - 1)
    OBVIOUS
  <2>3. Unbeaten(0, -r - 1)
    BY <1>3, <2>1, <2>2
  <2> QED BY <1>1, <2>1, <2>3
<1>5. ASSUME NEW m \in T PROVE m + 1 \in T
  <2> SUFFICES ASSUME m + 1 <= r + r + 1 PROVE Unbeaten(f[m + 1 - r - 1], m + 1 - r - 1)
    OBVIOUS
  <2> DEFINE n == m - r
             b == f[n - 1]
  <2>1. m \in Nat /\ n \in -r .. r /\ m + 1 - r - 1 = n /\ m - r - 1 = n - 1 /\ m <= r + r + 1
    OBVIOUS
  <2>2. Unbeaten(b, n - 1) /\ f[n] = BetterOf(ref, other, n, b)
    BY <1>1, <2>1
  <2> HIDE DEF n, b
  <2>3. \A k \in -r .. r : k <= n <=> k <= n - 1 \/ k = n
    BY <2>1
  <2>4. CASE n # 0 /\ Better(ref, other, n, b)
    <3>1. f[n] = n
      BY <2>2, <2>4 DEF BetterOf
    <3>2. \A k \in -r .. r : ~Better(ref, other, k, b) => ~Better(ref, other, k, n)
      BY <1>2, <2>1, <2>2, <2>4 DEF Better
    <3>3. 0 \in -r .. r
      OBVIOUS
    <3> QED BY <1>3, <2>1, <2>2, <2>3, <3>1, <3>2, <3>3
  <2>5. CASE ~(n # 0 /\ Better(ref, other, n, b))
    <3>1. f[n] = b /\ ~Better(ref, other, n, b)
      BY <2>2, <2>5 DEF BetterOf
    <3> QED BY <2>1, <2>2, <2>3, <3>1
  <2> QED BY <2>4, <2>5
<1>6. T = Nat
  <2> HIDE DEF T
  <2>1. T \in SUBSET Nat
    BY DEF T
  <2> QED BY <1>4, <1>5, <2>1, SetInduction
<1> DEFINE m == r + r + 1
<1>7. m \in Nat /\ m - r - 1 = r /\ m <= r + r + 1
  OBVIOUS
<1> HIDE DEF m
<1>8. Unbeaten(f[m - r - 1], m - r - 1)
  BY <1>6, <1>7
<1>9. Unbeaten(f[r], r)
  BY <1>7, <1>8
<1> QED BY <1>9

\* Of two sources whose lines align as their clocks say, that is the shift it finds.
LEMMA AlignedIsFound ==
  ASSUME NEW ref, NEW other, NEW cfg, NEW d, Reach(cfg) \in Nat, Aligned(ref, other, d, cfg),
         \A k \in -Reach(cfg) .. Reach(cfg) : Overlap(ref, other, k) \in Nat
  PROVE  BestShift(ref, other, cfg) = d
<1> DEFINE r == Reach(cfg)
           upto == CHOOSE f : IsScan(f, ref, other, r, r)
<1>1. IsScan(upto, ref, other, r, r)
  BY ScanExists
<1>2. BestShift(ref, other, cfg) = upto[r]
  BY DEF BestShift, IsScan, BetterOf, Better
<1>3. upto[r] \in -r .. r /\ \A k \in -r .. r : ~Better(ref, other, k, upto[r])
  BY <1>1, ScanFindsBest
<1> HIDE DEF upto
<1>4. \A k \in -r .. r : k # d => Better(ref, other, d, k)
  BY DEF Aligned, Better
<1>5. d \in -r .. r
  BY DEF Aligned
<1> QED BY <1>2, <1>3, <1>4, <1>5

\* A source that comes before another: busier, or the later name of two as busy.
Before(counts, s, t) == counts[s] > counts[t] \/ (counts[s] = counts[t] /\ s > t)

Leads(counts, s, C) == s \in C /\ \A t \in C \ {s} : Before(counts, s, t)

\* Of finitely many sources there is a busiest.
LEMMA BusiestExists ==
  ASSUME NEW C \in SUBSET Int, IsFiniteSet(C), C # {}, NEW counts, \A s \in C : counts[s] \in Nat
  PROVE  Leads(counts, Busiest(C, counts), C)
<1> DEFINE Ranked(D) == \E s : Leads(counts, s, D)
           T == {n \in Nat : \A D \in SUBSET C :
                   IsFiniteSet(D) /\ D # {} /\ Cardinality(D) = n => Ranked(D)}
<1>1. 0 \in T
  BY FS_EmptySet
<1>2. ASSUME NEW n \in T PROVE n + 1 \in T
  <2> SUFFICES ASSUME NEW D \in SUBSET C, IsFiniteSet(D), D # {}, Cardinality(D) = n + 1
               PROVE  Ranked(D)
    OBVIOUS
  <2>1. PICK x : x \in D
    OBVIOUS
  <2> DEFINE E == D \ {x}
  <2>2. E \in SUBSET C /\ IsFiniteSet(E) /\ Cardinality(E) = n
    <3>1. /\ IsFiniteSet(E)
          /\ Cardinality(E) = IF x \in D THEN Cardinality(D) - 1 ELSE Cardinality(D)
      BY FS_RemoveElement
    <3>2. n \in Nat /\ Cardinality(D) = n + 1
      OBVIOUS
    <3> HIDE DEF T
    <3>3. Cardinality(E) = n
      BY <2>1, <3>1, <3>2
    <3> QED BY <3>1, <3>3
  <2>3. CASE E = {}
    BY <2>1, <2>3 DEF Leads
  <2>4. CASE E # {}
    <3>1. PICK s : Leads(counts, s, E)
      BY <1>2, <2>2, <2>4
    <3>2. /\ s \in D /\ s # x /\ s \in Int /\ x \in Int
          /\ counts[s] \in Nat /\ counts[x] \in Nat
          /\ \A t \in D : t \in Int /\ counts[t] \in Nat
      BY <2>1, <2>2, <3>1 DEF Leads
    <3>3. \A t \in D \ {x} : t # s => Before(counts, s, t)
      BY <3>1 DEF Leads
    <3> HIDE DEF E
    <3>4. CASE Before(counts, s, x)
      BY <3>2, <3>3, <3>4 DEF Leads
    <3>5. CASE Before(counts, x, s)
      <4>1. ASSUME NEW t \in D \ {x} PROVE Before(counts, x, t)
        <5>1. CASE t = s
          BY <3>5, <5>1
        <5>2. CASE t # s
          BY <3>2, <3>3, <3>5, <5>2 DEF Before
        <5> QED BY <5>1, <5>2
      <4> QED BY <2>1, <4>1 DEF Leads
    <3> QED BY <3>2, <3>4, <3>5 DEF Before
  <2> QED BY <2>3, <2>4
<1>3. T = Nat
  <2> HIDE DEF T
  <2>1. T \in SUBSET Nat
    BY DEF T
  <2> QED BY <1>1, <1>2, <2>1, SetInduction
<1>4. Cardinality(C) \in Nat
  BY FS_CardinalityType
<1>5. Ranked(C)
  BY <1>3, <1>4
<1>6. PICK s \in C : \A t \in C \ {s} : Before(counts, s, t)
  BY <1>5 DEF Leads
<1>7. Busiest(C, counts) = CHOOSE u \in C : \A t \in C \ {u} : Before(counts, u, t)
  BY DEF Busiest, Before
<1> QED BY <1>6, <1>7 DEF Leads

LEMMA ImageIsFinite ==
  ASSUME NEW f, IsFiniteSet(DOMAIN f) PROVE IsFiniteSet({f[x] : x \in DOMAIN f})
<1> DEFINE image == {f[x] : x \in DOMAIN f}
           g == [x \in DOMAIN f |-> f[x]]
<1>1. g \in Surjection(DOMAIN f, image)
  BY DEF Surjection
<1> HIDE DEF g, image
<1> QED BY <1>1, FS_Surjection DEF image

\* What is counted of a log is finite.
LEMMA LogIsFinite ==
  ASSUME NEW log, NEW cfg, IsFiniteSet(DOMAIN log.events)
  PROVE  /\ \A S : Held(log, S) \in Nat
         /\ Held(log, {}) = 0
         /\ IsFiniteSet(Comparable(log, cfg))
         /\ DOMAIN Slots(log, cfg) = Sources(log) /\ Comparable(log, cfg) \subseteq Sources(log)
         /\ \A s \in Sources(log) : IsFiniteSet(Slots(log, cfg)[s])
         /\ \A s \in Sources(log) : Activity(log)[s] = Held(log, {s})
<1>1. ASSUME NEW S PROVE Held(log, S) \in Nat
  <2> DEFINE rows == {i \in DOMAIN log.events : log.events[i].source \in S}
  <2>1. IsFiniteSet(rows)
    BY FS_Subset
  <2> QED BY <2>1, FS_CardinalityType DEF Held
<1>2. Held(log, {}) = 0
  <2>1. {i \in DOMAIN log.events : log.events[i].source \in {}} = {}
    OBVIOUS
  <2> QED BY <2>1, FS_EmptySet DEF Held
<1>3. IsFiniteSet(Sources(log))
  <2> DEFINE f == [i \in DOMAIN log.events |-> log.events[i].source]
  <2>1. Sources(log) = {f[i] : i \in DOMAIN f}
    BY DEF Sources
  <2>2. DOMAIN f = DOMAIN log.events
    OBVIOUS
  <2> HIDE DEF f
  <2> QED BY <2>1, <2>2, ImageIsFinite
<1>4. IsFiniteSet(Comparable(log, cfg)) /\ Comparable(log, cfg) \subseteq Sources(log)
  BY <1>3, FS_Subset DEF Comparable
<1>5. ASSUME NEW s \in Sources(log) PROVE IsFiniteSet(Slots(log, cfg)[s])
  <2> DEFINE rows == {j \in DOMAIN log.events : log.events[j].source = s}
             f == [j \in rows |-> log.events[j].minute \div cfg.skew_step]
  <2>1. IsFiniteSet(rows)
    BY FS_Subset
  <2>2. Slots(log, cfg)[s] =
          {e.minute \div cfg.skew_step : e \in {log.events[i] : i \in rows}}
    BY DEF Slots
  <2>3. Slots(log, cfg)[s] = {f[j] : j \in DOMAIN f}
    BY <2>2
  <2>4. DOMAIN f = rows
    OBVIOUS
  <2> HIDE DEF f, rows
  <2> QED BY <2>1, <2>3, <2>4, ImageIsFinite
<1> QED BY <1>1, <1>2, <1>4, <1>5 DEF Slots, Activity

LEMMA OverlapIsNumber ==
  ASSUME NEW ref, NEW other, IsFiniteSet(other), NEW k PROVE Overlap(ref, other, k) \in Nat
<1>1. IsFiniteSet({s \in other : s + k \in ref})
  BY FS_Subset
<1> QED BY <1>1, FS_CardinalityType DEF Overlap

\* Two records of the same events have the same clocks.
LEMMA ClocksOfEvents ==
  ASSUME NEW pad, NEW log, NEW cfg, pad.events = log.events
  PROVE  /\ Sources(pad) = Sources(log) /\ Activity(pad) = Activity(log)
         /\ Slots(pad, cfg) = Slots(log, cfg) /\ Comparable(pad, cfg) = Comparable(log, cfg)
         /\ \A S : Held(pad, S) = Held(log, S)
<1>1. Sources(pad) = Sources(log) /\ \A S : Held(pad, S) = Held(log, S)
  BY DEF Sources, Held
<1>2. Activity(pad) = Activity(log)
  BY <1>1 DEF Activity
<1>3. Slots(pad, cfg) = Slots(log, cfg)
  BY <1>1 DEF Slots
<1>4. Comparable(pad, cfg) = Comparable(log, cfg)
  BY <1>1, <1>2 DEF Comparable
<1> QED BY <1>1, <1>2, <1>3, <1>4

\* The clocks of a log as WellClocked states them, source by source.
Ahead(ahead, log, cfg) ==
  LET comparable == Comparable(log, cfg)
      slots == Slots(log, cfg)
      reach == -Reach(cfg) .. Reach(cfg)
      Clocked(d) == {s \in comparable : ahead[s] = d}
  IN  /\ ahead \in [comparable -> reach]
      /\ \A s, t \in comparable : s # t =>
           LET d == ahead[s] - ahead[t]
           IN  /\ Aligned(slots[s], slots[t], d, cfg)
               /\ d # 0 => Significant(slots[s], slots[t], d, cfg)
      /\ \A d \in reach \ {0} : Clocked(d) # {} => Held(log, Clocked(d)) < Held(log, Clocked(0))
      /\ log.shifted = {[source |-> s, shift |-> -ahead[s]] : s \in comparable \ Clocked(0)}

\* What the scan finds between two sources, told by their clocks.
Told(ahead, log, cfg, s, t) ==
  LET slots == Slots(log, cfg)
  IN  /\ BestShift(slots[s], slots[t], cfg) = ahead[s] - ahead[t]
      /\ ahead[s] - ahead[t] # 0 => Significant(slots[s], slots[t], ahead[s] - ahead[t], cfg)

LEMMA ShiftIsFound ==
  ASSUME NEW log, NEW cfg, IsFiniteSet(DOMAIN log.events), Reach(cfg) \in Nat,
         NEW ahead, Ahead(ahead, log, cfg),
         NEW s \in Comparable(log, cfg), NEW t \in Comparable(log, cfg), s # t
  PROVE  Told(ahead, log, cfg, s, t)
<1> DEFINE slots == Slots(log, cfg)
           d == ahead[s] - ahead[t]
<1>1. Aligned(slots[s], slots[t], d, cfg) /\ (d # 0 => Significant(slots[s], slots[t], d, cfg))
  BY DEF Ahead
<1>2. IsFiniteSet(slots[t])
  BY LogIsFinite
<1> HIDE DEF slots, d
<1>3. \A k \in -Reach(cfg) .. Reach(cfg) : Overlap(slots[s], slots[t], k) \in Nat
  BY <1>2, OverlapIsNumber
<1>4. BestShift(slots[s], slots[t], cfg) = d
  BY <1>1, <1>3, AlignedIsFound
<1> QED BY <1>1, <1>4 DEF Told, slots, d

\* A comparable source that comes before the others.
LEMMA BusiestOf ==
  ASSUME NEW log, NEW cfg, IsFiniteSet(DOMAIN log.events), Comparable(log, cfg) \subseteq Int,
         NEW C \in SUBSET Comparable(log, cfg), C # {}
  PROVE  Busiest(C, Activity(log)) \in C
<1>1. IsFiniteSet(Comparable(log, cfg)) /\ Comparable(log, cfg) \subseteq Sources(log)
  BY LogIsFinite
<1>2. IsFiniteSet(C)
  BY <1>1, FS_Subset
<1>3. ASSUME NEW s \in C PROVE Activity(log)[s] \in Nat
  BY <1>1, LogIsFinite
<1>4. C \in SUBSET Int
  OBVIOUS
<1>5. Leads(Activity(log), Busiest(C, Activity(log)), C)
  BY <1>2, <1>3, <1>4, BusiestExists
<1> QED BY <1>5 DEF Leads

\* Where the clocks of a log can be told from its lines, the check finds which sources
\* are off the time of most of the log, and by how much.
LEMMA SkewsAreFound ==
  ASSUME NEW pad, NEW log, NEW cfg, pad.events = log.events, IsFiniteSet(DOMAIN log.events),
         WellClocked(log, cfg)
  PROVE  UNION {found.skews : found \in SkewReports(pad, cfg)} = log.shifted
<1> DEFINE comparable == Comparable(log, cfg)
           counts == Activity(log)
           slots == Slots(log, cfg)
           reach == -Reach(cfg) .. Reach(cfg)
           pivot == Busiest(comparable, counts)
           clock == Clocks(comparable, counts, slots, cfg)
<1>1. /\ Comparable(pad, cfg) = comparable /\ Activity(pad) = counts
      /\ Slots(pad, cfg) = slots /\ \A S : Held(pad, S) = Held(log, S)
  BY ClocksOfEvents
<1>2. comparable \subseteq Int /\ Reach(cfg) \in Nat
  BY DEF WellClocked
<1>3. IsFiniteSet(comparable) /\ Cardinality(comparable) \in Nat
  BY LogIsFinite, FS_CardinalityType
<1>4. CASE Cardinality(comparable) < 2
  <2>1. log.shifted = {}
    BY <1>4 DEF WellClocked
  <2>2. SkewReports(pad, cfg) = {}
    BY <1>1, <1>4 DEF SkewReports
  <2> QED BY <2>1, <2>2
<1>5. CASE Cardinality(comparable) >= 2
  <2>1. PICK ahead : Ahead(ahead, log, cfg)
    BY <1>5 DEF WellClocked, Ahead
  <2> DEFINE Clocked(d) == {s \in comparable : ahead[s] = d}
  <2>2. /\ \A s \in comparable : ahead[s] \in reach /\ ahead[s] \in Int
        /\ \A d \in reach \ {0} : Clocked(d) # {} =>
             Held(log, Clocked(d)) < Held(log, Clocked(0))
        /\ log.shifted = {[source |-> s, shift |-> -ahead[s]] : s \in comparable \ Clocked(0)}
    BY <1>2, <2>1 DEF Ahead
  <2>3. comparable # {}
    BY <1>5, FS_EmptySet
  <2>4. pivot \in comparable
    BY <1>2, <2>3, BusiestOf
  <2>5. ASSUME NEW s \in comparable, NEW t \in comparable, s # t
        PROVE  /\ BestShift(slots[s], slots[t], cfg) = ahead[s] - ahead[t]
               /\ ahead[s] # ahead[t] =>
                    Significant(slots[s], slots[t], ahead[s] - ahead[t], cfg)
    <3>1. ahead[s] # ahead[t] => ahead[s] - ahead[t] # 0
      BY <2>2
    <3>2. /\ BestShift(slots[s], slots[t], cfg) = ahead[s] - ahead[t]
          /\ ahead[s] - ahead[t] # 0 =>
               Significant(slots[s], slots[t], ahead[s] - ahead[t], cfg)
      <4>1. Told(ahead, log, cfg, s, t)
        BY <1>2, <2>1, <2>5, ShiftIsFound
      <4> QED BY <4>1 DEF Told
    <3> QED BY <3>1, <3>2
  <2> DEFINE c == ahead[pivot]
  \* Against the busiest source, every source's clock is found.
  <2>6. DOMAIN clock = comparable /\ \A s \in comparable : clock[s] = c - ahead[s]
    <3>1. clock = [s \in comparable |->
                     LET shift == BestShift(slots[pivot], slots[s], cfg)
                     IN  IF s # pivot /\ Significant(slots[pivot], slots[s], shift, cfg)
                         THEN shift ELSE 0]
      BY DEF Clocks
    <3> HIDE DEF clock, pivot
    <3>2. ASSUME NEW s \in comparable PROVE clock[s] = c - ahead[s]
      <4>1. c \in Int /\ ahead[s] \in Int
        BY <2>2, <2>4
      <4>2. CASE s = pivot
        BY <3>1, <4>1, <4>2
      <4>3. CASE s # pivot /\ ahead[s] = c
        BY <2>4, <2>5, <3>1, <4>1, <4>3
      <4>4. CASE s # pivot /\ ahead[s] # c
        BY <2>4, <2>5, <3>1, <4>1, <4>4
      <4> QED BY <4>2, <4>3, <4>4
    <3> QED BY <3>1, <3>2
  <2> HIDE DEF clock
  <2>7. c \in Int /\ c \in reach
    BY <2>2, <2>4
  <2> HIDE DEF c, pivot
  <2>8. \A d \in Int : {s \in DOMAIN clock : clock[s] = d} = Clocked(c - d)
    BY <2>2, <2>6, <2>7
  <2>9. 0 \in reach
    BY <1>2
  \* Some source is on time.
  <2>10. Clocked(0) # {}
    <3>1. PICK s \in comparable : TRUE
      BY <2>3
    <3>2. CASE ahead[s] = 0
      BY <3>2
    <3>3. CASE ahead[s] # 0
      <4>1. Clocked(ahead[s]) # {} /\ ahead[s] \in reach \ {0}
        BY <2>2, <3>3
      <4>2. Held(log, Clocked(ahead[s])) < Held(log, Clocked(0))
        BY <2>2, <4>1
      <4>3. Held(log, {}) = 0 /\ Held(log, Clocked(ahead[s])) \in Nat
        BY LogIsFinite
      <4> QED BY <4>2, <4>3
    <3> QED BY <3>2, <3>3
  \* The clock most of the log was written by is the time.
  <2>11. Consensuses(clock, pad) = {c}
    <3> DEFINE held == {clock[s] : s \in DOMAIN clock}
               weight == [d \in held |-> Held(pad, {s \in DOMAIN clock : clock[s] = d})]
               Heavier(d, e) == weight[d] > weight[e]
                                \/ (weight[d] = weight[e] /\ Distance(d) < Distance(e))
    <3>1. Consensuses(clock, pad) = {d \in held : \A e \in held : ~Heavier(e, d)}
      BY DEF Consensuses
    <3>2. ASSUME NEW d \in held
          PROVE  d \in Int /\ c - d \in reach /\ weight[d] = Held(log, Clocked(c - d))
                 /\ Clocked(c - d) # {} /\ weight[d] \in Nat
      <4>1. PICK s \in comparable : d = c - ahead[s]
        BY <2>6
      <4>2. d \in Int /\ c - d = ahead[s]
        BY <2>2, <2>7, <4>1
      <4>3. {t \in DOMAIN clock : clock[t] = d} = Clocked(c - d)
        BY <2>8, <4>2
      <4>4. weight[d] = Held(log, Clocked(c - d))
        BY <1>1, <4>3
      <4>5. Held(log, Clocked(c - d)) \in Nat
        BY LogIsFinite
      <4> QED BY <2>2, <4>2, <4>4, <4>5
    <3>3. c \in held
      <4>1. PICK s \in comparable : ahead[s] = 0
        BY <2>10
      <4> QED BY <2>6, <2>7, <4>1
    <3>4. weight[c] = Held(log, Clocked(0)) /\ weight[c] \in Nat
      <4>1. c - c = 0
        BY <2>7
      <4> QED BY <3>2, <3>3, <4>1
    <3>5. ASSUME NEW d \in held, d # c PROVE weight[d] < weight[c]
      <4>1. c - d \in reach \ {0} /\ Clocked(c - d) # {} /\ weight[d] = Held(log, Clocked(c - d))
        <5>1. d \in Int /\ c - d \in reach
          BY <3>2
        <5>2. c - d # 0
          BY <2>7, <3>5, <5>1
        <5> QED BY <3>2, <5>1, <5>2
      <4> QED BY <2>2, <3>4, <4>1
    <3> HIDE DEF held, weight
    <3>6. \A d \in held : weight[d] \in Nat
      BY <3>2
    <3>7. ASSUME NEW e \in held PROVE ~Heavier(e, c)
      <4>1. Distance(c) \in Int
        BY <2>7 DEF Distance
      <4>2. CASE e = c
        BY <3>4, <4>1, <4>2
      <4>3. CASE e # c
        BY <3>4, <3>5, <3>6, <4>3
      <4> QED BY <4>2, <4>3
    <3>8. \A d \in held : d # c => Heavier(c, d)
      BY <3>5, <3>6, <3>4
    <3> QED BY <3>1, <3>3, <3>7, <3>8
  <2>12. SkewReports(pad, cfg) = {FindSkews(pad, cfg, c)}
    <3>1. ~(Cardinality(comparable) < 2)
      BY <1>3, <1>5
    <3>2. SkewReports(pad, cfg) = {FindSkews(pad, cfg, d) : d \in Consensuses(clock, pad)}
      BY <1>1, <3>1 DEF SkewReports, clock
    <3> QED BY <2>11, <3>2
  \* Anchored there, what is shifted is what is off the time.
  <2> DEFINE anchor == Busiest({s \in comparable : clock[s] = c}, counts)
             Shift(s) == BestShift(slots[anchor], slots[s], cfg)
  <2>13. {s \in comparable : clock[s] = c} = Clocked(0)
    BY <2>2, <2>6, <2>7
  <2>14. anchor \in comparable /\ ahead[anchor] = 0
    <3>1. Clocked(0) \in SUBSET comparable
      OBVIOUS
    <3>2. Busiest(Clocked(0), counts) \in Clocked(0)
      BY <1>2, <2>10, <3>1, BusiestOf
    <3> QED BY <2>13, <3>2
  <2>15. FindSkews(pad, cfg, c).skews =
           {[source |-> s, shift |-> Shift(s)] :
              s \in {t \in comparable :
                       /\ clock[t] # c
                       /\ Significant(slots[anchor], slots[t], Shift(t), cfg)}}
    BY <1>1 DEF FindSkews, clock
  <2> HIDE DEF anchor
  <2>16. ASSUME NEW s \in comparable \ Clocked(0)
         PROVE  Shift(s) = -ahead[s] /\ Significant(slots[anchor], slots[s], Shift(s), cfg)
    <3>1. s # anchor /\ ahead[anchor] # ahead[s] /\ ahead[s] \in Int
      BY <2>2, <2>14
    <3>2. Shift(s) = ahead[anchor] - ahead[s]
      BY <2>5, <2>14, <3>1
    <3>3. ahead[anchor] - ahead[s] = -ahead[s]
      BY <2>14, <3>1
    <3>4. Significant(slots[anchor], slots[s], ahead[anchor] - ahead[s], cfg)
      BY <2>5, <2>14, <3>1
    <3> QED BY <3>2, <3>3, <3>4
  <2>17. {t \in comparable : /\ clock[t] # c
                             /\ Significant(slots[anchor], slots[t], Shift(t), cfg)} =
           comparable \ Clocked(0)
    BY <2>13, <2>16
  <2>18. FindSkews(pad, cfg, c).skews = log.shifted
    BY <2>2, <2>15, <2>16, <2>17
  <2> QED BY <2>12, <2>18
<1> QED BY <1>3, <1>4, <1>5

-----------------------------------------------------------------------------
(* What a file says of its log: the verdicts of every check recorded of it,  *)
(* each over the ones before.                                               *)

Checks ==
  {"events", "timestamps", "timezones", "parse_errors", "template_coverage", "template_count",
   "dominant_template", "split_templates", "unmasked_ids", "over_merged", "hidden_failures",
   "multiline"}

\* A check of an empty log has one verdict, and it fails; any other has them all.
IsVerdicts(v) == DOMAIN v \subseteq Checks /\ DOMAIN v # {}
                 /\ (DOMAIN v = Checks \/ Worst(v) = "fail")

LEMMA CheckIsVerdicts == ASSUME NEW pad, NEW cfg PROVE IsVerdicts(Check(pad, cfg))
<1>1. CASE Loaded(pad) = 0
  <2>1. Check(pad, cfg) = [events |-> "fail"]
    BY <1>1 DEF Check, Events
  <2> QED BY <2>1 DEF IsVerdicts, Worst, Checks
<1>2. CASE Loaded(pad) # 0
  <2>1. DOMAIN Check(pad, cfg) = Checks
    BY <1>2 DEF Check, Checks
  <2>2. Checks # {}
    BY DEF Checks
  <2> QED BY <2>1, <2>2 DEF IsVerdicts
<1> QED BY <1>1, <1>2

\* Recorded over whatever was said, a check's verdicts decide the worst.
LEMMA UpsertedKeepsWorst ==
  ASSUME NEW said, DOMAIN said \subseteq Checks, NEW v, IsVerdicts(v)
  PROVE  DOMAIN Upserted(said, v) \subseteq Checks /\ Worst(Upserted(said, v)) = Worst(v)
<1> DEFINE now == Upserted(said, v)
<1>1. /\ DOMAIN now = DOMAIN said \cup DOMAIN v
      /\ \A c \in DOMAIN v : now[c] = v[c]
  BY DEF Upserted
<1>2. DOMAIN now \subseteq Checks
  BY <1>1 DEF IsVerdicts
<1>3. DOMAIN v = Checks \/ Worst(v) = "fail"
  BY DEF IsVerdicts
<1> HIDE DEF now
<1>4. CASE DOMAIN v = Checks
  <2>1. DOMAIN now = DOMAIN v
    BY <1>1, <1>2, <1>4
  <2> QED BY <1>1, <1>2, <2>1 DEF Worst, now
<1>5. CASE Worst(v) = "fail"
  <2>1. PICK c \in DOMAIN v : v[c] = "fail"
    BY <1>5 DEF Worst
  <2>2. c \in DOMAIN now /\ now[c] = "fail"
    BY <1>1, <2>1
  <2>3. Worst(now) = "fail"
    BY <2>2 DEF Worst
  <2> QED BY <1>2, <1>5, <2>3 DEF now
<1> QED BY <1>3, <1>4, <1>5

SaidKept ==
  /\ DOMAIN files \subseteq DOMAIN files'
  /\ \A f \in DOMAIN files : files'[f].said = files[f].said /\ files'[f].status = files[f].status
  /\ \A f \in DOMAIN files' \ DOMAIN files : files'[f] = NewFile

\* A check's verdicts, recorded of the file a process has open.
Records(p, v) ==
  \E g : Writes(p, g) /\ g.said = Upserted(Of(p).said, v) /\ g.status = Worst(v)

\* The verdicts a process goes on with are those it had, or what it found.
Carried(p) ==
  proc'[p].pc \in {"open", "gate"} =>
    \/ proc'[p].verdicts = Verdicts(p)
    \/ proc[p].pc = "open" /\ proc'[p].verdicts = proc[p].verdicts

Saying(p) ==
  /\ Others(p) /\ Carried(p)
  /\ \/ SaidKept \/ Records(p, Verdicts(p))
     \/ proc[p].pc = "gate" /\ Records(p, proc[p].verdicts)

LEMMA WriteKeepsSaid ==
  ASSUME NEW p \in Procs, NEW g, Writes(p, g), g.said = Of(p).said, g.status = Of(p).status
  PROVE  SaidKept
  BY DEF Writes, SaidKept, Of

LEMMA SameFilesKeepSaid == files' = files => SaidKept
  BY DEF SaidKept

LEMMA OpenKeepsSaid == ASSUME NEW p \in Procs, Opens(p) PROVE SaidKept
  BY DEF Opens, SaidKept

\* A launch says nothing.
LEMMA LaunchSays ==
  ASSUME Shape, NEW p \in Procs, NEW pc \in {"unlink", "check"}, NEW task, NEW parts \in {1, 2},
         Launch(p, pc, task, parts)
  PROVE  Saying(p)
<1>1. Launches(p, pc, task)
  BY LaunchFacts
<1> QED BY <1>1, SameFilesKeepSaid DEF Launches, Keeps, Saying, Carried

\* Nor does a step that writes something else and goes on past the gate, or to an
\* ingest's next step, or ends.
LEMMA WriteSays ==
  ASSUME Shape, NEW p \in Procs, proc[p].pc \in Holding, NEW g, Write(p, g),
         g.said = Of(p).said, g.status = Of(p).status, Others(p),
         proc'[p].pc \notin {"open", "gate"}
  PROVE  Saying(p)
<1>1. Writes(p, g)
  BY WriteFacts
<1> QED BY <1>1, WriteKeepsSaid DEF Saying, Carried

LEMMA StepSays == ASSUME Shape, NEW p \in Procs, Step(p) PROVE Saying(p)
<1> USE DEF Holding
<1>1. CASE StartIngest(p)
  BY <1>1, LaunchSays DEF StartIngest
<1>2. CASE StartRun(p)
  BY <1>2, LaunchSays DEF StartRun
<1>3. CASE StartInvestigate(p)
  BY <1>3, LaunchSays DEF StartInvestigate
<1>4. CASE StartHealth(p)
  BY <1>4, LaunchSays DEF StartHealth
<1>5. CASE Unlink(p)
  BY <1>5, GotoFacts, SameFilesKeepSaid DEF Unlink, Saying, Carried, Moves
<1>6. CASE Create(p)
  BY <1>6, OpenFacts, OpenKeepsSaid DEF Create, Saying, Carried, Moves
<1>7. CASE RunOpens(p)
  BY <1>7, OpenFacts, OpenKeepsSaid DEF RunOpens, Saying, Carried, Moves
<1>8. CASE Load(p)
  <2> DEFINE log == proc[p].log
             half == SubSeq(log.events, 1, Len(log.events) \div 2)
             complete == Of(p).pad.events = half
             events == IF complete THEN log.events ELSE half
             to == IF complete THEN "index" ELSE "load"
             g == [Of(p) EXCEPT !.pad.events = events]
  <2>1. proc[p].pc = "load" /\ Goto(p, to) /\ commands' = commands /\ Write(p, g)
    BY <1>8 DEF Load
  <2>2. to \in {"load", "index"}
    OBVIOUS
  <2> HIDE DEF events, to
  <2>3. g.said = Of(p).said /\ g.status = Of(p).status
    BY <2>1, FileOf DEF IsFile, NewFile
  <2>4. Moves(p, "load", to)
    BY <2>1, GotoFacts
  <2> HIDE DEF g
  <2> QED BY <2>1, <2>2, <2>3, <2>4, WriteSays DEF Moves
<1>9. CASE Index(p)
  <2> DEFINE g == [Of(p) EXCEPT !.pad.templates = proc[p].log.templates]
  <2>1. proc[p].pc = "index" /\ Goto(p, "measure") /\ commands' = commands /\ Write(p, g)
    BY <1>9 DEF Index
  <2>2. g.said = Of(p).said /\ g.status = Of(p).status
    BY <2>1, FileOf DEF IsFile, NewFile
  <2> HIDE DEF g
  <2> QED BY <2>1, <2>2, GotoFacts, WriteSays DEF Moves
<1>10. CASE Measure(p)
  <2> DEFINE g == [Of(p) EXCEPT !.pad.metrics = proc[p].log.metrics, !.whole = TRUE]
  <2>1. /\ proc[p].pc = "measure" /\ Write(p, g)
        /\ proc' = [proc EXCEPT ![p].pc = "assess", ![p].log = None]
    BY <1>10 DEF Measure
  <2>2. g.said = Of(p).said /\ g.status = Of(p).status
    BY <2>1, FileOf DEF IsFile, NewFile
  <2>3. Others(p) /\ proc'[p].pc = "assess"
    BY <2>1 DEF Shape, Others, IsProcess, Idle, Process, Task
  <2> HIDE DEF g
  <2> QED BY <2>1, <2>2, <2>3, WriteSays
<1>11. CASE Assess(p)
  <2> DEFINE g == Judged(Of(p), Verdicts(p))
  <2>1. proc[p].pc = "assess" /\ commands' = commands /\ Write(p, g)
    BY <1>11 DEF Assess, Verdicts
  <2>2. g.said = Upserted(Of(p).said, Verdicts(p)) /\ g.status = Worst(Verdicts(p))
    BY <2>1, FileOf, JudgedFacts
  <2>3. Writes(p, g)
    BY <2>1, WriteFacts
  <2> HIDE DEF g
  <2>4. Records(p, Verdicts(p))
    BY <2>2, <2>3 DEF Records
  <2>5. CASE proc[p].reporting
    <3>1. proc' = [proc EXCEPT ![p].pc = "open", ![p].verdicts = Verdicts(p),
                               ![p].whole = TRUE]
      BY <1>11, <2>5 DEF Assess, Verdicts
    <3>2. Others(p) /\ proc'[p].verdicts = Verdicts(p)
      BY <3>1 DEF Shape, Others, IsProcess, Idle, Process, Task
    <3> QED BY <2>4, <3>2 DEF Saying, Carried
  <2>6. CASE ~proc[p].reporting
    <3>1. Stops(p)
      BY <1>11, <2>1, <2>6, FinishFacts DEF Assess
    <3> QED BY <2>4, <3>1, IdleFacts DEF Saying, Carried, Stops
  <2> QED BY <2>5, <2>6
<1>12. CASE CheckHealth(p)
  <2>1. /\ files' = files
        /\ proc' = [proc EXCEPT ![p].pc = "gate", ![p].verdicts = Verdicts(p),
                                ![p].whole = Of(p).whole]
    BY <1>12 DEF CheckHealth
  <2>2. Others(p) /\ proc'[p].verdicts = Verdicts(p)
    BY <2>1 DEF Shape, Others, IsProcess, Idle, Process, Task
  <2> QED BY <2>1, <2>2, SameFilesKeepSaid DEF Saying, Carried
<1>13. CASE Gate(p)
  <2> DEFINE g == Gated(p)
  <2>1. proc[p].pc = "gate" /\ commands' = commands /\ Write(p, g)
    BY <1>13 DEF Gate, Gated
  <2>2. g.said = Upserted(Of(p).said, proc[p].verdicts) /\ g.status = Worst(proc[p].verdicts)
    BY <2>1, FileOf, GatedFacts
  <2>3. Writes(p, g)
    BY <2>1, WriteFacts
  <2> HIDE DEF g
  <2>4. Records(p, proc[p].verdicts)
    BY <2>2, <2>3 DEF Records
  <2>5. CASE Refused(p)
    <3>1. Stops(p)
      BY <1>13, <2>1, <2>5, FinishFacts DEF Gate
    <3> QED BY <2>1, <2>4, <3>1, IdleFacts DEF Saying, Carried, Stops
  <2>6. CASE ~Refused(p)
    <3>1. PICK to \in {"clear", "begin"} : Goto(p, to)
      BY <1>13, <2>6 DEF Gate
    <3>2. Moves(p, "gate", to)
      BY <2>1, <3>1, GotoFacts
    <3> QED BY <2>1, <2>4, <3>1, <3>2 DEF Saying, Carried, Moves
  <2> QED BY <2>5, <2>6
<1>14. CASE Clear(p)
  <2> DEFINE g == Cleared(p, Of(p))
  <2>1. proc[p].pc = "clear" /\ commands' = commands /\ Goto(p, "begin") /\ Write(p, g)
    BY <1>14 DEF Clear
  <2>2. g.said = Of(p).said /\ g.status = Of(p).status
    BY <2>1, FileOf DEF IsFile, NewFile, Cleared
  <2> HIDE DEF g
  <2> QED BY <2>1, <2>2, GotoFacts, WriteSays DEF Moves
<1>15. CASE Begin(p)
  <2> DEFINE g == [Forgotten(Of(p)) EXCEPT !.begun = @ \cup {Attempt(p)}]
  <2>1. proc[p].pc = "begin" /\ commands' = commands /\ Goto(p, "search") /\ Write(p, g)
    BY <1>15 DEF Begin
  <2>2. g.said = Of(p).said /\ g.status = Of(p).status
    BY <2>1, FileOf DEF IsFile, NewFile, Forgotten
  <2> HIDE DEF g
  <2> QED BY <2>1, <2>2, GotoFacts, WriteSays DEF Moves
<1>16. CASE SearchWrites(p)
  <2>1. PICK note, trail :
          /\ proc[p].pc = "search" /\ proc' = proc
          /\ Write(p, [Of(p) EXCEPT !.notes = Append(@, note), !.trail = trail, !.spent = TRUE])
    BY <1>16 DEF SearchWrites
  <2> DEFINE g == [Of(p) EXCEPT !.notes = Append(@, note), !.trail = trail, !.spent = TRUE]
  <2>2. g.said = Of(p).said /\ g.status = Of(p).status
    BY <2>1, FileOf DEF IsFile, NewFile
  <2> HIDE DEF g
  <2> QED BY <2>1, <2>2, WriteSays DEF Others, g
<1>17. CASE SearchEnds(p)
  <2>1. PICK trail :
          /\ proc[p].pc = "search" /\ Finish(p) /\ commands' = commands
          /\ Write(p, [Of(p) EXCEPT !.by = "loop", !.spent = TRUE, !.trail = trail])
    BY <1>17 DEF SearchEnds
  <2> DEFINE g == [Of(p) EXCEPT !.by = "loop", !.spent = TRUE, !.trail = trail]
  <2>2. Write(p, g) /\ g.said = Of(p).said /\ g.status = Of(p).status
    BY <2>1, FileOf DEF IsFile, NewFile
  <2> HIDE DEF g
  <2>3. Others(p) /\ proc'[p].pc = "idle"
    BY <2>1, FinishFacts, IdleFacts DEF Stops
  <2> QED BY <2>1, <2>2, <2>3, WriteSays
<1>18. CASE Skeleton(p)
  <2> DEFINE ended == [Of(p) EXCEPT !.by = "skeleton", !.trail = @ \cup {proc[p].cmd}]
  <2>1. PICK note :
          /\ proc[p].pc = "search" /\ Finish(p) /\ commands' = commands
          /\ \/ Write(p, ended)
             \/ Write(p, [ended EXCEPT !.notes = Append(@, note)])
    BY <1>18 DEF Skeleton
  <2> DEFINE g == [ended EXCEPT !.notes = Append(@, note)]
  <2>2. /\ ended.said = Of(p).said /\ ended.status = Of(p).status
        /\ DOMAIN ended = DOMAIN NewFile
    BY <2>1, FileOf DEF IsFile, NewFile
  <2> HIDE DEF ended
  <2>3. g.said = Of(p).said /\ g.status = Of(p).status
    BY <2>2 DEF NewFile
  <2>4. Write(p, ended) \/ Write(p, g)
    BY <2>1
  <2> HIDE DEF g
  <2>5. Others(p) /\ proc'[p].pc = "idle"
    BY <2>1, FinishFacts, IdleFacts DEF Stops
  <2> QED BY <2>1, <2>2, <2>3, <2>4, <2>5, WriteSays
<1>19. CASE Dies(p)
  BY <1>19, FinishFacts, IdleFacts, SameFilesKeepSaid DEF Dies, Saying, Carried, Stops
<1>20. CASE RecordHealth(p)
  <2> DEFINE g == Judged(Of(p), proc[p].verdicts)
  <2>1. proc[p].pc = "gate" /\ commands' = commands /\ Finish(p) /\ Write(p, g)
    BY <1>20 DEF RecordHealth
  <2>2. g.said = Upserted(Of(p).said, proc[p].verdicts) /\ g.status = Worst(proc[p].verdicts)
    BY <2>1, FileOf, JudgedFacts
  <2>3. Writes(p, g)
    BY <2>1, WriteFacts
  <2> HIDE DEF g
  <2>4. Records(p, proc[p].verdicts)
    BY <2>2, <2>3 DEF Records
  <2> QED BY <2>1, <2>4, FinishFacts, IdleFacts DEF Saying, Carried, Stops
<1> QED BY <1>1, <1>2, <1>3, <1>4, <1>5, <1>6, <1>7, <1>8, <1>9, <1>10, <1>11, <1>12, <1>13,
           <1>14, <1>15, <1>16, <1>17, <1>18, <1>19, <1>20 DEF Step

\* What a file says is what some check said of it, with whatever else was said before.
Stated(f) == DOMAIN f.said \subseteq Checks /\ (DOMAIN f.said # {} => f.status = Worst(f.said))

Judging(r) == r.pc \in {"open", "gate"} => IsVerdicts(r.verdicts)

Judgements ==
  /\ \A f \in DOMAIN files : Stated(files[f])
  /\ \A p \in Procs : Judging(proc[p])

LEMMA JudgementsStep == ASSUME Judgements, Shape, [Next]_vars PROVE Judgements'
<1>1. ASSUME NEW p \in Procs, Saying(p) PROVE \A q \in Procs : Judging(proc'[q])
  <2>1. Judging(proc'[p])
    BY <1>1, CheckIsVerdicts DEF Saying, Carried, Judging, Judgements, Verdicts
  <2> QED BY <1>1, <2>1 DEF Saying, Others, Judgements
<1>2. ASSUME SaidKept PROVE \A f \in DOMAIN files' : Stated(files'[f])
  <2>1. Stated(NewFile)
    BY EmptyIsSeq DEF Stated, NewFile
  <2> QED BY <1>2, <2>1 DEF SaidKept, Stated, Judgements
<1>3. ASSUME NEW p \in Procs, NEW v, IsVerdicts(v), Records(p, v)
      PROVE  \A f \in DOMAIN files' : Stated(files'[f])
  <2>1. PICK g : Writes(p, g) /\ g.said = Upserted(Of(p).said, v) /\ g.status = Worst(v)
    BY <1>3 DEF Records
  <2>2. DOMAIN Of(p).said \subseteq Checks
    BY <2>1 DEF Judgements, Stated, Writes, Of
  <2>3. Stated(g)
    BY <1>3, <2>1, <2>2, UpsertedKeepsWorst DEF Stated
  <2> QED BY <2>1, <2>3 DEF Writes, Judgements
<1>4. ASSUME NEW p \in Procs, Saying(p) PROVE \A f \in DOMAIN files' : Stated(files'[f])
  <2>1. IsVerdicts(Verdicts(p))
    BY CheckIsVerdicts DEF Verdicts
  <2>2. proc[p].pc = "gate" => IsVerdicts(proc[p].verdicts)
    BY DEF Judgements, Judging
  <2> QED BY <1>2, <1>3, <1>4, <2>1, <2>2 DEF Saying
<1>5. CASE UNCHANGED vars
  BY <1>5 DEF vars, Judgements
<1> QED BY <1>1, <1>4, <1>5, StepSays DEF Next, Judgements

-----------------------------------------------------------------------------
(* The theorems.                                                            *)

IInv ==
  /\ Shape /\ Numbers /\ Traced /\ Clean /\ Admitted /\ Noted
  /\ \A f \in DOMAIN files : Shared(files[f])
  /\ Ingested /\ \A p \in Procs : Informed(p)
  /\ \A f \in DOMAIN files : Measured(files[f])
  /\ \A p \in Procs : Cautious(p)
  /\ \A f \in DOMAIN files : Cited(files[f])
  /\ \A p \in Procs : Carries(p)
  /\ Judgements

\* Nothing runs and there is no file.
LEMMA InitIInv == Init => IInv
<1> SUFFICES ASSUME Init PROVE IInv
  OBVIOUS
<1>1. files = <<>> /\ DOMAIN files = {} /\ \A p \in Procs : proc[p].pc = "idle"
  BY IdleFacts DEF Init
<1>2. Shape
  BY InitShape
<1>3. Numbers /\ Traced /\ Clean
  BY <1>1, EarlyFacts DEF Numbers, Traced, Clean, Active, EarlyIsActive
<1>4. Admitted /\ Noted
  BY <1>1 DEF Admitted, Fresh, Noted, Making
<1>5. Ingested
  BY <1>1 DEF Ingested, Alone, Ingesting, Loading, Working
<1>6. \A p \in Procs : Informed(p)
  BY <1>1 DEF Informed, Past
<1>7. \A p \in Procs : Cautious(p)
  BY <1>1 DEF Cautious, Past
<1>8. \A p \in Procs : Carries(p)
  BY <1>1 DEF Carries
<1>9. Judgements
  BY <1>1 DEF Judgements, Judging
<1> QED BY <1>1, <1>2, <1>3, <1>4, <1>5, <1>6, <1>7, <1>8, <1>9 DEF IInv

LEMMA IInvStep == ASSUME IInv, [Next]_vars PROVE IInv'
<1>1. Shape'
  BY ShapeStep DEF IInv
<1>2. Numbers'
  BY NumbersStep DEF IInv
<1>3. Traced'
  BY TracedStep DEF IInv
<1>4. Clean'
  BY CleanStep DEF IInv
<1>5. Admitted'
  BY <1>1, AdmittedStep DEF IInv
<1>6. Noted'
  BY RecordedStep DEF IInv
<1>7. (\A f \in DOMAIN files : Shared(files[f]))'
  BY SharedStep DEF IInv
<1>8. Ingested'
  BY <1>1, LoadingStep DEF IInv
<1>9. \A p \in Procs : Informed(p)'
  BY InformedStep DEF IInv
<1>10. \A f \in DOMAIN files' : Cited(files'[f])
  BY <1>1, CitedStep DEF IInv
<1>11. \A f \in DOMAIN files' : Measured(files'[f])
  BY MeasuredStep DEF IInv
<1>12. \A p \in Procs : Cautious(p)'
  BY CautiousStep DEF IInv
<1>13. \A p \in Procs : Carries(p)'
  BY CarriesStep DEF IInv
<1>14. Judgements'
  BY JudgementsStep DEF IInv
<1> QED BY <1>1, <1>2, <1>3, <1>4, <1>5, <1>6, <1>7, <1>8, <1>9, <1>10, <1>11, <1>12,
           <1>13, <1>14 DEF IInv

LEMMA SpecIInv == Spec => []IInv
  BY InitIInv, IInvStep, PTL DEF Spec

\* For any number of processes and commands, a command its gate refuses has cleared no note
\* and queried nothing, in any scratchpad (cli.py: the check comes before --restart).
THEOREM RefusedCommandsLeaveNoTrace == Spec => []RefusalLeavesTheRecord
<1>1. IInv => RefusalLeavesTheRecord
  BY DEF IInv, Clean, Traceless, RefusalLeavesTheRecord, Early, Active
<1> QED BY <1>1, SpecIInv, PTL

\* For any number of processes and commands, two investigations share a scratchpad's notes
\* only when the later resumed or the two were under way at once (cli.py: the refusal of a
\* plain investigate over notes).
THEOREM NotesAreSharedOnPurpose == Spec => []SharedOnPurpose
<1>1. IInv => SharedOnPurpose
  BY DEF IInv, Shared, SharedOnPurpose
<1> QED BY <1>1, SpecIInv, PTL

\* Whatever the health check computes, a model is called over a whole log only when that
\* check, by the thresholds of the command, does not fail on it as it is then, or it was
\* told to ignore that (cli.py: _preflight).
THEOREM SpendsAreGated == Spec => []SpendIsGated
<1>1. IInv => SpendIsGated
  <2> SUFFICES ASSUME IInv, NEW p \in Active,
                      proc[p].pc = "search", proc[p].investigator = "loop",
                      proc[p].whole, ~proc[p].ignore, ~proc[p].reporting
               PROVE  Worst(Check(Of(p).pad, proc[p].cfg)) # "fail"
    BY DEF SpendIsGated
  <2>1. Informed(p)
    BY DEF IInv, Active
  <2>2. ~Refused(p) /\ proc[p].verdicts = Check(Of(p).pad, proc[p].cfg)
    BY <2>1 DEF Informed, Past
  <2> QED BY <2>2 DEF Refused, Failed
<1> QED BY <1>1, SpecIInv, PTL

\* Whatever an ingest left unfinished and whoever opens it, no investigation goes on over a
\* log that was not whole when it was checked without a check that said so (health.py: a
\* metric that was never recorded is a warning).
THEOREM PartialLogsAreWarnedOf == Spec => []PartialIsWarned
<1>1. IInv => PartialIsWarned
  BY DEF IInv, PartialIsWarned, Cautious, Past, Active
<1> QED BY <1>1, SpecIInv, PTL

\* Whoever checks a scratchpad, with whatever thresholds, and however late it records what it
\* found, the status a report leads with is the worst of the verdicts it lists (health.py:
\* HealthReport.metrics, recorded by ingest, health and _preflight).
THEOREM StatusIsAlwaysTheWorst == Spec => []StatusIsTheWorst
<1>1. IInv => StatusIsTheWorst
  <2> SUFFICES ASSUME IInv, NEW f \in DOMAIN files, DOMAIN files[f].said # {}
               PROVE  Rendered(f).says.status = Worst(files[f].said)
    BY DEF StatusIsTheWorst
  <2>1. Rendered(f).says.status = files[f].status
    BY DEF Rendered, Collect
  <2> QED BY <2>1 DEF IInv, Judgements, Stated
<1> QED BY <1>1, SpecIInv, PTL

\* Whatever the notes cite and whoever replaces the scratchpad, a report's citations resolve
\* (report/generator.py: verify_citations).
THEOREM CitationsAlwaysResolve == Spec => []CitationsResolve
<1>1. IInv => CitationsResolve
  <2> SUFFICES ASSUME IInv, NEW f \in DOMAIN files
               PROVE  Rendered(f).says.unresolved = {}
    BY DEF CitationsResolve
  <2>1. \A i \in DOMAIN files[f].notes : Resolves(files[f].notes[i], files[f].pad)
    BY DEF IInv, Cited, Cites, Resolves, Missing
  <2>2. Rendered(f).says.unresolved =
          {i \in DOMAIN files[f].notes : ~Resolves(files[f].notes[i], files[f].pad)}
    BY DEF Rendered, Collect
  <2> QED BY <2>1, <2>2
<1> QED BY <1>1, SpecIInv, PTL

\* Whatever is unlinked, loaded or investigated meanwhile, the log of a scratchpad somebody
\* has open is only added to, in order, and stays as it is once whole (cli.py: ingest
\* unlinks the path and makes a file of its own).
THEOREM LogsAreOnlyAddedTo == Spec => LogsOnlyGrow
<1> DEFINE Kept(f) == /\ f \in DOMAIN files' /\ Begins(files[f].pad.events, files'[f].pad.events)
                      /\ files[f].whole => files'[f].pad = files[f].pad
<1>1. ASSUME IInv, [Next]_vars, NEW f \in DOMAIN files PROVE Kept(f)
  <2>1. ASSUME NEW p \in Procs, Step(p) PROVE Kept(f)
    BY <1>1, <2>1, PadsGrow, WholeIsFinal DEF IInv, Grows
  <2>2. CASE UNCHANGED vars
    BY <2>2 DEF vars, Begins
  <2> QED BY <1>1, <2>1, <2>2 DEF Next
<1>2. IInv /\ [Next]_vars =>
        [\A f \in DOMAIN files :
           LET held == files[f].pad.events
               now == files'[f].pad.events
           IN  /\ f \in DOMAIN files'
               /\ DOMAIN held \subseteq DOMAIN now /\ \A i \in DOMAIN held : now[i] = held[i]
               /\ files[f].whole => files'[f].pad = files[f].pad]_vars
  BY <1>1 DEF Begins
<1> QED BY <1>2, SpecIInv, PTL DEF Spec, LogsOnlyGrow

\* Whatever the sources and the thresholds, where the lines of a log tell which of its
\* sources are off the time, the check names those and by how much, whichever source is the
\* busiest (health.py: _find_skews).
THEOREM ShiftedSourcesAreNamed ==
  ASSUME \A log \in Logs, cfg \in Configs : WellClocked(log, cfg)
  PROVE  Spec => []ShiftedSourceIsNamed
<1>1. IInv => ShiftedSourceIsNamed
  <2> SUFFICES ASSUME IInv, NEW p \in Active, proc[p].pc = "measure"
               PROVE  UNION {found.skews : found \in SkewReports(Of(p).pad, proc[p].cfg)} =
                        proc[p].log.shifted
    BY DEF ShiftedSourceIsNamed
  <2>1. /\ proc[p].log \in Logs /\ proc[p].cfg \in Configs
        /\ Of(p).pad.events = proc[p].log.events
    BY DEF IInv, Carries, Active
  <2>2. IsFiniteSet(DOMAIN proc[p].log.events)
    <3>1. DOMAIN proc[p].log.events = 1 .. Len(proc[p].log.events)
      BY <2>1, LogsAssumption
    <3>2. Len(proc[p].log.events) \in Nat
      BY <2>1, LogsAssumption
    <3> QED BY <3>1, <3>2, FS_Interval
  <2>3. WellClocked(proc[p].log, proc[p].cfg)
    BY <2>1
  <2> QED BY <2>1, <2>2, <2>3, SkewsAreFound
<1> QED BY <1>1, SpecIInv, PTL
=============================================================================

