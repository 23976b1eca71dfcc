----------------------------- MODULE McpServer -----------------------------
(***************************************************************************)
(* The tools of mcp_server.py as they run: every request in a worker       *)
(* thread of its own, the writers (ingest, health, investigate) behind     *)
(* _IncidentLocks, the reads (report, report_data, query) not, and all of  *)
(* them on the scratchpad file their incident has on disk.                 *)
(*                                                                         *)
(* A scratchpad is told apart from the ones that had its path before by    *)
(* the number it was made under.  A connection keeps the scratchpad it     *)
(* opened, also once the path leads to another one or nowhere.             *)
(*                                                                         *)
(* pc[c] follows call c: "idle", "enter" (before the guard), "guarded"     *)
(* (inside it, to be admitted), "work" (admitted, or a read that starts),  *)
(* "found" (path.exists() held, or the old file is gone), "connected",     *)
(* "open" (migrated), "writing" (inside run_investigation), "leave" (the   *)
(* finally of run), "leaving" (inside the guard again), and how it ended:  *)
(* "done", "busy", "rejected" or "dropped".                                *)
(***************************************************************************)
EXTENDS Integers, FiniteSets

CONSTANTS
  Calls,       \* the requests the server gets
  Incidents,   \* the incident ids they name
  MaxCrashes   \* how often the server process may die

NoCall == "nobody"

WriterTools == {"ingest", "health", "investigate"}
Tools == WriterTools \cup {"read"}

ASSUME ServerAssumption == NoCall \notin Calls /\ MaxCrashes \in Nat

VARIABLES
  pc, tool, inc,
  guard,     \* _IncidentLocks._guard: the call inside it
  held,      \* _IncidentLocks._held
  made,      \* made[i]: scratchpads made at the path of i so far
  file,      \* file[i]: the one the path leads to, 0 for none
  migrated,  \* the scratchpads whose tables exist
  conn,      \* conn[c]: the scratchpad call c is connected to, 0 for none
  blank,     \* blank[c]: were its tables missing when c read schema_migrations
  authors,   \* <<i, n, c>>: call c wrote a note into scratchpad n of i
  crashes

lockVars == <<guard, held>>
diskVars == <<made, file, migrated>>
callVars == <<conn, blank>>
vars == <<pc, tool, inc, lockVars, diskVars, callVars, authors, crashes>>

\* Is c between being admitted and having given its incident back?
Admitted(c) ==
  /\ tool[c] \in WriterTools
  /\ pc[c] \in {"work", "found", "connected", "open", "writing", "leave", "leaving"}

\* Where a call holds a connection it goes on using.
Connected == {"connected", "open", "writing"}

Ended == {"done", "busy", "rejected", "dropped"}

\* Where work goes when it is over, returned or raised: a writer has the
\* finally of run before it, a read has nothing to give back.
Over(c) == IF tool[c] = "read" THEN "done" ELSE "leave"

Goto(c, where) == pc' = [pc EXCEPT ![c] = where]

-----------------------------------------------------------------------------
Init ==
  /\ pc = [c \in Calls |-> "idle"]
  /\ tool = [c \in Calls |-> "read"]
  /\ inc \in [Calls -> Incidents]
  /\ guard = NoCall
  /\ held = {}
  /\ file \in [Incidents -> {0, 1}]
  /\ made = file
  /\ migrated = {<<i, 1>> : i \in {j \in Incidents : file[j] = 1}}
  /\ conn = [c \in Calls |-> 0]
  /\ blank = [c \in Calls |-> FALSE]
  /\ authors = {}
  /\ crashes = 0

\* A request arrives; its tool runs in a worker thread (_offload).
Request(c, t) ==
  /\ pc[c] = "idle"
  /\ tool' = [tool EXCEPT ![c] = t]
  /\ Goto(c, IF t = "read" THEN "work" ELSE "enter")
  /\ UNCHANGED <<inc, lockVars, diskVars, callVars, authors, crashes>>

\* ingest refuses a long brief, a source outside the allowed roots or an
\* unusable incident id before it asks for the incident.
Reject(c) ==
  /\ pc[c] = "enter"
  /\ tool[c] = "ingest"
  /\ Goto(c, "rejected")
  /\ UNCHANGED <<tool, inc, lockVars, diskVars, callVars, authors, crashes>>

\* run: `with self._guard`.
EnterGuard(c) ==
  /\ pc[c] = "enter"
  /\ guard = NoCall
  /\ guard' = c
  /\ Goto(c, "guarded")
  /\ UNCHANGED <<tool, inc, held, diskVars, callVars, authors, crashes>>

\* A bug: the refusal leaves without giving the guard back.
RefuseBusyInside(c) ==
  /\ pc[c] = "guarded"
  /\ inc[c] \in held
  /\ Goto(c, "busy")
  /\ UNCHANGED <<tool, inc, lockVars, diskVars, callVars, authors, crashes>>

\* The incident is busy: refused, not queued.
RefuseBusy(c) ==
  /\ pc[c] = "guarded"
  /\ inc[c] \in held
  /\ guard' = NoCall
  /\ Goto(c, "busy")
  /\ UNCHANGED <<tool, inc, held, diskVars, callVars, authors, crashes>>

\* A bug: the incident is claimed without looking whether it is held.
ClaimUnchecked(c) ==
  /\ pc[c] = "guarded"
  /\ held' = held \cup {inc[c]}
  /\ guard' = NoCall
  /\ Goto(c, "work")
  /\ UNCHANGED <<tool, inc, diskVars, callVars, authors, crashes>>

\* The incident is free: claimed before the guard is given back.
Claim(c) ==
  /\ pc[c] = "guarded"
  /\ inc[c] \notin held
  /\ held' = held \cup {inc[c]}
  /\ guard' = NoCall
  /\ Goto(c, "work")
  /\ UNCHANGED <<tool, inc, diskVars, callVars, authors, crashes>>

-----------------------------------------------------------------------------
(* The work.                                                                *)

\* Work may raise anywhere: an unknown format, an invalid id, a failed
\* preflight, notes without restart, a provider error, a refused query.
WorkRaises(c) ==
  /\ pc[c] \in {"work", "found", "connected", "open", "writing"}
  /\ Goto(c, Over(c))
  /\ UNCHANGED <<tool, inc, lockVars, diskVars, callVars, authors, crashes>>

\* pipeline.ingest drops the scratchpad its incident had.
IngestUnlinks(c) ==
  /\ pc[c] = "work"
  /\ tool[c] = "ingest"
  /\ file' = [file EXCEPT ![inc[c]] = 0]
  /\ Goto(c, "found")
  /\ UNCHANGED <<tool, inc, lockVars, made, migrated, callVars, authors, crashes>>

\* _with_db: the incident has a scratchpad now.
ExistsCheck(c) ==
  /\ pc[c] = "work"
  /\ tool[c] # "ingest"
  /\ file[inc[c]] # 0
  /\ Goto(c, "found")
  /\ UNCHANGED <<tool, inc, lockVars, diskVars, callVars, authors, crashes>>

\* _with_db: it has none, "ingest it first".
NoIncident(c) ==
  /\ pc[c] = "work"
  /\ tool[c] # "ingest"
  /\ file[inc[c]] = 0
  /\ Goto(c, Over(c))
  /\ UNCHANGED <<tool, inc, lockVars, diskVars, callVars, authors, crashes>>

\* sqlite3.connect in ScratchpadDB: it opens the file, or makes an empty one
\* when the path leads nowhere, whoever asks.
Connect(c) ==
  LET i == inc[c]
      n == IF file[i] = 0 THEN made[i] + 1 ELSE file[i]
  IN /\ pc[c] = "found"
     /\ made' = IF file[i] = 0 THEN [made EXCEPT ![i] = n] ELSE made
     /\ file' = [file EXCEPT ![i] = n]
     /\ conn' = [conn EXCEPT ![c] = n]
     /\ blank' = [blank EXCEPT ![c] = <<i, n>> \notin migrated]
     /\ Goto(c, "connected")
     /\ UNCHANGED <<tool, inc, lockVars, migrated, authors, crashes>>

\* apply_migrations leaves the tables there, made by this call or before.
Migrate(c) ==
  /\ pc[c] = "connected"
  /\ migrated' = migrated \cup {<<inc[c], conn[c]>>}
  /\ Goto(c, "open")
  /\ UNCHANGED <<tool, inc, lockVars, made, file, callVars, authors, crashes>>

\* apply_migrations read schema_migrations before another connection made the
\* tables, and fails on a CREATE TABLE of its own.
MigrationCollides(c) ==
  /\ pc[c] = "connected"
  /\ blank[c]
  /\ <<inc[c], conn[c]>> \in migrated
  /\ Goto(c, Over(c))
  /\ UNCHANGED <<tool, inc, lockVars, diskVars, callVars, authors, crashes>>

Authors(i, n) == {c \in Calls : <<i, n, c>> \in authors}

\* A bug: restart=true skips the refusal and forgets to clear the notes.
InvestigateUncleared(c, restart) ==
  /\ pc[c] = "open"
  /\ tool[c] = "investigate"
  /\ Authors(inc[c], conn[c]) = {} \/ restart
  /\ Goto(c, "writing")
  /\ UNCHANGED <<tool, inc, lockVars, diskVars, callVars, authors, crashes>>

\* _investigate passes its checks: no note of an earlier investigation is
\* there, or restart=true deletes what is.
Investigate(c, restart) ==
  /\ pc[c] = "open"
  /\ tool[c] = "investigate"
  /\ Authors(inc[c], conn[c]) = {} \/ restart
  /\ authors' = IF restart
                THEN {a \in authors : a[1] # inc[c] \/ a[2] # conn[c]}
                ELSE authors
  /\ Goto(c, "writing")
  /\ UNCHANGED <<tool, inc, lockVars, diskVars, callVars, crashes>>

\* run_investigation stores a note.
WriteNote(c) ==
  /\ pc[c] = "writing"
  /\ authors' = authors \cup {<<inc[c], conn[c], c>>}
  /\ UNCHANGED <<pc, tool, inc, lockVars, diskVars, callVars, crashes>>

\* The work returns: an ingest has loaded its incident, a health check stored
\* its verdicts, an investigation concluded, a read rendered.
WorkReturns(c) ==
  /\ \/ pc[c] = "open" /\ tool[c] # "investigate"
     \/ pc[c] = "writing"
  /\ Goto(c, Over(c))
  /\ UNCHANGED <<tool, inc, lockVars, diskVars, callVars, authors, crashes>>

-----------------------------------------------------------------------------
\* The finally of run: `with self._guard` again, returned or raised.
ReenterGuard(c) ==
  /\ pc[c] = "leave"
  /\ guard = NoCall
  /\ guard' = c
  /\ Goto(c, "leaving")
  /\ UNCHANGED <<tool, inc, held, diskVars, callVars, authors, crashes>>

\* The incident is given back.
Release(c) ==
  /\ pc[c] = "leaving"
  /\ held' = held \ {inc[c]}
  /\ guard' = NoCall
  /\ Goto(c, "done")
  /\ UNCHANGED <<tool, inc, diskVars, callVars, authors, crashes>>

\* The process dies and a new one serves the remaining requests: locks are in
\* memory and gone, files stay as they were.
Crash ==
  /\ crashes < MaxCrashes
  /\ crashes' = crashes + 1
  /\ guard' = NoCall
  /\ held' = {}
  /\ pc' = [c \in Calls |-> IF pc[c] \in Ended \cup {"idle"} THEN pc[c]
                            ELSE IF Admitted(c) THEN "done" ELSE "dropped"]
  /\ UNCHANGED <<tool, inc, diskVars, callVars, authors>>

-----------------------------------------------------------------------------
\* One step of the thread that serves c.
Step(c) ==
  \/ Reject(c) \/ EnterGuard(c) \/ RefuseBusy(c) \/ Claim(c)
  \/ WorkRaises(c) \/ IngestUnlinks(c) \/ ExistsCheck(c) \/ NoIncident(c)
  \/ Connect(c) \/ Migrate(c) \/ MigrationCollides(c)
  \/ \E restart \in BOOLEAN : Investigate(c, restart)
  \/ WriteNote(c) \/ WorkReturns(c)
  \/ ReenterGuard(c) \/ Release(c)

\* Every request of the instance has been answered.
Quiet == (\A c \in Calls : pc[c] \in Ended) /\ UNCHANGED vars

Next ==
  \/ \E c \in Calls, t \in Tools : Request(c, t)
  \/ \E c \in Calls : Step(c)
  \/ Crash
  \/ Quiet

\* A thread that can run runs, and work comes back: provider calls time out,
\* query has its time limit, the rest is local.
Fairness == \A c \in Calls : WF_vars(Step(c) /\ pc' # pc)

Spec == Init /\ [][Next]_vars /\ Fairness
-----------------------------------------------------------------------------
(* Properties.                                                              *)

\* Every variable holds a value of the kind the code keeps there, and a path
\* leads to a scratchpad that was made.
TypeOK ==
  /\ pc \in [Calls -> {"idle", "enter", "guarded", "work", "found", "connected",
                       "open", "writing", "leave", "leaving"} \cup Ended]
  /\ tool \in [Calls -> Tools]
  /\ inc \in [Calls -> Incidents]
  /\ guard \in Calls \cup {NoCall}
  /\ held \subseteq Incidents
  /\ made \in [Incidents -> Nat]
  /\ file \in [Incidents -> Nat]
  /\ \A i \in Incidents : file[i] <= made[i]
  /\ migrated \subseteq Incidents \X Nat
  /\ conn \in [Calls -> Nat]
  /\ \A c \in Calls : pc[c] \in Connected => conn[c] \in 1..made[inc[c]]
  /\ blank \in [Calls -> BOOLEAN]
  /\ authors \subseteq Incidents \X Nat \X Calls
  /\ crashes \in 0..MaxCrashes

\* No two calls work on one incident at a time, and _held names exactly the
\* incidents some call works on: none is left claimed by a call that raised.
OneWriter ==
  /\ \A c, d \in Calls : (Admitted(c) /\ Admitted(d) /\ inc[c] = inc[d]) => c = d
  /\ held = {inc[c] : c \in {d \in Calls : Admitted(d)}}

\* A writer's scratchpad is the one its incident's path leads to for as long
\* as it writes: no ingest replaces it underneath (the docstring of
\* _IncidentLocks).
WriterKeepsItsScratchpad ==
  \A c \in Calls :
    (Admitted(c) /\ pc[c] \in Connected) => conn[c] = file[inc[c]]

\* The notes of one scratchpad come from one investigation: two never write
\* into one record, whatever ran, raised or crashed before.
OneAuthorPerRecord ==
  \A a, b \in authors : (a[1] = b[1] /\ a[2] = b[2]) => a[3] = b[3]

\* What the lock promises: the calls at work on each incident, and what became
\* of each request to write.
Promise == INSTANCE OneWriterPerIncident WITH
  writers <- [i \in Incidents |-> {c \in Calls : Admitted(c) /\ inc[c] = i}],
  verdict <- [c \in Calls |-> IF Admitted(c) THEN "admitted"
                              ELSE IF pc[c] = "busy" THEN "refused"
                              ELSE IF pc[c] = "done" /\ tool[c] # "read" THEN "ended"
                              ELSE "unasked"]

\* The server implements that promise: admissions, refusals and ends happen as
\* OneWriterPerIncident says, so no call is refused without a reason.
ImplementsPromise == Promise!Spec

\* Every request comes to an answer, so nobody waits for a guard left taken;
\* with OneWriter, every claimed incident is given back.
EveryCallAnswered == \A c \in Calls : (pc[c] # "idle") ~> (pc[c] \in Ended)
=============================================================================
