----------------------------- MODULE Migrations -----------------------------
(***************************************************************************)
(* ScratchpadDB.apply_migrations (scratchpad/db.py) on one scratchpad file *)
(* that several connections may open at a time, in the server's threads or *)
(* in processes that may die.                                              *)
(*                                                                         *)
(* executescript commits what is pending and then runs each statement of a *)
(* migration in a transaction of its own; the row that records the version *)
(* is inserted after it and stays pending until the next migration's       *)
(* executescript, or the commit at the end.  SQLite has one writer: a      *)
(* pending row keeps every other connection waiting, up to its timeout.    *)
(*                                                                         *)
(* stage[o] is "closed", "read" (about to read schema_migrations),         *)
(* "script" (to run statement at[o] of version now[o]), "record" (to       *)
(* insert its row), "next" (to look for the next version), "open", or      *)
(* "failed".                                                               *)
(*                                                                         *)
(* apply_migrations reads the recorded versions once, so a connection may  *)
(* run again what another has recorded since: a CREATE is refused then,    *)
(* a CREATE IF NOT EXISTS changes nothing, and a DROP takes away what was  *)
(* made after it.                                                          *)
(***************************************************************************)
EXTENDS Schema

CONSTANT
  MaxCrashes   \* how often a process may die while it migrates

Nobody == "nobody"

\* What no script drops is made by one statement.
MadeOnce ==
  \A v, u \in Versions : \A k \in Lasting(v), j \in Statements(u) :
    Scripts[v][k].what = Scripts[u][j].what => <<v, k>> = <<u, j>>

ASSUME MigrationAssumption ==
  /\ Nobody \notin Openers
  /\ Scripts \in Seq(Seq([does : Doings, what : STRING]))
  /\ MadeOnce
  /\ MaxCrashes \in Nat

VARIABLES
  recorded,   \* versions committed to schema_migrations
  now, at,    \* the version o is at, and its statement
  applied,    \* applied[o]: the versions o read from schema_migrations
  pending,    \* pending[o]: versions o inserted and has not committed
  writer,     \* the connection whose transaction is open
  crashes

vars == <<schema, recorded, stage, now, at, applied, pending, writer, crashes>>

Goto(o, where) == stage' = [stage EXCEPT ![o] = where]

\* An implicit or explicit commit of what o has pending.
Commit(o) ==
  /\ recorded' = recorded \cup pending[o]
  /\ pending' = [pending EXCEPT ![o] = {}]
  /\ writer' = IF writer = o THEN Nobody ELSE writer

\* Every statement of the first n scripts.
Rows(n) == UNION {{v} \X Statements(v) : v \in 1..n}

\* What the first n scripts leave behind, run once and in order: what they
\* make and do not drop later on.
LeftBy(n) ==
  {s \in Rows(n) :
     \A u \in 1..n : \A j \in Statements(u) :
       Drops(u, j, Scripts[s[1]][s[2]].what) => u < s[1] \/ (u = s[1] /\ j < s[2])}

\* A new scratchpad, or one an older release left at some version.
Init ==
  /\ \E n \in 0..Len(Scripts) : recorded = 1..n /\ schema = LeftBy(n)
  /\ stage = [o \in Openers |-> "closed"]
  /\ now = [o \in Openers |-> 0]
  /\ at = [o \in Openers |-> 0]
  /\ applied = [o \in Openers |-> {}]
  /\ pending = [o \in Openers |-> {}]
  /\ writer = Nobody
  /\ crashes = 0

Connect(o) ==
  /\ stage[o] = "closed"
  /\ Goto(o, "read")
  /\ UNCHANGED <<schema, recorded, now, at, applied, pending, writer, crashes>>

\* schema_migrations is created if it is missing, then read once.
ReadApplied(o) ==
  /\ stage[o] = "read"
  /\ applied' = [applied EXCEPT ![o] = recorded]
  /\ now' = [now EXCEPT ![o] = 0]
  /\ Goto(o, "next")
  /\ UNCHANGED <<schema, recorded, at, pending, writer, crashes>>

\* A bug: one migration is stepped over.
TodoSkipping(o) == {v \in Versions : v > now[o] + 1 /\ v \notin applied[o]}

\* The migrations o still has before it.
Todo(o) == {v \in Versions : v > now[o] /\ v \notin applied[o]}

\* The loop of apply_migrations goes on to the first migration not applied;
\* executescript commits the row of the one before.
StartScript(o) ==
  /\ stage[o] = "next"
  /\ \E v \in Todo(o) :
       /\ \A u \in Todo(o) : v <= u
       /\ now' = [now EXCEPT ![o] = v]
  /\ at' = [at EXCEPT ![o] = 1]
  /\ Commit(o)
  /\ Goto(o, "script")
  /\ UNCHANGED <<schema, applied, crashes>>

\* No transaction of another connection is in the way.
MayWrite(o) == writer \in {Nobody, o}

\* There is a table, column or index of that name.
There(what) == \E s \in schema : Scripts[s[1]][s[2]].what = what

\* The schema after statement k of migration v.
After(v, k) ==
  LET what == Scripts[v][k].what IN
  IF Scripts[v][k].does = "drop" THEN {s \in schema : Scripts[s[1]][s[2]].what # what}
  ELSE IF There(what) THEN schema ELSE schema \cup {<<v, k>>}

\* A statement runs and commits by itself.
RunStatement(o) ==
  /\ stage[o] = "script"
  /\ at[o] \in Statements(now[o])
  /\ MayWrite(o)
  /\ Scripts[now[o]][at[o]].does = "create" => ~There(Scripts[now[o]][at[o]].what)
  /\ schema' = After(now[o], at[o])
  /\ at' = [at EXCEPT ![o] = @ + 1]
  /\ UNCHANGED <<recorded, stage, now, applied, pending, writer, crashes>>

\* "table already exists", "duplicate column name": __init__ raises.
StatementFails(o) ==
  /\ stage[o] = "script"
  /\ at[o] \in Statements(now[o])
  /\ MayWrite(o)
  /\ Scripts[now[o]][at[o]].does = "create" /\ There(Scripts[now[o]][at[o]].what)
  /\ Goto(o, "failed")
  /\ UNCHANGED <<schema, recorded, now, at, applied, pending, writer, crashes>>

\* The whole script has run; its version is to be recorded.
ScriptEnds(o) ==
  /\ stage[o] = "script"
  /\ at[o] = Len(Scripts[now[o]]) + 1
  /\ Goto(o, "record")
  /\ UNCHANGED <<schema, recorded, now, at, applied, pending, writer, crashes>>

\* The row is inserted, in a transaction that stays open.
Record(o) ==
  /\ stage[o] = "record"
  /\ MayWrite(o)
  /\ now[o] \notin recorded
  /\ pending' = [pending EXCEPT ![o] = @ \cup {now[o]}]
  /\ writer' = o
  /\ Goto(o, "next")
  /\ UNCHANGED <<schema, recorded, now, at, applied, crashes>>

\* Another connection has recorded the version: the primary key refuses it.
RecordFails(o) ==
  /\ stage[o] = "record"
  /\ MayWrite(o)
  /\ now[o] \in recorded
  /\ Goto(o, "failed")
  /\ UNCHANGED <<schema, recorded, now, at, applied, pending, writer, crashes>>

\* "database is locked": another transaction outlasts the busy timeout.
LockTimesOut(o) ==
  /\ stage[o] \in {"script", "record"}
  /\ ~MayWrite(o)
  /\ Goto(o, "failed")
  /\ UNCHANGED <<schema, recorded, now, at, applied, pending, writer, crashes>>

\* No migration left: the commit at the end.
FinishMigrations(o) ==
  /\ stage[o] = "next"
  /\ Todo(o) = {}
  /\ Commit(o)
  /\ Goto(o, "open")
  /\ UNCHANGED <<schema, now, at, applied, crashes>>

\* The process of o dies while it migrates: what it had pending is rolled
\* back, what was committed stays.  It is started again later.
Crash(o) ==
  /\ crashes < MaxCrashes
  /\ stage[o] \in {"read", "next", "script", "record"}
  /\ crashes' = crashes + 1
  /\ pending' = [pending EXCEPT ![o] = {}]
  /\ writer' = IF writer = o THEN Nobody ELSE writer
  /\ Goto(o, "closed")
  /\ UNCHANGED <<schema, recorded, now, at, applied>>

Step(o) ==
  \/ Connect(o) \/ ReadApplied(o) \/ StartScript(o) \/ RunStatement(o)
  \/ StatementFails(o) \/ ScriptEnds(o) \/ Record(o) \/ RecordFails(o)
  \/ LockTimesOut(o) \/ FinishMigrations(o)

Settled == (\A o \in Openers : stage[o] \in {"open", "failed"}) /\ UNCHANGED vars

Next == (\E o \in Openers : Step(o) \/ Crash(o)) \/ Settled

Spec == Init /\ [][Next]_vars /\ \A o \in Openers : WF_vars(Step(o))
-----------------------------------------------------------------------------
(* Properties.                                                              *)

\* Every variable holds a value of the kind SQLite or the connection keeps.
TypeOK ==
  /\ schema \subseteq Rows(Len(Scripts))
  /\ recorded \subseteq Versions
  /\ stage \in [Openers -> {"closed", "read", "next", "script", "record", "open", "failed"}]
  /\ now \in [Openers -> Versions \cup {0}]
  /\ \A o \in Openers : stage[o] \in {"script", "record"} => now[o] \in Versions
  /\ at \in [Openers -> Nat]
  /\ applied \in [Openers -> SUBSET Versions]
  /\ pending \in [Openers -> SUBSET Versions]
  /\ writer \in Openers \cup {Nobody}
  /\ crashes \in 0..MaxCrashes

\* A version schema_migrations holds has everything it makes for good in
\* effect: no crash and no second connection can leave a migration recorded,
\* and so skipped by every later open, that did not run to its end.
RecordedIsDone == \A v \in recorded : Done(v)

\* Versions are recorded in their order and none is left out: an interrupted
\* upgrade always leaves the schema of some release, plus at most one script.
RecordedInOrder ==
  /\ \A v \in recorded : 1..v \subseteq recorded
  /\ \A s \in schema : 1..(s[1] - 1) \subseteq recorded
=============================================================================
