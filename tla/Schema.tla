------------------------------- MODULE Schema -------------------------------
(***************************************************************************)
(* What opening a scratchpad promises (ScratchpadDB.__init__ and           *)
(* apply_migrations of scratchpad/db.py): the file that every later query  *)
(* meets has the tables, columns and indexes of this release, whoever put  *)
(* them there.  Migrations is the way the connections get there.           *)
(***************************************************************************)
EXTENDS Integers, Sequences

CONSTANTS
  Openers,     \* connections that open the scratchpad
  Scripts      \* Scripts[v][k]: what statement k of migration v does, and to what

\* CREATE and ADD COLUMN, CREATE IF NOT EXISTS, UPDATE, DROP IF EXISTS.
Doings == {"create", "ensure", "fill", "drop"}

Versions == 1..Len(Scripts)

VARIABLES
  schema,     \* <<v, k>>: what statement k of migration v made is there
  stage       \* stage[o]: how far connection o has come; "open" when it is usable

Statements(v) == 1..Len(Scripts[v])
Drops(v, k, what) == Scripts[v][k].does = "drop" /\ Scripts[v][k].what = what

\* The statements that make what no script takes away again.
Lasting(v) ==
  {k \in Statements(v) :
     ~\E u \in Versions : \E j \in Statements(u) : Drops(u, j, Scripts[v][k].what)}

Done(v) == \A k \in Lasting(v) : <<v, k>> \in schema

\* A scratchpad that opens has every table, every column and every index that
\* no script replaces, whoever made them.  An index that a script drops and
\* makes anew may be missing: see Idempotent in MCMigrations.
OpenIsComplete == \A o \in Openers : stage[o] = "open" => \A v \in Versions : Done(v)
=============================================================================
