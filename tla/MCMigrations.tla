---------------------------- MODULE MCMigrations ----------------------------
(* Instances of Migrations: the repository's own seven scripts, statement   *)
(* by statement.                                                            *)
EXTENDS Migrations, TLC

Create(what) == [does |-> "create", what |-> what]
Ensure(what) == [does |-> "ensure", what |-> what]
Fill(what) == [does |-> "fill", what |-> what]
Drop(what) == [does |-> "drop", what |-> what]

\* 0001_init: six tables and five indexes, none of them IF NOT EXISTS.
InitScript ==
  <<Create("incidents"), Create("templates"), Create("log_events"),
    Create("idx_log_events_ts"), Create("idx_log_events_template"),
    Create("idx_log_events_severity"), Create("scratchpad_notes"), Create("query_log"),
    Create("run_metadata"), Create("idx_run_metadata_stage"), Create("idx_run_metadata_key")>>

\* 0002_adversarial: two tables.
AdversarialScript == <<Create("adversarial_objections"), Create("adversarial_summary")>>

\* 0003_objection_ids: ALTER TABLE ADD COLUMN.
ObjectionIdsScript == <<Create("adversarial_objections.objection_id")>>

\* 0004_trace_id: ADD COLUMN, an UPDATE that may be repeated, an index.
TraceIdScript ==
  <<Create("log_events.trace_id"), Fill("traces of older events"), Create("idx_log_events_trace")>>

\* 0005_event_indexes: the severity index makes way for one of another name,
\* the trace index for a partial one of its own.
EventIndexesScript ==
  <<Drop("idx_log_events_severity"), Ensure("idx_log_events_severity_ts"),
    Drop("idx_log_events_trace"), Ensure("idx_log_events_trace")>>

\* 0006_brief and 0007_rebuttal_evidence: ADD COLUMN.
BriefScript == <<Create("incidents.brief")>>
RebuttalEvidenceScript == <<Create("adversarial_objections.response_log_event_ids_json")>>

MCScripts ==
  <<InitScript, AdversarialScript, ObjectionIdsScript, TraceIdScript,
    EventIndexesScript, BriefScript, RebuttalEvidenceScript>>

Symmetry == Permutations(Openers)
-----------------------------------------------------------------------------
(* What scratchpad/db.py says, and its code does not do.                    *)

\* apply_migrations is said to "Apply any migrations not yet recorded.
\* Idempotent." (scratchpad/db.py:140): once every migration is recorded,
\* migrating changes nothing.  A connection that read schema_migrations before
\* another recorded version 5 drops idx_log_events_trace again, and may die, or
\* run into a lock, before it makes it anew.
Idempotent == [][recorded = Versions => schema' = schema]_vars
=============================================================================
