------------------------------- MODULE Report -------------------------------
(***************************************************************************)
(* The incident report (report/generator.py, findings.py): which note      *)
(* leads, whether its citations resolve, what window it claims, and which  *)
(* of the recorded metrics are said aloud.                                 *)
(*                                                                         *)
(* A note is [run, step, role, conclusion, confidence, templates, events], *)
(* notes being listed as db.notes returns them; scores maps a template to  *)
(* its anomaly score, view a recorded metric to its value, said a health   *)
(* check to its recorded verdict.  Metrics whose value is text are numbers *)
(* here: 1 for the value that triggers, or for any text where that is what *)
(* is asked, and 0 for another.                                            *)
(***************************************************************************)
EXTENDS LogHealth, SequencesExt

ROLE_RANK == [accounting |-> 0, finding |-> 1]

ConfidenceRank == [low |-> 0, medium |-> 1, high |-> 2]

\* The metrics declared to be worth acting on above a threshold, and that
\* threshold.  (The health status and the override are Collect's.)
Thresholds == [fallback |-> 0, year_inferred |-> 0, parse_errors |-> 0,
               unmapped_severity |-> 0, evicted |-> 0, largest_share |-> 60,
               severity_none |-> 0, needle_position |-> 5, digest_chars |-> 40000,
               orphan_events |-> 0, redaction_off |-> 0, budget_limited |-> 0,
               input_growth |-> 5, synthesis_outcome |-> 0, dropped_citations |-> 0,
               synthesis_failed |-> 0, critique_failed |-> 0, refused_stages |-> 0,
               objections |-> 0, unexplained_signal |-> 0, unrebutted |-> 0,
               calibration |-> 0, over_merged |-> 0]

\* Those _health_warnings has no warning for: the year's only changes the words
\* of the fallback's, the other four have no reader at all.
Unworded ==
  {"year_inferred", "input_growth", "synthesis_outcome", "dropped_citations", "objections"}

\* MetricView.triggers: reduction has a floor, coverage an upper bound.
Triggered(view) ==
  {m \in DOMAIN Thresholds : MoreThan(view, m, Thresholds[m])}
  \cup {m \in {"coverage"} : Uncovered(view)}
  \cup {m \in {"reduction"} : Recorded(view, m) /\ view[m] > 0 /\ view[m] < 2}

\* health.OWNED_METRICS: the check that restates a metric's warning.
Owner == [parse_errors |-> "parse_errors", coverage |-> "template_coverage",
          reduction |-> "template_count", largest_share |-> "dominant_template",
          over_merged |-> "over_merged"]

\* The verdicts the health section at the top prints as problems.
Problems(said) == {c \in DOMAIN said : ReadVerdict(said[c]) # "ok"}

\* _health_warnings: a warning is left to the health section only where that
\* section states it.
Warnings(view, said) ==
  {m \in Triggered(view) \ Unworded : m \in DOMAIN Owner => Owner[m] \notin Problems(said)}
-----------------------------------------------------------------------------
Best(scores, templates) ==
  IF templates = {} THEN 0
  ELSE Max({IF t \in DOMAIN scores THEN scores[t] ELSE 0 : t \in templates})

\* rank_notes' key, most significant first: the role, then whether the note is
\* the conclusion, then the best score it cites, its confidence, its step.
Key(note, scores) ==
  <<ROLE_RANK[note.role], IF note.conclusion THEN 1 ELSE 0,
    Best(scores, note.templates), ConfidenceRank[note.confidence], -note.step>>

Exceeds(a, b) ==
  \E i \in DOMAIN a : a[i] > b[i] /\ \A j \in 1 .. i - 1 : a[j] = b[j]

\* The order of the notes: a stable sort, in reverse.
RankNotes(notes, scores) ==
  LET Before(i, j) == \/ Exceeds(Key(notes[i], scores), Key(notes[j], scores))
                      \/ Key(notes[i], scores) = Key(notes[j], scores) /\ i < j
      order == SetToSortSeq(DOMAIN notes, Before)
  IN  [k \in DOMAIN order |-> notes[order[k]]]

\* _at_a_glance: the window is the leading note's, or the first signal's.
WindowTemplates(ranked, signal) ==
  IF ranked # <<>> /\ Head(ranked).templates # {} THEN Head(ranked).templates
  ELSE IF signal = <<>> THEN {} ELSE {Head(signal)}

\* verify_citations: ids no row carries.
Missing(note, pad) ==
  [events |-> note.events \ DOMAIN pad.events,
   templates |-> note.templates \ {t.id : t \in pad.templates}]

Resolves(note, pad) == Missing(note, pad) = [events |-> {}, templates |-> {}]

\* collect: what the templates render, from one reading of the scratchpad.
\* health is [said, status, overridden], as recorded; the status leads.
Collect(pad, view, health, notes, scores) ==
  LET ranked == RankNotes(notes, scores)
  IN  [notes |-> ranked,
       unresolved |-> {i \in DOMAIN notes : ~Resolves(notes[i], pad)},
       window |-> WindowTemplates(ranked, <<>>),
       warnings |-> Warnings(view, health.said),
       status |-> health.status,
       problems |-> Problems(health.said),
       overridden |-> health.overridden]
=============================================================================
