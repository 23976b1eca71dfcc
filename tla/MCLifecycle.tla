----------------------------- MODULE MCLifecycle -----------------------------
(* Instances of Lifecycle: a log, and thresholds before and after an edit. *)
EXTENDS Lifecycle, TLC

CONSTANTS p1, p2

Row(source, minute, template) ==
  [source |-> source, minute |-> minute, template |-> template, fails |-> FALSE,
   frame |-> FALSE, zone |-> NoRaw]

Template(id, count) ==
  [id |-> id, tail |-> NoTail, literal |-> FALSE, shows |-> FALSE, count |-> count]

\* Lines that did not parse, and one template with most of the events: what
\* the thresholds below disagree on.  Source 1, the busiest, runs an hour ahead
\* of the other two.
Noisy ==
  [events |-> <<Row(1, 60, 1), Row(2, 0, 2), Row(3, 0, 2), Row(1, 190, 2), Row(2, 130, 2),
                Row(3, 130, 2), Row(1, 300, 2)>>,
   templates |-> {Template(1, 1), Template(2, 6)},
   metrics |-> [events_loaded |-> 7, lines_read |-> 14, parse_errors |-> 7,
                coverage |-> 100, reduction |-> 3, largest_share |-> 85,
                over_merged |-> 0, needle_position |-> 6],
   shifted |-> {[source |-> 1, shift |-> -1]}]

MCLogs == {Noisy}

Strict ==
  [timestamp_warn_below |-> 95, timestamp_fail_below |-> 0,
   parse_error_warn_above |-> 0, parse_error_fail_above |-> 20,
   parse_error_refuses |-> TRUE, dominant_warn_above |-> 60, min_reduction |-> 2,
   split_warn_above |-> 35, unmasked_warn_above |-> 10, hidden_warn_above |-> 25,
   hidden_min_lines |-> 5, continuation_warn_above |-> 1, skew_step |-> 60,
   skew_max_hours |-> 1, skew_min_minutes |-> 30, skew_min_gain |-> 50,
   skew_min_source_events |-> 2, fail_on_corroborated_skew |-> TRUE,
   scan_max |-> 100, raw_sample |-> 2]

Lenient == [Strict EXCEPT !.parse_error_warn_above = 60, !.parse_error_fail_above = 60,
                          !.dominant_warn_above = 90]

MCConfigs == {Strict, Lenient}

\* What these logs say of their clocks is so.
ASSUME WellClockedLogs == \A log \in MCLogs, cfg \in MCConfigs : WellClocked(log, cfg)

\* The quiet template is the anomalous one.
MCScores == <<9, 2>>

Kind(role, conclusion, confidence, templates) ==
  [role |-> role, conclusion |-> conclusion, confidence |-> confidence,
   templates |-> templates]

\* The conclusion of a search; the skeleton's note is the plain finding.
MCNoteKinds == {Kind("finding", TRUE, "medium", {1, 2})}

Symmetry == Permutations(Procs)
-----------------------------------------------------------------------------
(* What metrics.py says, and cli.py does not do.                            *)

\* "a report written from a run the check refused has to say that somebody
\* overrode it" (metrics.py:282), as --ignore-health promises (cli.py:176):
\* while the notes of such a run are in the scratchpad, the report says so.  A
\* later command that is refused, or resumes over a check that passes, takes it
\* back: _preflight records the override of its own run either way (cli.py:200).
OverrideIsSaid ==
  \A f \in DOMAIN files :
    (\E i \in DOMAIN files[f].notes : files[f].notes[i].run \in files[f].overrode)
      => Rendered(f).says.overridden
=============================================================================
