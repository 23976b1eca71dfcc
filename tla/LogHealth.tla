------------------------------ MODULE LogHealth ------------------------------
(***************************************************************************)
(* The pre-flight log health check (health.py, thresholds in              *)
(* common/config.py, HealthConfig): twelve checks over one ingested        *)
(* scratchpad, each with a verdict, and the worst of them as the status.   *)
(*                                                                         *)
(* A scratchpad is [metrics, events, templates]:                           *)
(*   metrics    a function whose domain is the metrics ingest recorded     *)
(*              (MetricView: absent and zero are different answers);       *)
(*   events     the rows of log_events in id order, each                   *)
(*              [source, minute, template, fails, frame, zone], fails and  *)
(*              frame being what the two text scans look for and zone how  *)
(*              the kept raw line writes its UTC offset;                   *)
(*   templates  a set of [id, tail, literal, shows, count]: the last four  *)
(*              tokens, NoTail when fewer than two are constant; does the  *)
(*              pattern hold an identifier, and a failure word.            *)
(* Shares are compared as whole percents of the exact fractions.           *)
(***************************************************************************)
EXTENDS Integers, Sequences, FiniteSets, FiniteSetsExt

NoTail == "none"
NoRaw == "none"     \* the raw line was not kept, or holds no ISO timestamp

Statuses == {"ok", "warn", "fail"}

\* HealthReport.status: the worst verdict any check reached.
Worst(verdicts) ==
  IF \E c \in DOMAIN verdicts : verdicts[c] = "fail" THEN "fail"
  ELSE IF \E c \in DOMAIN verdicts : verdicts[c] = "warn" THEN "warn" ELSE "ok"

\* MetricView.number: none of a metric that was never recorded.
Recorded(view, m) == m \in DOMAIN view

\* MetricView.triggers, for a metric whose threshold is a lower bound.
MoreThan(view, m, threshold) == Recorded(view, m) /\ view[m] > threshold

\* part / whole > percent, and part / whole < percent.
Above(part, whole, percent) == 100 * part > percent * whole
Below(part, whole, percent) == 100 * part < percent * whole

\* A bug: a measurement that is missing is read as one that is fine.
UnmeasuredPasses == "ok"

\* What a check says whose measurement ingest never recorded.
Unmeasured == "warn"

WarnIf(condition) == IF condition THEN "warn" ELSE "ok"
-----------------------------------------------------------------------------
\* event_count, when the metric is missing.
Loaded(pad) ==
  IF Recorded(pad.metrics, "events_loaded") THEN pad.metrics["events_loaded"]
  ELSE Len(pad.events)

Events(pad) == IF Loaded(pad) = 0 THEN "fail" ELSE "ok"

\* Events whose time was read from their own line: only the raw-line reader
\* keeps an event it could not timestamp.
Timestamped(pad) ==
  LET raw == MoreThan(pad.metrics, "fallback", 0)
      lost == IF raw /\ Recorded(pad.metrics, "unparseable_timestamp")
              THEN pad.metrics["unparseable_timestamp"] ELSE 0
  IN  IF lost > Loaded(pad) THEN 0 ELSE Loaded(pad) - lost

Timestamps(pad, cfg) ==
  IF Below(Timestamped(pad), Loaded(pad), cfg.timestamp_warn_below)
  THEN IF Below(Timestamped(pad), Loaded(pad), cfg.timestamp_fail_below)
       THEN "fail" ELSE "warn"
  ELSE WarnIf(MoreThan(pad.metrics, "year_inferred", 0))
-----------------------------------------------------------------------------
(* Clock skew: the slots of one source shifted against those of another.    *)

Sources(pad) == {pad.events[i].source : i \in DOMAIN pad.events}

\* The events of some of the sources.
Held(pad, sources) == Cardinality({i \in DOMAIN pad.events : pad.events[i].source \in sources})

\* source_activity: events per source.
Activity(pad) == [s \in Sources(pad) |-> Held(pad, {s})]

\* source_minutes, in slots one step wide: the slots each source logged in.
Slots(pad, cfg) ==
  [s \in Sources(pad) |->
     {e.minute \div cfg.skew_step :
        e \in {pad.events[i] : i \in {j \in DOMAIN pad.events : pad.events[j].source = s}}}]

Reach(cfg) == (cfg.skew_max_hours * 60) \div cfg.skew_step

Distance(k) == IF k < 0 THEN -k ELSE k

Overlap(ref, other, shift) == Cardinality({s \in other : s + shift \in ref})

\* _best_shift: the scan from one end of the reach to the other, where a tie
\* goes to the smaller shift and of two opposite ones to the first met.
BestShift(ref, other, cfg) ==
  LET Better(k, best) ==
        \/ Overlap(ref, other, k) > Overlap(ref, other, best)
        \/ /\ Overlap(ref, other, k) = Overlap(ref, other, best)
           /\ Distance(k) < Distance(best)
      Keep(k, best) == IF k # 0 /\ Better(k, best) THEN k ELSE best
      upto[k \in -Reach(cfg) - 1 .. Reach(cfg)] ==
        IF k < -Reach(cfg) THEN 0 ELSE Keep(k, upto[k - 1])
  IN  upto[Reach(cfg)]

\* _significant: long enough to say, and better aligned than no shift at all
\* by a share of the smaller source.
Significant(ref, other, shift, cfg) ==
  LET smaller == Min({Cardinality(ref), Cardinality(other)})
      gain == Overlap(ref, other, shift) - Overlap(ref, other, 0)
  IN  /\ smaller > 0
      /\ Distance(shift) * cfg.skew_step >= cfg.skew_min_minutes
      /\ 100 * gain >= cfg.skew_min_gain * smaller

\* Busiest first, the name deciding between equals.
Busiest(candidates, counts) ==
  CHOOSE s \in candidates : \A t \in candidates \ {s} :
    counts[s] > counts[t] \/ (counts[s] = counts[t] /\ s > t)

Comparable(pad, cfg) ==
  {s \in Sources(pad) : Activity(pad)[s] >= cfg.skew_min_source_events}

\* The shift of every comparable source against the busiest one's clock.
Clocks(comparable, counts, slots, cfg) ==
  LET pivot == Busiest(comparable, counts)
  IN  [s \in comparable |->
         LET shift == BestShift(slots[pivot], slots[s], cfg)
         IN  IF s # pivot /\ Significant(slots[pivot], slots[s], shift, cfg)
             THEN shift ELSE 0]

\* A bug, the first version's: the busiest source's clock is the right one.
PivotsClock(clock, pad) == {0}

\* The clocks that hold the most events, the smallest shift deciding between
\* equals: two opposite ones are told apart by the order of the rows.
Consensuses(clock, pad) ==
  LET weight[c \in {clock[s] : s \in DOMAIN clock}] ==
        Held(pad, {s \in DOMAIN clock : clock[s] = c})
      Heavier(c, d) == weight[c] > weight[d]
                       \/ (weight[c] = weight[d] /\ Distance(c) < Distance(d))
  IN  {c \in DOMAIN weight : \A d \in DOMAIN weight : ~Heavier(d, c)}

\* _find_skews: [anchor, skews], the sources outside the clock taken as right
\* that are significantly shifted against its busiest one.
FindSkews(pad, cfg, consensus) ==
  LET counts == Activity(pad)
      slots == Slots(pad, cfg)
      comparable == Comparable(pad, cfg)
      clock == Clocks(comparable, counts, slots, cfg)
      anchor == Busiest({s \in comparable : clock[s] = consensus}, counts)
      Shift(s) == BestShift(slots[anchor], slots[s], cfg)
  IN  [anchor |-> anchor,
       skews |-> {[source |-> s, shift |-> Shift(s)] :
                    s \in {t \in comparable :
                             /\ clock[t] # consensus
                             /\ Significant(slots[anchor], slots[t], Shift(t), cfg)}}]

SkewReports(pad, cfg) ==
  LET comparable == Comparable(pad, cfg)
      clock == Clocks(comparable, Activity(pad), Slots(pad, cfg), cfg)
  IN  IF Cardinality(comparable) < 2 THEN {}
      ELSE {FindSkews(pad, cfg, c) : c \in Consensuses(clock, pad)}
-----------------------------------------------------------------------------
(* Notation: how the first raw lines of each source write their offset.     *)

ZoneSample(pad, s, cfg) ==
  LET own == {i \in DOMAIN pad.events : pad.events[i].source = s}
  IN  {i \in own : Cardinality({j \in own : j < i}) < cfg.raw_sample
                   /\ pad.events[i].zone # NoRaw}

Written(pad, s, cfg) == {pad.events[i].zone : i \in ZoneSample(pad, s, cfg)}

NaiveSources(pad, cfg) ==
  LET naive(s) == {i \in ZoneSample(pad, s, cfg) : pad.events[i].zone = "naive"}
  IN  {s \in Sources(pad) : naive(s) # {}
         /\ 2 * Cardinality(naive(s)) >= Cardinality(ZoneSample(pad, s, cfg))}

MixedSources(pad, cfg) ==
  {s \in Sources(pad) : "naive" \in Written(pad, s, cfg)
                        /\ Written(pad, s, cfg) # {"naive"}}

ZonedAnywhere(pad, cfg) ==
  \E s \in Sources(pad) : Written(pad, s, cfg) \ {"naive"} # {}

\* HEALTH_NAIVE_SOURCES, recorded only when it says something.
Unzoned(pad, cfg) ==
  IF \/ NaiveSources(pad, cfg) # {} /\ ZonedAnywhere(pad, cfg)
     \/ MixedSources(pad, cfg) # {}
  THEN NaiveSources(pad, cfg) \cup MixedSources(pad, cfg) ELSE {}

\* Shifted, and one of the two writes no offset where the other does.
Corroborated(pad, cfg, found) ==
  \E k \in found.skews :
    /\ Written(pad, k.source, cfg) # {} /\ Written(pad, found.anchor, cfg) # {}
    /\ (k.source \in NaiveSources(pad, cfg)) # (found.anchor \in NaiveSources(pad, cfg))

TimezonesOf(pad, cfg, found) ==
  IF found.skews # {}
  THEN IF Corroborated(pad, cfg, found) /\ cfg.fail_on_corroborated_skew
       THEN "fail" ELSE "warn"
  ELSE WarnIf(Unzoned(pad, cfg) # {})

Timezones(pad, cfg) ==
  IF SkewReports(pad, cfg) = {} THEN WarnIf(Unzoned(pad, cfg) # {})
  ELSE TimezonesOf(pad, cfg, CHOOSE found \in SkewReports(pad, cfg) : TRUE)
-----------------------------------------------------------------------------
ParseErrors(pad, cfg) ==
  LET errors == pad.metrics["parse_errors"]
      lines == pad.metrics["lines_read"]
      rate == IF lines = 0 THEN 0 ELSE errors
  IN  IF ~Recorded(pad.metrics, "parse_errors") \/ ~Recorded(pad.metrics, "lines_read")
      THEN Unmeasured
      ELSE IF ~Above(rate, lines, cfg.parse_error_warn_above) THEN "ok"
      ELSE IF cfg.parse_error_refuses /\ Above(rate, lines, cfg.parse_error_fail_above)
      THEN "fail" ELSE "warn"

\* template_coverage is below one when an event has no reachable template.
Uncovered(view) == Recorded(view, "coverage") /\ view["coverage"] < 100

TemplateCoverage(pad) ==
  IF ~Recorded(pad.metrics, "coverage") THEN Unmeasured
  ELSE IF Uncovered(pad.metrics) THEN "fail" ELSE "ok"

TemplateCount(pad, cfg) ==
  IF ~Recorded(pad.metrics, "reduction") THEN Unmeasured
  ELSE WarnIf(0 < pad.metrics["reduction"] /\ pad.metrics["reduction"] < cfg.min_reduction)

Dominant(pad, cfg) ==
  WarnIf(MoreThan(pad.metrics, "largest_share", cfg.dominant_warn_above))

EventsIn(templates) == MapThenSumSet(LAMBDA t : t.count, templates)

\* Templates that end identically: one message split by its header.
SplitTemplates(pad) ==
  {t \in pad.templates : t.tail # NoTail
                         /\ \E u \in pad.templates \ {t} : u.tail = t.tail}

Split(pad, cfg) ==
  WarnIf(Above(EventsIn(SplitTemplates(pad)), EventsIn(pad.templates), cfg.split_warn_above))

UnmaskedIds(pad, cfg) ==
  WarnIf(Above(EventsIn({t \in pad.templates : t.literal}), EventsIn(pad.templates),
               cfg.unmasked_warn_above))

OverMerged(pad) == WarnIf(MoreThan(pad.metrics, "over_merged", 0))
-----------------------------------------------------------------------------
(* Text scans: every stride-th event, so that the cost has a cap.           *)

Stride(pad, cfg) ==
  LET needed == (Loaded(pad) + cfg.scan_max - 1) \div cfg.scan_max
  IN  IF needed < 1 THEN 1 ELSE needed

\* text_matches_by_template: the rows whose id the stride divides.
Scanned(pad, cfg) == {i \in DOMAIN pad.events : i % Stride(pad, cfg) = 0}

Failing(pad, rows) == {i \in rows : pad.events[i].fails}

\* Scanned rows that fail, in a template that does not show it and has
\* members that do not.
Hidden(pad, cfg) ==
  LET Of(t) == {i \in Scanned(pad, cfg) : pad.events[i].template = t}
      Shows(t) == \E u \in pad.templates : u.id = t /\ u.shows
  IN  {i \in Failing(pad, Scanned(pad, cfg)) :
         LET t == pad.events[i].template
         IN  ~Shows(t) /\ Cardinality(Failing(pad, Of(t))) < Cardinality(Of(t))}

HiddenFailures(pad, cfg) ==
  LET hidden == Cardinality(Hidden(pad, cfg))
      failing == Cardinality(Failing(pad, Scanned(pad, cfg)))
  IN  WarnIf(/\ Above(hidden, failing, cfg.hidden_warn_above)
             /\ hidden * Stride(pad, cfg) >= cfg.hidden_min_lines)

Multiline(pad, cfg) ==
  LET scanned == Scanned(pad, cfg)
  IN  WarnIf(Above(Cardinality({i \in scanned : pad.events[i].frame}),
                   Cardinality(scanned), cfg.continuation_warn_above))
-----------------------------------------------------------------------------
\* check_health: an empty scratchpad has one verdict and no other.
Check(pad, cfg) ==
  IF Loaded(pad) = 0 THEN [events |-> Events(pad)]
  ELSE [events |-> Events(pad),
        timestamps |-> Timestamps(pad, cfg),
        timezones |-> Timezones(pad, cfg),
        parse_errors |-> ParseErrors(pad, cfg),
        template_coverage |-> TemplateCoverage(pad),
        template_count |-> TemplateCount(pad, cfg),
        dominant_template |-> Dominant(pad, cfg),
        split_templates |-> Split(pad, cfg),
        unmasked_ids |-> UnmaskedIds(pad, cfg),
        over_merged |-> OverMerged(pad),
        hidden_failures |-> HiddenFailures(pad, cfg),
        multiline |-> Multiline(pad, cfg)]

\* A bug: INSERT OR IGNORE, and the first verdict recorded stays.
UpsertedOnce(said, verdicts) ==
  [c \in DOMAIN said \cup DOMAIN verdicts |->
     IF c \in DOMAIN said THEN said[c] ELSE verdicts[c]]

\* HealthReport.metrics, upserted over what the scratchpad already says.
Upserted(said, verdicts) ==
  [c \in DOMAIN said \cup DOMAIN verdicts |->
     IF c \in DOMAIN verdicts THEN verdicts[c] ELSE said[c]]

\* recorded_checks: a verdict this code did not write is a warning.
ReadVerdict(text) == IF text \in Statuses THEN text ELSE "warn"
=============================================================================
