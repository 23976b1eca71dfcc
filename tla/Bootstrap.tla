------------------------------ MODULE Bootstrap ------------------------------
(***************************************************************************)
(* The format bootstrapper (bootstrap/*.py): a schema for a file no reader *)
(* recognised, out of the cache, out of the lines themselves, or out of a  *)
(* model's reply, validated on lines it was not derived from.              *)
(*                                                                         *)
(* A schema is [shape, level, source, first]: the timestamp shape a line   *)
(* leads with, whether a severity and a name follow, and which is first.   *)
(***************************************************************************)
EXTENDS Adapters

CONSTANTS SampleSize,   \* bootstrap.sample_size
          MatchFloor,   \* bootstrap.min_match_rate, in percent
          SourceShare,  \* _SOURCE_SHARE, in percent
          MaxSubshapes  \* MAX_SUBSHAPES

Schema == [shape : {Shapes[i] : i \in DOMAIN Shapes}, level : BOOLEAN, source : BOOLEAN,
           first : BOOLEAN]

\* extracted_fields.
Fields(schema) == (IF schema.level THEN 1 ELSE 0) + (IF schema.source THEN 1 ELSE 0)

\* slug: the order is named only when there is one.
Slug(schema) == IF schema.level /\ schema.source THEN schema ELSE [schema EXCEPT !.first = FALSE]

\* The lines bootstrapping looks at, those it infers from, and those it holds out.
Usable(file) == First(file.lines, 10 * SampleSize)
Sample(file) == First(file.lines, SampleSize)
Holdout(file) ==
  LET rest == SubSeq(Usable(file), SampleSize + 1, Len(Usable(file)))
  IN  IF rest = <<>> THEN Sample(file) ELSE rest

\* _reads: matched, and its timestamp parsed.
Reads(schema, line) == Matches(schema, line) /\ line.shapes[schema.shape] # BadTime

\* match_rate, as a number of lines.
Rate(schema, lines) == HowMany(lines, LAMBDA l : Reads(schema, l))

\* The gate.
Passes(schema, lines) == lines # <<>> /\ Reaches(Rate(schema, lines), Len(lines), MatchFloor)
-----------------------------------------------------------------------------
(* Structural inference.                                                    *)

Position(shape) == CHOOSE i \in DOMAIN Shapes : Shapes[i] = shape

Found(lines) == UNION {DOMAIN lines[i].shapes : i \in DOMAIN lines}

\* Commonest shape first, the one met first between equals.
Commoner(lines, s, t) ==
  LET count(x) == HowMany(lines, LAMBDA l : x \in DOMAIN l.shapes)
      met(x) == Min({i \in DOMAIN lines : x \in DOMAIN lines[i].shapes})
  IN  \/ count(s) > count(t)
      \/ count(s) = count(t) /\ met(s) < met(t)
      \/ count(s) = count(t) /\ met(s) = met(t) /\ Position(s) < Position(t)

Candidates(lines) ==
  LET level == 2 * HowMany(lines, LAMBDA l : l.level) >= Len(lines)
      named == Reaches(HowMany(lines, LAMBDA l : l.source # Unknown), Len(lines), SourceShare)
  IN  {[shape |-> s, level |-> level, source |-> f \in {"after", "before"}, first |-> f = "before"] :
         s \in Found(lines), f \in IF named THEN {"after", "before", "none"} ELSE {"none"}}

\* infer_structurally: the candidate that reads most of the lines, the one tried first
\* between equals; none when no line holds a timestamp.
Structural(lines) ==
  LET Order(c) == IF ~c.source THEN 3 ELSE IF c.first THEN 2 ELSE 1
      Better(c, d) ==
        \/ Rate(c, lines) > Rate(d, lines)
        \/ /\ Rate(c, lines) = Rate(d, lines)
           /\ \/ c.shape # d.shape /\ Commoner(lines, c.shape, d.shape)
              \/ c.shape = d.shape /\ Order(c) < Order(d)
  IN  {c \in Candidates(lines) : \A d \in Candidates(lines) \ {c} : Better(c, d)}

\* Structural inference, as far as it passes the gate.
Inspected(file) == {s \in Structural(Sample(file)) : Passes(s, Holdout(file))}

\* Schemas that pass the gate and explain the most, then read the most; equals are left open.
BestOf(schemas, file) ==
  LET Above(s, t) == \/ Fields(s) > Fields(t)
                     \/ /\ Fields(s) = Fields(t)
                        /\ Rate(s, Holdout(file)) > Rate(t, Holdout(file))
  IN  {s \in schemas : ~\E t \in schemas : Above(t, s)}

\* A bug: a cached schema is believed without being scored on this file.
KnownUnscored(cached, file) == BestOf(cached, file)

\* _best_known, over the entries of the cache that load.
Known(cached, file) == BestOf({s \in cached : Passes(s, Holdout(file))}, file)

\* A BootstrapResult that succeeded.
Proposals(route, schemas) == {[route |-> route, schema |-> s] : s \in schemas}

\* A bug, the first version's: whatever the cache holds that fits ends the search.
FreeCacheFirst(cached, file) ==
  IF Known(cached, file) # {} THEN Proposals("known", Known(cached, file))
  ELSE Proposals("structural", Inspected(file))

\* The better of the cached schema and the structural one, the cached one between equals.
Free(cached, file) ==
  LET best == BestOf(Known(cached, file) \cup Inspected(file), file)
      known == best \cap Known(cached, file)
  IN  IF known # {} THEN Proposals("known", known) ELSE Proposals("structural", best)

\* What a model's reply may come to.  A claim that is not in its line, or is no shape or
\* severity, is dropped; the shape and the fields most of the surviving readings have make
\* the schema.  A reply without a usable reading makes none.
Inferable(file) ==
  LET lines == Sample(file)
  IN  {s \in Schema :
         /\ s.shape \in Found(lines) /\ ~s.first
         /\ s.level => \E i \in DOMAIN lines : lines[i].level
         /\ s.source => \E i \in DOMAIN lines : lines[i].source # Unknown}
-----------------------------------------------------------------------------
(* Sub-shapes: a schema for the lines of one shape.                         *)

\* _shape_of: the first timestamp shape, is there a severity, is there a name, how wide.
Signature(line) ==
  [shape |-> IF DOMAIN line.shapes = {} THEN None
             ELSE Shapes[Min({Position(s) : s \in DOMAIN line.shapes})],
   level |-> line.level, source |-> line.source # Unknown, width |-> line.width]

\* The commonest signatures of the sample, in the order they are tried.
Clusters(lines) ==
  LET count(g) == HowMany(lines, LAMBDA l : Signature(l) = g)
      met(g) == Min({i \in DOMAIN lines : Signature(lines[i]) = g})
      all == {Signature(lines[i]) : i \in DOMAIN lines}
  IN  First(SetToSortSeq(all, LAMBDA g, h : count(g) > count(h)
                                            \/ (count(g) = count(h) /\ met(g) < met(h))),
            MaxSubshapes)

\* The first cluster whose own lines give a schema that reads enough of them.  Those lines
\* are of the sample the schema was derived from.
Subshape(file) ==
  LET lines == Sample(file)
      clusters == Clusters(lines)
      Own(g) == Picked(lines, {i \in DOMAIN lines : g.shape \in DOMAIN lines[i].shapes})
      Fitting(g) == UNION {{s \in Structural(own) : Passes(s, own)} : own \in {Own(g)}}
      fits == {i \in DOMAIN clusters : clusters[i].shape # None /\ Fitting(clusters[i]) # {}}
  IN  IF Len(clusters) < 2 \/ fits = {} THEN {} ELSE Fitting(clusters[Min(fits)])
=============================================================================
