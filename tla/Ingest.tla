------------------------------- MODULE Ingest -------------------------------
(***************************************************************************)
(* pipeline.ingest: a source is redacted in chunks, across worker          *)
(* processes or here, templated line by line, stored in batches that       *)
(* commit on their own, then scored, measured and checked.  An ingest may  *)
(* die between any two commits, and be run again on the same incident.     *)
(*                                                                         *)
(* A line is what the properties tell apart: the value it hides, the       *)
(* number of texts of the record that carry it, and its shape, which is    *)
(* what Drain3 groups by.  A placeholder is the pair of the ingest, whose  *)
(* salt is drawn anew, and the value.                                      *)
(***************************************************************************)
EXTENDS Integers, Sequences, SequencesExt, FiniteSets

CONSTANTS
  Sources,        \* the parsed files an incident may be ingested from, one after the other
  Briefs,         \* the values a brief may hide
  NoSecret,       \* a line, or a brief, that hides nothing
  Configs,        \* records [strict, vault, workers, calibrate]
  ChunkSize,      \* REDACT_CHUNK_SIZE
  BatchSize,      \* EVENT_BATCH_SIZE
  MinParallel,    \* MIN_PARALLEL_RECORDS
  CommitInterval, \* _COMMIT_INTERVAL of the vault
  MaxClusters,    \* drain3.max_clusters
  FewClusters,    \* drain3.uncompressible_max_clusters
  Candidates,     \* the thresholds calibration tries
  MaxIngests      \* bound: ingests of the incident

ASSUME IngestAssumption ==
  /\ \A n \in {ChunkSize, BatchSize, MinParallel, CommitInterval, MaxClusters, FewClusters,
                MaxIngests} : n \in Nat \ {0}
  /\ Candidates \subseteq Nat /\ Candidates # {} /\ IsFiniteSet(Candidates)
  /\ \A c \in Configs : c.workers \in Nat /\ {c.strict, c.vault, c.calibrate} \subseteq BOOLEAN
  /\ \A s \in Sources : /\ s \in Seq({s[i] : i \in DOMAIN s})
                         /\ \A i \in 1..Len(s) : s[i].copies \in Nat \ {0}

VARIABLES
  \* what the disk holds
  pad,        \* the scratchpad: the rows of each table; None before the first ingest
  vaultFile,  \* the placeholders the vault has committed, {} when there is no vault
  snapshot,   \* the Drain3 tree saved beside it, None when there is none
  \* what the running ingest holds
  pc,
  source,     \* the lines it reads
  config,
  ingests,    \* how many were started; the last one's number stands for its salt
  taken,      \* lines read so far
  chunk, redacted, merged,   \* the chunk, its redacted lines, and how many of its slices are merged
  pooled,     \* is the worker pool open
  counts, before,            \* the redactor's tally, and its value before the chunk
  pending,    \* placeholders the vault has not committed
  tree,       \* Drain3: live clusters, least recently used first; next id; capacity
  registry,   \* the templater's own count per template id
  batch       \* events not inserted yet

disk == <<pad, vaultFile, snapshot>>
redaction == <<chunk, redacted, merged, pooled, counts, before, pending>>
templating == <<tree, registry>>
vars == <<disk, pc, source, config, ingests, taken, redaction, templating, batch>>

-----------------------------------------------------------------------------
\* Redaction

None == [none |-> TRUE]

\* How many placeholders a line carries once redacted.
Hits(line) == IF config.strict /\ line.secret # NoSecret THEN line.copies ELSE 0

\* The sum of a sequence of numbers.
Total(weights) ==
  LET sum[n \in 0..Len(weights)] == IF n = 0 THEN 0 ELSE sum[n - 1] + weights[n]
  IN  sum[Len(weights)]

Tally(lines) == Total([i \in DOMAIN lines |-> Hits(lines[i])])

Token(secret) == <<ingests, secret>>

Tokens(line) == IF Hits(line) = 0 THEN {} ELSE {Token(line.secret)}

\* One slice per worker, or more of them when the chunk does not divide.
SliceSize == LET n == Len(chunk) \div config.workers IN IF n = 0 THEN 1 ELSE n

Slice == LET last == SliceSize * (merged + 1)
         IN  SubSeq(chunk, SliceSize * merged + 1, IF last < Len(chunk) THEN last ELSE Len(chunk))

\* The results of a slice follow those of the slices before it.
Joined(slice) == redacted \o slice

\* Mutant: what was counted stays counted.
RecountKept == counts

\* What the tally is when a broken chunk is begun again.
Recount == before

\* Is the pool worth asking for this chunk.
Parallel == pooled /\ Len(chunk) >= MinParallel

\* The redactor hands the vault every replacement; it commits every CommitInterval of them.
Recorded(line) ==
  LET n == pending.records + Hits(line)
      buffered == pending.tokens \cup Tokens(line)
      due == config.vault /\ n >= CommitInterval
  IN /\ vaultFile' = IF due THEN vaultFile \cup buffered ELSE vaultFile
     /\ pending' = IF ~config.vault THEN pending
                   ELSE [tokens |-> IF due THEN {} ELSE buffered, records |-> n % CommitInterval]

\* Mutant: a vault that is there is added to.
VaultAddedTo(c) == vaultFile

\* A vault is replaced when the ingest keeps one, and left alone when it does not.
VaultAtStart(c) == IF c.vault THEN {} ELSE vaultFile

-----------------------------------------------------------------------------
\* Templating

\* Drain3's answer to a line: the live cluster of its shape, or a new one that pushes out what
\* was used longest ago.
Clustered(shape) ==
  LET hits == {i \in 1..Len(tree.live) : tree.live[i].shape = shape}
      hit == CHOOSE i \in hits : TRUE
      new == [id |-> tree.next, shape |-> shape]
      over == Len(tree.live) + 1 - tree.capacity
      kept == IF over > 0 THEN SubSeq(tree.live, over + 1, Len(tree.live)) ELSE tree.live
  IN IF hits # {}
     THEN [id |-> tree.live[hit].id,
           tree |-> [tree EXCEPT !.live = Append(RemoveAt(tree.live, hit), tree.live[hit])]]
     ELSE [id |-> tree.next,
           tree |-> [tree EXCEPT !.live = Append(kept, new), !.next = @ + 1]]

Counted(id) ==
  [t \in DOMAIN registry \cup {id} |->
     (IF t \in DOMAIN registry THEN registry[t] ELSE 0) + (IF t = id THEN 1 ELSE 0)]

\* Mutant: only what the tree still holds.
SummariesOfTree ==
  [t \in {t \in DOMAIN registry : \E i \in 1..Len(tree.live) : tree.live[i].id = t} |->
     registry[t]]

\* Every template an event was ever given, whether or not the tree still holds it.
Summaries == registry

\* Mutant: counts every id the tree ever gave.
EvictedEver == (tree.next - 1) - Len(tree.live)

\* Templates of this source less the clusters of the tree, which may hold older ones.
Evicted == LET seen == Cardinality(DOMAIN registry)
               live == Len(tree.live)
           IN IF seen > live THEN seen - live ELSE 0

\* The threshold that leaves the fewest templates among those that merge no signal, the
\* stricter of two equals; the strictest of all when every one merges some.
Chosen(trial) ==
  LET safe == {c \in Candidates : ~trial[c].risky}
      fewest(S) == {c \in S : \A d \in S : trial[c].templates <= trial[d].templates}
      strictest(S) == CHOOSE c \in S : \A d \in S : d <= c
  IN IF safe # {} THEN strictest(fewest(safe)) ELSE strictest(Candidates)

\* An uncompressible file is given fewer clusters; one where every threshold is at risk is not.
Capacity(trial) ==
  IF /\ \E c \in Candidates : ~trial[c].risky
     /\ trial[Chosen(trial)].uncompressed
     /\ FewClusters < MaxClusters
  THEN FewClusters ELSE MaxClusters

\* What the trials of a sample may come to.
Capacities ==
  {Capacity(trial) :
     trial \in [Candidates -> [templates : 1..2, risky : BOOLEAN, uncompressed : BOOLEAN]]}

-----------------------------------------------------------------------------
EmptyTree == [live |-> <<>>, next |-> 1, capacity |-> MaxClusters]

Init ==
  /\ pad = None /\ vaultFile = {} /\ snapshot = None
  /\ pc = "idle"
  /\ source = <<>>
  /\ config = CHOOSE c \in Configs : TRUE
  /\ ingests = 0 /\ taken = 0
  /\ chunk = <<>> /\ redacted = <<>> /\ merged = 0 /\ pooled = FALSE
  /\ counts = 0 /\ before = 0
  /\ pending = [tokens |-> {}, records |-> 0]
  /\ tree = EmptyTree
  /\ registry = <<>>
  /\ batch = <<>>

\* The settings are read and the vault opened.
Begin ==
  /\ pc = "idle" /\ ingests < MaxIngests
  /\ config' \in Configs /\ source' \in Sources
  /\ ingests' = ingests + 1
  /\ vaultFile' = VaultAtStart(config')
  /\ pending' = [tokens |-> {}, records |-> 0]
  /\ taken' = 0 /\ chunk' = <<>> /\ redacted' = <<>> /\ merged' = 0
  /\ pooled' = (config'.strict /\ ~config'.vault /\ config'.workers >= 2)
  /\ counts' = 0 /\ before' = 0 /\ registry' = <<>> /\ batch' = <<>>
  /\ tree' = EmptyTree
  /\ pc' = IF config'.calibrate THEN "calibrate" ELSE "open"
  /\ UNCHANGED <<pad, snapshot>>

\* Calibration redacts a sample with the redactor of the load, vault included, and forgets
\* what that counted.  Where the vault's interval falls in the sample is left open.
Calibrate ==
  /\ pc = "calibrate"
  /\ \E n \in 0..Len(source) : \E k \in 0..n :
       LET shown(from, to) == UNION {Tokens(source[i]) : i \in from..to}
       IN IF config.vault
          THEN /\ vaultFile' = vaultFile \cup shown(1, k)
               /\ pending' = [pending EXCEPT !.tokens = shown(k + 1, n)]
          ELSE UNCHANGED <<vaultFile, pending>>
  /\ \E c \in Capacities : tree' = [tree EXCEPT !.capacity = c]
  /\ counts' = 0
  /\ pc' = "open"
  /\ UNCHANGED <<pad, snapshot, source, config, ingests, taken, chunk, redacted, merged, pooled,
                 before, registry, batch>>

\* Mutant: a scratchpad that is there is opened.
OpenInPlace ==
  /\ pc = "open"
  /\ \/ /\ snapshot # None
        /\ \E c \in {snapshot.capacity, tree.capacity} : tree' = [snapshot EXCEPT !.capacity = c]
        /\ UNCHANGED snapshot
     \/ /\ UNCHANGED tree
        /\ snapshot' = None
  /\ pad' = pad
  /\ pc' = "create"
  /\ UNCHANGED <<vaultFile, source, config, ingests, taken, redaction, registry, batch>>

\* The tree of an earlier ingest is restored, with the limit it had or the one set now (Drain3
\* decides), unless it cannot be read and is thrown away; then a scratchpad that is there is
\* removed.
Open ==
  /\ pc = "open"
  /\ \/ /\ snapshot # None
        /\ \E c \in {snapshot.capacity, tree.capacity} : tree' = [snapshot EXCEPT !.capacity = c]
        /\ UNCHANGED snapshot
     \/ /\ UNCHANGED tree
        /\ snapshot' = None
  /\ pad' = None
  /\ pc' = "create"
  /\ UNCHANGED <<vaultFile, source, config, ingests, taken, redaction, registry, batch>>

\* The incident row, with the brief redacted like the log.
CreateIncident ==
  /\ pc = "create"
  /\ \E b \in Briefs :
       LET brief == [secret |-> b, copies |-> 1]
       IN /\ pad' = [ingest |-> ingests, source |-> source, events |-> <<>>, brief |-> Tokens(brief),
                     templates |-> <<>>, scored |-> FALSE, metrics |-> None, health |-> "unknown"]
          /\ counts' = counts + Hits(brief)
          /\ Recorded(brief)
  /\ pc' = "read"
  /\ UNCHANGED <<snapshot, source, config, ingests, taken, chunk, redacted, merged, pooled,
                 before, templating, batch>>

TakeChunk ==
  /\ pc = "read" /\ taken < Len(source)
  /\ LET last == IF taken + ChunkSize < Len(source) THEN taken + ChunkSize ELSE Len(source)
     IN /\ chunk' = SubSeq(source, taken + 1, last)
        /\ taken' = last
  /\ redacted' = <<>> /\ merged' = 0 /\ before' = counts
  /\ pc' = "redact"
  /\ UNCHANGED <<disk, source, config, ingests, pooled, counts, pending, templating, batch>>

\* RedactionPool.redact, the results of one slice arriving in order.
MergeSlice ==
  /\ pc = "redact" /\ Parallel /\ Len(redacted) < Len(chunk)
  /\ redacted' = Joined(Slice)
  /\ counts' = counts + Tally(Slice)
  /\ merged' = merged + 1
  /\ UNCHANGED <<disk, pc, source, config, ingests, taken, chunk, pooled, before, pending,
                 templating, batch>>

\* Mutant: the pool is asked again.
PoolBreaksUnclosed ==
  /\ pc = "redact" /\ Parallel /\ Len(redacted) < Len(chunk)
  /\ counts' = Recount
  /\ redacted' = <<>> /\ merged' = 0
  /\ UNCHANGED <<disk, pc, source, config, ingests, taken, chunk, pooled, before, pending,
                 templating, batch>>

\* A worker died: the pool is closed for good, what its slices counted is taken back, and the
\* chunk is redacted here from its first line.
PoolBreaks ==
  /\ pc = "redact" /\ Parallel /\ Len(redacted) < Len(chunk)
  /\ pooled' = FALSE
  /\ counts' = Recount
  /\ redacted' = <<>>
  /\ merged' = 0
  /\ UNCHANGED <<disk, pc, source, config, ingests, taken, chunk, before, pending, templating,
                 batch>>

RedactHere ==
  /\ pc = "redact" /\ ~Parallel /\ Len(redacted) < Len(chunk)
  /\ LET line == chunk[Len(redacted) + 1]
     IN /\ redacted' = Append(redacted, line)
        /\ counts' = counts + Hits(line)
        /\ Recorded(line)
  /\ UNCHANGED <<pad, snapshot, pc, source, config, ingests, taken, chunk, merged, pooled,
                 before, templating, batch>>

ChunkRedacted ==
  /\ pc = "redact" /\ Len(redacted) = Len(chunk)
  /\ pc' = "template"
  /\ UNCHANGED <<disk, source, config, ingests, taken, redaction, templating, batch>>

\* The event a line becomes, its raw text kept beside its fields: store_raw is on, as it is by
\* default (common/config.py:331).
Event(line, id) == [line |-> line, tokens |-> Tokens(line), template |-> id]

\* A line is templated and joins the batch; a full batch is inserted and committed.
TemplateLine ==
  /\ pc = "template" /\ redacted # <<>>
  /\ LET line == Head(redacted)
         c == Clustered(line.shape)
         grown == Append(batch, Event(line, c.id))
         full == Len(grown) >= BatchSize
     IN /\ tree' = c.tree
        /\ registry' = Counted(c.id)
        /\ batch' = IF full THEN <<>> ELSE grown
        /\ pad' = IF full THEN [pad EXCEPT !.events = @ \o grown] ELSE pad
  /\ redacted' = Tail(redacted)
  /\ UNCHANGED <<vaultFile, snapshot, pc, source, config, ingests, taken, chunk, merged, pooled,
                 counts, before, pending>>

ChunkStored ==
  /\ pc = "template" /\ redacted = <<>>
  /\ pc' = "read"
  /\ UNCHANGED <<disk, source, config, ingests, taken, redaction, templating, batch>>

\* The source is read to its end: the pool is closed and the last batch inserted.
StoreTail ==
  /\ pc = "read" /\ taken = Len(source)
  /\ pooled' = FALSE
  /\ pad' = [pad EXCEPT !.events = @ \o batch]
  /\ batch' = <<>>
  /\ pc' = "templates"
  /\ UNCHANGED <<vaultFile, snapshot, source, config, ingests, taken, chunk, redacted, merged,
                 counts, before, pending, templating>>

StoreTemplates ==
  /\ pc = "templates"
  /\ pad' = [pad EXCEPT !.templates = Summaries]
  /\ pc' = "snapshot"
  /\ UNCHANGED <<vaultFile, snapshot, source, config, ingests, taken, redaction, templating,
                 batch>>

\* Written aside and renamed, so that a reader finds the tree before or after.
SaveTree ==
  /\ pc = "snapshot"
  /\ snapshot' = tree
  /\ pc' = "score"
  /\ UNCHANGED <<pad, vaultFile, source, config, ingests, taken, redaction, templating, batch>>

Score ==
  /\ pc = "score"
  /\ pad' = [pad EXCEPT !.scored = TRUE]
  /\ pc' = "flush"
  /\ UNCHANGED <<vaultFile, snapshot, source, config, ingests, taken, redaction, templating,
                 batch>>

FlushVault ==
  /\ pc = "flush"
  /\ vaultFile' = IF config.vault THEN vaultFile \cup pending.tokens ELSE vaultFile
  /\ pending' = [tokens |-> {}, records |-> 0]
  /\ pc' = "measure"
  /\ UNCHANGED <<pad, snapshot, source, config, ingests, taken, chunk, redacted, merged, pooled,
                 counts, before, templating, batch>>

Orphans == Cardinality({i \in 1..Len(pad.events) :
                          pad.events[i].template \notin DOMAIN pad.templates})

\* Every stage's metrics, in one transaction.
Measure ==
  /\ pc = "measure"
  /\ pad' = [pad EXCEPT !.metrics =
               [loaded |-> Len(pad.events), redacted |-> counts, orphans |-> Orphans,
                templates |-> Cardinality(DOMAIN registry), evicted |-> Evicted,
                vault |-> config.vault]]
  /\ pc' = "check"
  /\ UNCHANGED <<vaultFile, snapshot, source, config, ingests, taken, redaction, templating,
                 batch>>

\* The health check, whose verdict on a scratchpad with events is left open here.
Check ==
  /\ pc = "check"
  /\ \E verdict \in IF pad.events = <<>> THEN {"fail"} ELSE {"ok", "warn", "fail"} :
       pad' = [pad EXCEPT !.health = verdict]
  /\ pc' = "idle"
  /\ UNCHANGED <<vaultFile, snapshot, source, config, ingests, taken, redaction, templating,
                 batch>>

\* The process dies, or the source cannot be read to its end: nothing uncommitted is kept.
Dies ==
  /\ pc # "idle"
  /\ pc' = "idle"
  /\ pending' = [tokens |-> {}, records |-> 0]
  /\ pooled' = FALSE /\ chunk' = <<>> /\ redacted' = <<>> /\ batch' = <<>> /\ registry' = <<>>
  /\ merged' = 0 /\ counts' = 0 /\ before' = 0 /\ taken' = 0
  /\ tree' = EmptyTree
  /\ UNCHANGED <<disk, source, config, ingests>>

Step ==
  \/ Calibrate \/ Open \/ CreateIncident \/ TakeChunk \/ MergeSlice \/ PoolBreaks \/ RedactHere \/ ChunkRedacted
  \/ TemplateLine \/ ChunkStored \/ StoreTail \/ StoreTemplates \/ SaveTree \/ Score
  \/ FlushVault \/ Measure \/ Check

\* Every ingest the bound allows is over.
Settled == pc = "idle" /\ ingests = MaxIngests /\ UNCHANGED vars

Next == Begin \/ Step \/ Dies \/ Settled

\* The steps of an ingest are local work; a source is finite.
Spec == Init /\ [][Next]_vars /\ WF_vars(Step)

-----------------------------------------------------------------------------
\* Properties

Measured == pad # None /\ pad.metrics # None

\* What a scratchpad holds of a source is its first lines in their order, at every moment,
\* however the chunks were cut and whichever worker redacted them; once measured it is all of
\* them, scored; and it is never called healthy before it was measured (pipeline.py:402-512).
EventsFollowSource ==
  pad # None =>
    /\ Len(pad.events) <= Len(pad.source)
    /\ \A i \in 1..Len(pad.events) : pad.events[i].line = pad.source[i]
    /\ Measured => Len(pad.events) = Len(pad.source) /\ pad.scored
    /\ pad.health # "unknown" => Measured

\* Every placeholder in the stored text was counted once: a pool that breaks in the middle of a
\* chunk, and a calibration pass, neither lose nor double any (redaction/parallel.py:184-206).  The stored text has the raw
\* line: with store_raw off, what is redacted there is counted and not stored.
CountsMatchText ==
  Measured =>
    LET placeholders(e) == IF e.tokens = {} THEN 0 ELSE e.line.copies
    IN pad.metrics.redacted =
         Cardinality(pad.brief)
           + Total([i \in DOMAIN pad.events |-> placeholders(pad.events[i])])

\* Every event is reachable through a stored template, and each template's count is the number
\* of its events, however many clusters Drain3 evicted (drain_wrapper.py:213-222, 295-320).
TemplatesAddUp ==
  Measured =>
    /\ pad.metrics.orphans = 0
    /\ \A i \in 1..Len(pad.events) : pad.events[i].template \in DOMAIN pad.templates
    /\ \A t \in DOMAIN pad.templates :
         pad.templates[t] = Cardinality({i \in 1..Len(pad.events) : pad.events[i].template = t})

\* The vault of the scratchpad's own ingest reveals every placeholder of the stored text and
\* holds nothing else (pipeline.py:322-329, 480; redaction/vault.py:118-132).
VaultMatchesText ==
  (Measured /\ pad.metrics.vault /\ pad.ingest = ingests) =>
    vaultFile = pad.brief \cup UNION {pad.events[i].tokens : i \in 1..Len(pad.events)}

\* The number of evicted templates, computed as a difference of two sizes, is the number of
\* templates of this source the tree no longer holds, restored clusters notwithstanding
\* (drain_wrapper.py:234-242).
EvictionsAreExact ==
  pc = "check" =>
    pad.metrics.evicted =
      Cardinality({t \in DOMAIN registry : \A i \in 1..Len(tree.live) : tree.live[i].id # t})

\* What a reader finds at the path: is there a scratchpad, of which log, with which lines.
Promise == INSTANCE OneLogPerScratchpad WITH
  status <- IF pad = None THEN "absent" ELSE IF Measured THEN "complete" ELSE "filling",
  log <- IF pad = None THEN <<>> ELSE pad.source,
  rows <- IF pad = None THEN <<>> ELSE [i \in DOMAIN pad.events |-> pad.events[i].line]

\* Whatever dies, breaks or is started again, every step of an ingest is one of that promise:
\* no ingest goes on with a scratchpad that another left, or writes over a complete one
\* (pipeline.py:400-404, 484).
FillsOneLog == Promise!Spec

\* An ingest ends, pool or no pool, finished or dead (pipeline.py:294-533).
IngestEnds == pc # "idle" ~> pc = "idle"
=============================================================================
