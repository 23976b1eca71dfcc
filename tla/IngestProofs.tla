---------------------------- MODULE IngestProofs ----------------------------
(* What TLAPS proves about Ingest for any sources, settings, chunk, batch   *)
(* and pool sizes and any number of ingests and deaths: a scratchpad holds  *)
(* the first lines of its source in their order; its placeholders are those *)
(* it reports and those its vault reveals; its templates count its events;  *)
(* and the evicted templates are counted though the tree is an older one's. *)
(* Last, the ingest implements OneLogPerScratchpad.                         *)
EXTENDS Ingest, SequenceLemmas, FiniteSetTheorems

-----------------------------------------------------------------------------
(* Where an ingest stands.                                                  *)

\* Loading the source, and what comes after.
Loading == {"read", "redact", "template"}
After == {"templates", "snapshot", "score", "flush", "measure", "check"}

\* The steps at which the scratchpad is the running ingest's.
Kept == Loading \cup After
Places == {"idle", "calibrate", "open", "create"} \cup Kept

PadFields == {"ingest", "source", "events", "brief", "templates", "scored", "metrics", "health"}

\* Lines templated so far, stored or not.
Loaded == Len(pad.events) + Len(batch)

\* Where the slices merged so far end in the chunk.
Reached == LET k == SliceSize * merged IN IF k < Len(chunk) THEN k ELSE Len(chunk)

\* Events that are the lines of the source from a place on.
Follows(events, from) ==
  /\ IsSeq(events)
  /\ \A i \in 1 .. Len(events) : /\ events[i].line = source[from + i]
                                 /\ events[i].tokens = Tokens(source[from + i])

\* Lines that are those of the source from a place on.
Copies(lines, from) ==
  IsSeq(lines) /\ \A i \in 1 .. Len(lines) : lines[i] = source[from + i]

Shape ==
  /\ pc \in Places /\ IsSeq(source)
  /\ pc # "idle" => config \in Configs
  /\ ingests \in Nat /\ taken \in Nat /\ merged \in Nat
  /\ pooled => config.workers # 0
  /\ pad # None => DOMAIN pad = PadFields

Own ==
  pc \in Kept => /\ pad # None /\ pad.source = source
                 /\ Follows(pad.events, 0) /\ Follows(batch, Len(pad.events))

Ahead ==
  /\ taken <= Len(source)
  /\ pc \in {"calibrate", "open", "create"} => taken = 0 /\ batch = <<>>
  /\ pc = "read" => Loaded = taken
  /\ pc = "redact" => /\ Loaded + Len(chunk) = taken
                      /\ Copies(chunk, Loaded) /\ Copies(redacted, Loaded)
                      /\ Len(redacted) <= Len(chunk)
                      /\ Parallel => Len(redacted) = Reached
  /\ pc = "template" => Loaded + Len(redacted) = taken /\ Copies(redacted, Loaded)
  /\ pc \in After => Len(pad.events) = Len(source)

Marks ==
  /\ pc \in Kept \ {"check"} => pad.metrics = None
  /\ pc \in Kept => pad.health = "unknown"
  /\ pc \in {"flush", "measure", "check"} => pad.scored
  /\ pc = "check" => pad.metrics # None

\* What an ingest that is over, or has not come to its scratchpad, finds there.
Left == pc \notin Kept => EventsFollowSource

FollowInv == Shape /\ Own /\ Ahead /\ Marks /\ Left

-----------------------------------------------------------------------------
LEMMA NumbersFacts ==
  /\ ChunkSize \in Nat \ {0} /\ BatchSize \in Nat \ {0}
  /\ \A s \in Sources : IsSeq(s)
  /\ \A c \in Configs : c.workers \in Nat
  BY IngestAssumption DEF IsSeq, Elements

LEMMA EmptyFollows == \A k : Follows(<<>>, k) /\ Copies(<<>>, k)
  BY EmptyIsSeq DEF Follows, Copies

LEMMA NoneFacts == DOMAIN None = {"none"}
  BY DEF None

\* While the scratchpad is the ingest's own it follows its source.
LEMMA KeptFollows == ASSUME FollowInv PROVE EventsFollowSource
<1>1. CASE pc \notin Kept
  BY <1>1 DEF FollowInv, Left
<1>2. CASE pc \in Kept
  <2>1. /\ pad.source = source /\ Follows(pad.events, 0)
    BY <1>2 DEF FollowInv, Own
  <2>2. Len(pad.events) \in Nat /\ Len(batch) \in Nat /\ Len(source) \in Nat
    BY <1>2, ConcatFacts DEF FollowInv, Own, Shape, Follows
  <2>3. Len(pad.events) <= Len(source)
    <3>1. CASE pc = "read"
      BY <3>1, <2>2 DEF FollowInv, Ahead, Loaded
    <3>2. CASE pc = "redact"
      <4>1. Len(chunk) \in Nat
        BY <3>2, ConcatFacts DEF FollowInv, Ahead, Copies
      <4> QED BY <3>2, <4>1, <2>2 DEF FollowInv, Ahead, Loaded
    <3>3. CASE pc = "template"
      <4>1. Len(redacted) \in Nat
        BY <3>3, ConcatFacts DEF FollowInv, Ahead, Copies
      <4> QED BY <3>3, <4>1, <2>2 DEF FollowInv, Ahead, Loaded
    <3>4. CASE pc \in After
      BY <3>4, <2>2 DEF FollowInv, Ahead
    <3> QED BY <1>2, <3>1, <3>2, <3>3, <3>4 DEF Kept, Loading
  <2>4. \A i \in 1 .. Len(pad.events) : pad.events[i].line = pad.source[i]
    BY <2>1, <2>2 DEF Follows
  <2>5. Measured => pc = "check"
    BY <1>2 DEF FollowInv, Marks, Measured
  <2>6. Measured => Len(pad.events) = Len(pad.source) /\ pad.scored
    BY <2>5, <2>1 DEF FollowInv, Marks, Ahead, After
  <2>7. pad.health = "unknown"
    BY <1>2 DEF FollowInv, Marks
  <2> QED BY <2>1, <2>3, <2>4, <2>6, <2>7 DEF EventsFollowSource
<1> QED BY <1>1, <1>2

-----------------------------------------------------------------------------
(* The steps before the scratchpad.                                         *)

LEMMA OutsideFollows ==
  ASSUME Shape', pc' \notin Kept, taken' <= Len(source)',
         pc' # "idle" => taken' = 0 /\ batch' = <<>>, EventsFollowSource'
  PROVE  FollowInv'
<1>1. Own' /\ Marks' /\ Left'
  BY DEF Own, Marks, Left, Kept, After, Loading
<1>2. Ahead'
  BY DEF Ahead, Kept, After, Loading
<1> QED BY <1>1, <1>2 DEF FollowInv

LEMMA InitFollows == Init => FollowInv
<1> SUFFICES ASSUME Init PROVE FollowInv
  OBVIOUS
<1>1. Shape
  BY EmptyIsSeq DEF Init, Shape, Places
<1>2. Own /\ Marks
  BY DEF Init, Own, Marks, Kept, After, Loading
<1>3. Ahead
  BY DEF Init, Ahead, After
<1>4. Left
  BY DEF Init, Left, EventsFollowSource
<1> QED BY <1>1, <1>2, <1>3, <1>4 DEF FollowInv

LEMMA BeginFollows == ASSUME FollowInv, Begin PROVE FollowInv'
<1>1. config' \in Configs /\ source' \in Sources /\ IsSeq(source')
  BY NumbersFacts DEF Begin
<1>2. pc' \in {"calibrate", "open"} /\ taken' = 0 /\ batch' = <<>> /\ merged' = 0 /\ pad' = pad
  BY DEF Begin
<1>3. pooled' => config'.workers # 0
  <2>1. pooled' => config'.workers >= 2
    BY DEF Begin
  <2> QED BY <2>1
<1>4. ingests' \in Nat
  BY DEF FollowInv, Shape, Begin
<1>5. Shape'
  BY <1>1, <1>2, <1>3, <1>4 DEF FollowInv, Shape, Places
<1>6. Len(source') \in Nat
  BY <1>1, ConcatFacts
<1>7. EventsFollowSource'
  BY <1>2, KeptFollows DEF EventsFollowSource, Measured
<1> QED BY <1>2, <1>5, <1>6, <1>7, OutsideFollows DEF Kept, After, Loading

LEMMA CalibrateFollows == ASSUME FollowInv, Calibrate PROVE FollowInv'
<1>1. /\ pc = "calibrate" /\ pc' = "open" /\ pad' = pad
      /\ UNCHANGED <<source, config, ingests, taken, merged, pooled, batch>>
  BY DEF Calibrate
<1>2. Shape'
  BY <1>1 DEF FollowInv, Shape, Places
<1>3. taken' = 0 /\ batch' = <<>> /\ taken' <= Len(source)'
  BY <1>1 DEF FollowInv, Ahead
<1>4. EventsFollowSource'
  BY <1>1, KeptFollows DEF EventsFollowSource, Measured
<1> QED BY <1>1, <1>2, <1>3, <1>4, OutsideFollows DEF Kept, After, Loading

LEMMA OpenFollows == ASSUME FollowInv, Open PROVE FollowInv'
<1>1. /\ pc = "open" /\ pc' = "create" /\ pad' = None
      /\ UNCHANGED <<source, config, ingests, taken, merged, pooled, batch>>
  BY DEF Open, redaction
<1>2. Shape'
  BY <1>1 DEF FollowInv, Shape, Places
<1>3. taken' = 0 /\ batch' = <<>> /\ taken' <= Len(source)'
  BY <1>1 DEF FollowInv, Ahead
<1>4. EventsFollowSource'
  BY <1>1 DEF EventsFollowSource
<1> QED BY <1>1, <1>2, <1>3, <1>4, OutsideFollows DEF Kept, After, Loading

LEMMA DiesFollows == ASSUME FollowInv, Dies PROVE FollowInv'
<1>1. /\ pc' = "idle" /\ pad' = pad /\ pooled' = FALSE /\ merged' = 0 /\ taken' = 0
      /\ UNCHANGED <<source, config, ingests>>
  BY DEF Dies, disk
<1>2. Shape'
  BY <1>1 DEF FollowInv, Shape, Places
<1>3. Len(source) \in Nat
  BY ConcatFacts DEF FollowInv, Shape
<1>4. EventsFollowSource'
  BY <1>1, KeptFollows DEF EventsFollowSource, Measured
<1> QED BY <1>1, <1>2, <1>3, <1>4, OutsideFollows DEF Kept, After, Loading

LEMMA StutterFollows == ASSUME FollowInv, UNCHANGED vars PROVE FollowInv'
<1>1. Shape' /\ Left'
  BY DEF FollowInv, vars, disk, redaction, templating, Shape, Left, EventsFollowSource, Measured
<1>2. Own'
  BY DEF FollowInv, vars, disk, redaction, templating, Own, Follows, Tokens, Hits, Token
<1>3. Ahead'
  BY DEF FollowInv, vars, disk, redaction, templating, Ahead, Loaded, Copies, Reached, Parallel,
         SliceSize
<1>4. Marks'
  BY DEF FollowInv, vars, disk, redaction, templating, Marks
<1> QED BY <1>1, <1>2, <1>3, <1>4 DEF FollowInv

-----------------------------------------------------------------------------
(* The steps of a load.                                                     *)

LEMMA CreateFollows == ASSUME FollowInv, CreateIncident PROVE FollowInv'
<1>1. /\ pc = "create" /\ pc' = "read"
      /\ UNCHANGED <<source, config, ingests, taken, merged, pooled, batch>>
  BY DEF CreateIncident, templating
<1>2. PICK brief :
        pad' = [ingest |-> ingests, source |-> source, events |-> <<>>, brief |-> brief,
                templates |-> <<>>, scored |-> FALSE, metrics |-> None, health |-> "unknown"]
  BY DEF CreateIncident
<1>3. /\ DOMAIN pad' = PadFields /\ pad'.source = source /\ pad'.events = <<>>
      /\ pad'.metrics = None /\ pad'.health = "unknown"
  BY <1>2 DEF PadFields
<1>4. pad' # None
  BY <1>3, NoneFacts DEF PadFields
<1>5. taken' = 0 /\ batch' = <<>> /\ taken' <= Len(source)'
  BY <1>1 DEF FollowInv, Ahead
<1>6. Shape'
  BY <1>1, <1>3 DEF FollowInv, Shape, Places, Kept, Loading
<1>7. Own'
  <2>1. Follows(<<>>, 0)' /\ Follows(<<>>, Len(<<>>))'
    BY EmptyIsSeq DEF Follows
  <2> QED BY <2>1, <1>1, <1>3, <1>4, <1>5 DEF Own
<1>8. Ahead'
  <2>1. Loaded' = 0
    BY <1>3, <1>5 DEF Loaded
  <2> QED BY <2>1, <1>1, <1>5 DEF Ahead, After
<1>9. Marks' /\ Left'
  BY <1>1, <1>3 DEF Marks, Left, Kept, Loading
<1> QED BY <1>6, <1>7, <1>8, <1>9 DEF FollowInv

\* What a step of the load that stores nothing leaves as it is.
Unstored ==
  /\ pc \in Loading /\ pc' \in Loading /\ UNCHANGED <<pad, source, config, ingests, batch>>

LEMMA UnstoredFollows ==
  ASSUME FollowInv, Unstored, taken' \in Nat, merged' \in Nat,
         pooled' => config.workers # 0, Ahead'
  PROVE  FollowInv'
<1>1. Shape'
  BY DEF FollowInv, Shape, Unstored, Places, Kept, Loading
<1>2. Own'
  BY DEF FollowInv, Own, Unstored, Kept, Follows, Tokens, Hits, Token
<1>3. Marks' /\ Left'
  BY DEF FollowInv, Marks, Left, Unstored, Kept, Loading
<1> QED BY <1>1, <1>2, <1>3 DEF FollowInv

LEMMA SizeFacts ==
  ASSUME FollowInv, pc \in Loading
  PROVE  /\ Len(source) \in Nat /\ Len(pad.events) \in Nat /\ Len(batch) \in Nat
         /\ Loaded \in Nat /\ config \in Configs
<1>1. IsSeq(source) /\ IsSeq(pad.events) /\ IsSeq(batch) /\ config \in Configs
  BY DEF FollowInv, Shape, Own, Follows, Kept, Loading
<1>2. Len(source) \in Nat /\ Len(pad.events) \in Nat /\ Len(batch) \in Nat
  BY <1>1, ConcatFacts
<1> QED BY <1>1, <1>2 DEF Loaded

\* A slice holds a line at least.
LEMMA SliceFacts ==
  ASSUME NEW n \in Nat, NEW w \in Nat \ {0}
  PROVE  (IF n \div w = 0 THEN 1 ELSE n \div w) \in Nat \ {0}
  OBVIOUS

LEMMA SliceSizeFacts ==
  ASSUME FollowInv, pc = "redact", pooled PROVE SliceSize \in Nat \ {0} /\ Len(chunk) \in Nat
<1>1. IsSeq(chunk)
  BY DEF FollowInv, Ahead, Copies
<1>2. Len(chunk) \in Nat
  BY <1>1, ConcatFacts
<1>3. config.workers \in Nat \ {0}
  BY NumbersFacts DEF FollowInv, Shape
<1> QED BY <1>2, <1>3, SliceFacts DEF SliceSize

LEMMA TakeFollows == ASSUME FollowInv, TakeChunk PROVE FollowInv'
<1> DEFINE last == IF taken + ChunkSize < Len(source) THEN taken + ChunkSize ELSE Len(source)
<1>1. /\ pc = "read" /\ pc' = "redact" /\ taken < Len(source) /\ redacted' = <<>> /\ merged' = 0
      /\ chunk' = SubSeq(source, taken + 1, last) /\ taken' = last /\ pooled' = pooled
      /\ UNCHANGED <<pad, source, config, ingests, batch>>
  BY DEF TakeChunk, disk, redaction, templating
<1>2. Unstored
  BY <1>1 DEF Unstored, Loading
<1>3. /\ Len(source) \in Nat /\ Loaded \in Nat /\ Loaded = taken /\ taken \in Nat
      /\ IsSeq(source)
  BY <1>1, SizeFacts DEF Loading, FollowInv, Ahead, Shape
<1>4. last \in Nat /\ taken <= last /\ last <= Len(source)
  BY <1>1, <1>3, NumbersFacts
<1> HIDE DEF last
<1>5. /\ IsSeq(chunk') /\ Len(chunk') = last - taken
      /\ \A i \in 1 .. last - taken : chunk'[i] = source[taken + i]
  BY <1>1, <1>3, <1>4, PieceFacts
<1>6. Loaded' = taken
  BY <1>1, <1>3 DEF Loaded
<1>7. Copies(chunk, Loaded)'
  BY <1>1, <1>5, <1>6 DEF Copies
<1>8. Copies(redacted, Loaded)'
  BY <1>1, EmptyIsSeq DEF Copies
<1>9. pooled' => config.workers # 0
  BY <1>1 DEF FollowInv, Shape
<1>10. ASSUME Parallel' PROVE Len(redacted') = Reached'
  <2>1. config'.workers \in Nat \ {0}
    <3>1. pooled'
      BY <1>10 DEF Parallel
    <3>2. config \in Configs
      BY <1>1, SizeFacts DEF Loading
    <3> QED BY <3>1, <3>2, <1>1, <1>9, NumbersFacts
  <2>2. SliceSize' \in Nat \ {0}
    BY <2>1, <1>4, <1>5, <1>3, SliceFacts DEF SliceSize
  <2>3. \A k \in Nat : k * 0 = 0
    OBVIOUS
  <2>4. SliceSize' * merged' = 0
    BY <2>2, <2>3, <1>1
  <2>5. Len(redacted') = 0
    BY <1>1
  <2>6. Len(chunk') \in Nat
    BY <1>3, <1>4, <1>5
  <2> QED BY <2>4, <2>5, <2>6 DEF Reached
<1>11. Loaded' + Len(chunk') = taken' /\ Len(redacted') <= Len(chunk') /\ taken' <= Len(source)'
  BY <1>1, <1>3, <1>4, <1>5, <1>6
<1>12. Ahead'
  BY <1>1, <1>7, <1>8, <1>10, <1>11 DEF Ahead, After
<1> QED BY <1>1, <1>2, <1>4, <1>9, <1>12, UnstoredFollows

\* What a step of the redaction of a chunk leaves as it is.
Redacts ==
  /\ pc = "redact" /\ pc' = "redact"
  /\ UNCHANGED <<pad, source, config, ingests, batch, taken, chunk>>

LEMMA RedactsFollows ==
  ASSUME FollowInv, Redacts, merged' \in Nat, pooled' => pooled,
         Copies(redacted, Loaded)', Len(redacted') <= Len(chunk),
         Parallel' => Len(redacted') = Reached'
  PROVE  FollowInv'
<1>1. Unstored /\ Loaded' = Loaded
  BY DEF Redacts, Unstored, Loading, Loaded
<1>2. Ahead'
  BY <1>1 DEF FollowInv, Redacts, Ahead, After, Copies
<1>3. taken' \in Nat /\ (pooled' => config.workers # 0)
  BY DEF FollowInv, Shape, Redacts
<1> QED BY <1>1, <1>2, <1>3, UnstoredFollows

LEMMA MergeFollows == ASSUME FollowInv, MergeSlice PROVE FollowInv'
<1> DEFINE size == SliceSize
           m == size * merged
           n == IF m + size < Len(chunk) THEN m + size ELSE Len(chunk)
<1>1. /\ pc = "redact" /\ Parallel /\ Len(redacted) < Len(chunk) /\ merged' = merged + 1
      /\ redacted' = redacted \o Slice /\ pooled' = pooled
      /\ UNCHANGED <<pc, pad, source, config, ingests, batch, taken, chunk>>
  BY DEF MergeSlice, Joined, disk, templating
<1>2. Redacts /\ Loaded' = Loaded
  BY <1>1 DEF Redacts, Loaded
<1>3. /\ size \in Nat \ {0} /\ Len(chunk) \in Nat /\ merged \in Nat
      /\ IsSeq(chunk) /\ IsSeq(redacted) /\ Len(redacted) = Reached /\ Loaded \in Nat
  BY <1>1, SliceSizeFacts, SizeFacts DEF FollowInv, Shape, Ahead, Copies, Parallel, Loading
<1>4. m \in Nat /\ size * (merged + 1) = m + size /\ size' = size
  BY <1>1, <1>3 DEF SliceSize
<1>5. Len(redacted) = m
  BY <1>1, <1>3, <1>4 DEF Reached
<1>6. Slice = SubSeq(chunk, m + 1, n)
  BY <1>4 DEF Slice
<1>7. Reached' = n
  <2>1. SliceSize' * merged' = m + size
    BY <1>1, <1>4
  <2> QED BY <2>1, <1>1 DEF Reached
<1>8. n \in Nat /\ m <= n /\ n <= Len(chunk)
  BY <1>1, <1>3, <1>4, <1>5
<1> HIDE DEF size, m, n
<1>9. /\ IsSeq(Slice) /\ Len(Slice) = n - m
      /\ \A i \in 1 .. n - m : Slice[i] = chunk[m + i]
  BY <1>3, <1>4, <1>6, <1>8, PieceFacts
<1>10. /\ IsSeq(redacted') /\ Len(redacted') = n
       /\ \A i \in 1 .. m : redacted'[i] = redacted[i]
       /\ \A i \in 1 .. n - m : redacted'[m + i] = chunk[m + i]
  <2> DEFINE t == Slice
             u == redacted \o t
  <2>1. IsSeq(t) /\ Len(t) = n - m /\ \A i \in 1 .. n - m : t[i] = chunk[m + i]
    BY <1>9
  <2> HIDE DEF t
  <2>0. IsSeq(redacted) /\ IsSeq(t)
    BY <1>3, <2>1
  <2>2. /\ IsSeq(u) /\ Len(u) = Len(redacted) + Len(t)
        /\ \A i \in 1 .. Len(redacted) : u[i] = redacted[i]
        /\ \A i \in 1 .. Len(t) : u[Len(redacted) + i] = t[i]
    BY ONLY <2>0, ConcatFacts
  <2> HIDE DEF u
  <2>3. Len(u) = n /\ \A i \in 1 .. n - m : u[m + i] = chunk[m + i]
    BY <2>1, <2>2, <1>4, <1>5, <1>8
  <2>4. redacted' = u
    BY <1>1 DEF u, t
  <2> QED BY <2>2, <2>3, <2>4, <1>5
<1>11. ASSUME NEW i \in 1 .. n PROVE redacted'[i] = source[Loaded + i]
  <2>1. CASE i <= m
    BY <2>1, <1>1, <1>4, <1>5, <1>10 DEF FollowInv, Ahead, Copies
  <2>2. CASE i > m
    <3>1. i - m \in 1 .. n - m /\ m + (i - m) = i /\ i \in 1 .. Len(chunk)
      BY <2>2, <1>4, <1>8, <1>3
    <3>2. redacted'[i] = chunk[i]
      BY <3>1, <1>10
    <3>3. chunk[i] = source[Loaded + i]
      BY <3>1, <1>1 DEF FollowInv, Ahead, Copies
    <3> QED BY <3>2, <3>3
  <2> QED BY <2>1, <2>2, <1>4, <1>8
<1>12. Copies(redacted, Loaded)'
  BY <1>1, <1>2, <1>10, <1>11 DEF Copies
<1> QED BY <1>1, <1>2, <1>3, <1>7, <1>8, <1>10, <1>12, RedactsFollows

LEMMA BreaksFollows == ASSUME FollowInv, PoolBreaks PROVE FollowInv'
<1>1. /\ pooled' = FALSE /\ redacted' = <<>> /\ merged' = 0 /\ Redacts
  BY DEF PoolBreaks, Redacts, disk, templating
<1>2. ~Parallel'
  BY <1>1 DEF Parallel
<1>3. Copies(redacted, Loaded)'
  BY <1>1, EmptyIsSeq DEF Copies
<1>4. Len(chunk) \in Nat
  BY <1>1, ConcatFacts DEF FollowInv, Ahead, Copies, Redacts
<1> QED BY <1>1, <1>2, <1>3, <1>4, RedactsFollows

LEMMA RedactHereFollows == ASSUME FollowInv, RedactHere PROVE FollowInv'
<1>1. /\ ~Parallel /\ Len(redacted) < Len(chunk) /\ Redacts /\ UNCHANGED <<merged, pooled>>
      /\ redacted' = Append(redacted, chunk[Len(redacted) + 1])
  BY DEF RedactHere, Redacts, templating
<1>2. ~Parallel' /\ Loaded' = Loaded
  BY <1>1 DEF Parallel, Redacts, Loaded
<1>3. IsSeq(chunk) /\ IsSeq(redacted) /\ merged \in Nat
  BY <1>1 DEF FollowInv, Shape, Ahead, Copies, Redacts
<1>4. Len(chunk) \in Nat
  BY <1>3, ConcatFacts
<1>5. /\ IsSeq(redacted') /\ Len(redacted) \in Nat /\ DOMAIN redacted = 1 .. Len(redacted)
      /\ Len(redacted') = Len(redacted) + 1
      /\ \A i \in 1 .. Len(redacted) : redacted'[i] = redacted[i]
      /\ redacted'[Len(redacted) + 1] = chunk[Len(redacted) + 1]
  BY <1>1, <1>3, AppendFacts
<1>6. \A i \in 1 .. Len(redacted) + 1 : redacted'[i] = source[Loaded + i]
  BY <1>1, <1>4, <1>5 DEF FollowInv, Ahead, Copies, Redacts
<1>7. Copies(redacted, Loaded)'
  BY <1>1, <1>2, <1>5, <1>6 DEF Copies, Redacts
<1> QED BY <1>1, <1>2, <1>3, <1>4, <1>5, <1>7, RedactsFollows

LEMMA RedactedFollows == ASSUME FollowInv, ChunkRedacted PROVE FollowInv'
<1>1. /\ pc = "redact" /\ pc' = "template" /\ Len(redacted) = Len(chunk)
      /\ UNCHANGED <<taken, merged, pooled, chunk, redacted>> /\ Unstored
  BY DEF ChunkRedacted, Unstored, Loading, disk, redaction, templating
<1>2. Loaded' = Loaded
  BY <1>1 DEF Loaded, Unstored
<1>3. Ahead'
  BY <1>1, <1>2 DEF FollowInv, Ahead, After, Copies, Unstored
<1>4. taken' \in Nat /\ merged' \in Nat /\ (pooled' => config.workers # 0)
  BY <1>1 DEF FollowInv, Shape
<1> QED BY <1>1, <1>3, <1>4, UnstoredFollows

LEMMA StoredFollows == ASSUME FollowInv, ChunkStored PROVE FollowInv'
<1>1. /\ pc = "template" /\ pc' = "read" /\ redacted = <<>>
      /\ UNCHANGED <<taken, merged, pooled>> /\ Unstored
  BY DEF ChunkStored, Unstored, Loading, disk, redaction, templating
<1>2. Loaded' = Loaded /\ Loaded \in Nat
  BY <1>1, SizeFacts DEF Loaded, Unstored
<1>3. Ahead'
  BY <1>1, <1>2 DEF FollowInv, Ahead, After, Unstored
<1>4. taken' \in Nat /\ merged' \in Nat /\ (pooled' => config.workers # 0)
  BY <1>1 DEF FollowInv, Shape
<1> QED BY <1>1, <1>3, <1>4, UnstoredFollows

\* Events of the source, and then the next of its lines.
LEMMA GrownFollows ==
  ASSUME NEW events, NEW from, Follows(events, from), NEW e,
         e.line = source[from + Len(events) + 1], e.tokens = Tokens(source[from + Len(events) + 1]),
         from \in Nat
  PROVE  Follows(Append(events, e), from) /\ Len(Append(events, e)) = Len(events) + 1
         /\ Len(events) \in Nat
<1> DEFINE t == Append(events, e)
<1>1. IsSeq(events)
  BY DEF Follows
<1>2. /\ IsSeq(t) /\ Len(events) \in Nat /\ DOMAIN events = 1 .. Len(events)
      /\ Len(t) = Len(events) + 1
      /\ \A i \in DOMAIN events : t[i] = events[i]
      /\ t[Len(events) + 1] = e
  BY ONLY <1>1, AppendFacts
<1> HIDE DEF t
<1>3. ASSUME NEW i \in 1 .. Len(t)
      PROVE  t[i].line = source[from + i] /\ t[i].tokens = Tokens(source[from + i])
  <2>1. CASE i \in 1 .. Len(events)
    BY <2>1, <1>2 DEF Follows
  <2>2. CASE i = Len(events) + 1
    <3>1. t[i] = e /\ from + i = from + Len(events) + 1
      BY <2>2, <1>2
    <3> QED BY <3>1
  <2> QED BY <2>1, <2>2, <1>2
<1>4. Follows(t, from)
  BY <1>2, <1>3 DEF Follows
<1> QED BY <1>2, <1>4 DEF t

\* Stored events and a batch that goes on where they end.
LEMMA JoinedFollows ==
  ASSUME NEW events, NEW more, Follows(events, 0), Follows(more, Len(events))
  PROVE  Follows(events \o more, 0) /\ Len(events \o more) = Len(events) + Len(more)
<1> DEFINE t == events \o more
<1>1. IsSeq(events) /\ IsSeq(more)
  BY DEF Follows
<1>2. /\ IsSeq(t) /\ Len(events) \in Nat /\ Len(more) \in Nat
      /\ Len(t) = Len(events) + Len(more)
      /\ \A i \in 1 .. Len(events) : t[i] = events[i]
      /\ \A i \in 1 .. Len(more) : t[Len(events) + i] = more[i]
  BY ONLY <1>1, ConcatFacts
<1> HIDE DEF t
<1>3. ASSUME NEW i \in 1 .. Len(t)
      PROVE  t[i].line = source[0 + i] /\ t[i].tokens = Tokens(source[0 + i])
  <2>1. CASE i \in 1 .. Len(events)
    BY <2>1, <1>2 DEF Follows
  <2>2. CASE i \notin 1 .. Len(events)
    <3> DEFINE j == i - Len(events)
    <3>1. j \in 1 .. Len(more) /\ Len(events) + j = i /\ 0 + i = i
      BY <2>2, <1>2
    <3>2. t[i] = more[j]
      BY <3>1, <1>2
    <3>3. more[j].line = source[i] /\ more[j].tokens = Tokens(source[i])
      BY <3>1 DEF Follows
    <3> QED BY <3>1, <3>2, <3>3
  <2> QED BY <2>1, <2>2
<1>4. Follows(t, 0)
  BY <1>2, <1>3 DEF Follows
<1> QED BY <1>2, <1>4 DEF t

\* The events of a pad and of a batch, before and after a step that reads nothing anew.
LEMMA FollowsKept ==
  ASSUME UNCHANGED <<source, config, ingests>>, NEW s, NEW b,
         Follows(s, 0), Follows(b, Len(s)), pad'.events = s, batch' = b
  PROVE  Follows(pad.events, 0)' /\ Follows(batch, Len(pad.events))'
  BY DEF Follows, Tokens, Hits, Token

\* A row of the scratchpad set anew.
LEMMA RowFacts ==
  ASSUME NEW p, DOMAIN p = PadFields, NEW f \in PadFields, NEW row
  PROVE  LET q == [p EXCEPT ![f] = row]
         IN  /\ DOMAIN q = PadFields /\ q # None /\ q[f] = row
             /\ \A g \in PadFields : g # f => q[g] = p[g]
<1> DEFINE q == [p EXCEPT ![f] = row]
<1>1. DOMAIN q = PadFields /\ q[f] = row /\ \A g \in PadFields : g # f => q[g] = p[g]
  OBVIOUS
<1>2. q # None
  BY <1>1, NoneFacts DEF PadFields
<1> QED BY <1>1, <1>2

LEMMA TemplateFollows == ASSUME FollowInv, TemplateLine PROVE FollowInv'
<1> DEFINE line == Head(redacted)
<1>1. PICK id : \E grown : /\ grown = Append(batch, Event(line, id))
                           /\ batch' = IF Len(grown) >= BatchSize THEN <<>> ELSE grown
                           /\ pad' = IF Len(grown) >= BatchSize
                                     THEN [pad EXCEPT !.events = @ \o grown] ELSE pad
  BY DEF TemplateLine
<1> DEFINE grown == Append(batch, Event(line, id))
           all == pad.events \o grown
<1>2. /\ pc = "template" /\ pc' = "template" /\ redacted # <<>> /\ redacted' = Tail(redacted)
      /\ UNCHANGED <<source, config, ingests, taken, merged, pooled>>
  BY DEF TemplateLine
<1>3. /\ pad # None /\ DOMAIN pad = PadFields /\ pad.source = source
      /\ Follows(pad.events, 0) /\ Follows(batch, Len(pad.events))
      /\ pad.metrics = None /\ pad.health = "unknown"
  BY <1>2 DEF FollowInv, Shape, Own, Marks, Kept, Loading
<1>4. /\ IsSeq(redacted) /\ Copies(redacted, Loaded) /\ Loaded + Len(redacted) = taken
      /\ taken <= Len(source)
  BY <1>2 DEF FollowInv, Ahead, Copies
<1>5. /\ IsSeq(Tail(redacted)) /\ Len(redacted) \in Nat \ {0}
      /\ Len(Tail(redacted)) = Len(redacted) - 1 /\ line = redacted[1]
      /\ \A i \in 1 .. Len(redacted) - 1 : Tail(redacted)[i] = redacted[i + 1]
  BY <1>2, <1>4, HeadAndTail
<1>6. Len(pad.events) \in Nat /\ Len(batch) \in Nat /\ Loaded \in Nat
      /\ Len(pad.events) + Len(batch) = Loaded
  BY <1>2, SizeFacts DEF Loading, Loaded
<1>7. line = source[Len(pad.events) + Len(batch) + 1]
  BY <1>4, <1>5, <1>6 DEF Copies
<1>8. Event(line, id).line = line /\ Event(line, id).tokens = Tokens(line)
  BY DEF Event
<1>9. Follows(grown, Len(pad.events)) /\ Len(grown) = Len(batch) + 1
  <2> DEFINE e == Event(line, id)
             k == Len(pad.events)
  <2>1. e.line = source[k + Len(batch) + 1] /\ e.tokens = Tokens(source[k + Len(batch) + 1])
    BY <1>7, <1>8
  <2>2. Follows(batch, k) /\ k \in Nat
    BY <1>3, <1>6
  <2> HIDE DEF e, k
  <2>3. Follows(Append(batch, e), k) /\ Len(Append(batch, e)) = Len(batch) + 1
    BY ONLY <2>1, <2>2, GrownFollows
  <2> QED BY <2>3 DEF e, k
<1> HIDE DEF grown
<1>10. Follows(all, 0) /\ Len(all) = Len(pad.events) + Len(grown)
  BY <1>3, <1>9, JoinedFollows
<1> HIDE DEF all
<1>11. /\ pad' # None /\ DOMAIN pad' = PadFields /\ pad'.source = source
       /\ pad'.metrics = None /\ pad'.health = "unknown"
       /\ \/ pad'.events = all /\ batch' = <<>>
          \/ pad'.events = pad.events /\ batch' = grown
  <2>1. CASE Len(grown) >= BatchSize
    <3>1. pad' = [pad EXCEPT !["events"] = all] /\ batch' = <<>>
      BY <1>1, <2>1 DEF grown, all
    <3> QED BY <3>1, <1>3, RowFacts DEF PadFields
  <2>2. CASE ~(Len(grown) >= BatchSize)
    BY <1>1, <2>2, <1>3 DEF grown
  <2> QED BY <2>1, <2>2
<1>12. Loaded' = Loaded + 1
  <2>1. /\ Loaded' = Len(pad'.events) + Len(batch')
    BY <1>11 DEF Loaded
  <2>2. Len(all) + 0 = Loaded + 1 /\ Len(pad.events) + Len(grown) = Loaded + 1
    <3> DEFINE a == Len(pad.events)
               b == Len(batch)
               g == Len(grown)
               l == Len(all)
    <3>1. a \in Nat /\ b \in Nat /\ Loaded \in Nat /\ a + b = Loaded /\ g = b + 1 /\ l = a + g
      BY <1>6, <1>9, <1>10
    <3> HIDE DEF a, b, g, l
    <3>2. l + 0 = Loaded + 1 /\ a + g = Loaded + 1
      BY ONLY <3>1
    <3> QED BY <3>2 DEF a, b, g, l
  <2>3. CASE pad'.events = all /\ batch' = <<>>
    <3>1. Len(<<>>) = 0
      OBVIOUS
    <3>2. Len(batch') = 0
      BY ONLY <2>3, <3>1
    <3>3. Len(pad'.events) = Len(all)
      BY ONLY <2>3
    <3> QED BY ONLY <3>2, <3>3, <2>1, <2>2
  <2>4. CASE pad'.events = pad.events /\ batch' = grown
    <3>1. Len(pad'.events) = Len(pad.events) /\ Len(batch') = Len(grown)
      BY ONLY <2>4
    <3> QED BY ONLY <3>1, <2>1, <2>2
  <2> QED BY <2>3, <2>4, <1>11
<1>13. Follows(pad.events, 0)' /\ Follows(batch, Len(pad.events))'
  <2>1. CASE pad'.events = all /\ batch' = <<>>
    BY <2>1, <1>2, <1>10, EmptyFollows, FollowsKept
  <2>2. CASE pad'.events = pad.events /\ batch' = grown
    BY <2>2, <1>2, <1>3, <1>9, FollowsKept
  <2> QED BY <2>1, <2>2, <1>11
<1>14. Shape' /\ Own' /\ Marks' /\ Left'
  <2>1. Shape'
    BY <1>2, <1>11 DEF FollowInv, Shape
  <2>2. Own'
    BY <1>2, <1>11, <1>13 DEF Own
  <2>3. Marks' /\ Left'
    BY <1>2, <1>11 DEF Marks, Left, Kept, Loading
  <2> QED BY <2>1, <2>2, <2>3
<1>15. Ahead'
  <2>1. Copies(redacted, Loaded)'
    <3>1. ASSUME NEW i \in 1 .. Len(redacted) - 1
          PROVE  Tail(redacted)[i] = source[Loaded + 1 + i]
      <4>1. i + 1 \in 1 .. Len(redacted) /\ Loaded + (i + 1) = Loaded + 1 + i
        BY <1>5, <1>6
      <4> QED BY <4>1, <1>4, <1>5 DEF Copies
    <3> QED BY <3>1, <1>2, <1>5, <1>12 DEF Copies
  <2>2. Loaded' + Len(redacted') = taken'
    BY <1>2, <1>4, <1>5, <1>6, <1>12
  <2> QED BY <2>1, <2>2, <1>2, <1>4 DEF Ahead, After
<1> QED BY <1>14, <1>15 DEF FollowInv

LEMMA TailFollows == ASSUME FollowInv, StoreTail PROVE FollowInv'
<1> DEFINE all == pad.events \o batch
<1>1. /\ pc = "read" /\ pc' = "templates" /\ taken = Len(source) /\ pooled' = FALSE
      /\ batch' = <<>> /\ pad' = [pad EXCEPT !["events"] = all]
      /\ UNCHANGED <<source, config, ingests, taken, merged>>
  BY DEF StoreTail
<1>2. /\ pad # None /\ DOMAIN pad = PadFields /\ pad.source = source
      /\ Follows(pad.events, 0) /\ Follows(batch, Len(pad.events))
      /\ pad.metrics = None /\ pad.health = "unknown" /\ Loaded = taken
  BY <1>1 DEF FollowInv, Shape, Own, Marks, Ahead, Kept, Loading
<1>3. Follows(all, 0) /\ Len(all) = Len(source)
  BY <1>1, <1>2, JoinedFollows DEF Loaded
<1> HIDE DEF all
<1>4. /\ pad' # None /\ DOMAIN pad' = PadFields /\ pad'.source = source
      /\ pad'.metrics = None /\ pad'.health = "unknown" /\ pad'.events = all
  BY <1>1, <1>2, RowFacts DEF PadFields
<1>5. Follows(pad.events, 0)' /\ Follows(batch, Len(pad.events))'
  BY <1>1, <1>3, <1>4, EmptyFollows, FollowsKept
<1>6. Shape'
  BY <1>1, <1>4 DEF FollowInv, Shape, Places, Kept, After
<1>7. Own' /\ Marks' /\ Left'
  BY <1>1, <1>4, <1>5 DEF Own, Marks, Left, Kept, After
<1>8. Ahead'
  <2>1. pc' = "templates" /\ taken' = taken /\ source' = source
    BY <1>1
  <2>2. Len(pad'.events) = Len(source')
    <3>1. pad'.events = all /\ source' = source
      BY <1>4, <2>1
    <3>2. Len(all) = Len(source)
      BY <1>3
    <3> QED BY ONLY <3>1, <3>2
  <2> QED BY <2>1, <2>2, <1>1 DEF FollowInv, Ahead, After
<1> QED BY <1>6, <1>7, <1>8 DEF FollowInv

-----------------------------------------------------------------------------
(* The steps after it.                                                      *)

\* What they leave as it is: the rows of the events and where they come from.
Finishes ==
  /\ pc \in After /\ pc' \in After
  /\ UNCHANGED <<source, config, ingests, taken, merged, pooled, batch>>
  /\ pad' # None /\ DOMAIN pad' = PadFields
  /\ pad'.source = pad.source /\ pad'.events = pad.events /\ pad'.health = pad.health

LEMMA FinishesFollows == ASSUME FollowInv, Finishes, Marks' PROVE FollowInv'
<1>1. Shape' /\ Left'
  <2>1. IsSeq(source)' /\ pc' \in Kept
    BY DEF FollowInv, Shape, Finishes, Kept
  <2>2. Shape'
    BY <2>1 DEF FollowInv, Shape, Finishes, Places, Kept, After
  <2> QED BY <2>1, <2>2 DEF Left
<1>2. Own'
  <2>1. Follows(pad.events, 0) /\ Follows(batch, Len(pad.events)) /\ pad.source = source
    BY DEF FollowInv, Own, Finishes, Kept
  <2>2. Follows(pad.events, 0)' /\ Follows(batch, Len(pad.events))'
    BY <2>1, FollowsKept DEF Finishes
  <2> QED BY <2>1, <2>2 DEF Own, Finishes
<1>3. Ahead'
  BY DEF FollowInv, Ahead, Finishes, After
<1> QED BY <1>1, <1>2, <1>3 DEF FollowInv

LEMMA AfterRows ==
  ASSUME FollowInv, pc \in After
  PROVE  pad # None /\ DOMAIN pad = PadFields /\ pad.health = "unknown"
  BY DEF FollowInv, Shape, Own, Marks, Kept

LEMMA TemplatesFollow == ASSUME FollowInv, StoreTemplates PROVE FollowInv'
<1>1. /\ pc = "templates" /\ pc' = "snapshot" /\ pad' = [pad EXCEPT !["templates"] = Summaries]
      /\ UNCHANGED <<source, config, ingests, taken, merged, pooled, batch>>
  BY DEF StoreTemplates, redaction
<1>2. Finishes /\ pad'.metrics = pad.metrics
  BY <1>1, AfterRows, RowFacts DEF Finishes, After, PadFields
<1>3. Marks'
  BY <1>1, <1>2, AfterRows DEF FollowInv, Marks, Finishes, Kept, After
<1> QED BY <1>2, <1>3, FinishesFollows

LEMMA SaveTreeFollows == ASSUME FollowInv, SaveTree PROVE FollowInv'
<1>1. /\ pc = "snapshot" /\ pc' = "score" /\ pad' = pad
      /\ UNCHANGED <<source, config, ingests, taken, merged, pooled, batch>>
  BY DEF SaveTree, redaction
<1>2. Finishes
  BY <1>1, AfterRows DEF Finishes, After
<1>3. Marks'
  BY <1>1 DEF FollowInv, Marks, Kept, After
<1> QED BY <1>2, <1>3, FinishesFollows

LEMMA ScoreFollows == ASSUME FollowInv, Score PROVE FollowInv'
<1>1. /\ pc = "score" /\ pc' = "flush" /\ pad' = [pad EXCEPT !["scored"] = TRUE]
      /\ UNCHANGED <<source, config, ingests, taken, merged, pooled, batch>>
  BY DEF Score, redaction
<1>2. Finishes /\ pad'.metrics = pad.metrics /\ pad'["scored"] = TRUE
  BY <1>1, AfterRows, RowFacts DEF Finishes, After, PadFields
<1>3. Marks'
  BY <1>1, <1>2, AfterRows DEF FollowInv, Marks, Finishes, Kept, After
<1> QED BY <1>2, <1>3, FinishesFollows

LEMMA FlushFollows == ASSUME FollowInv, FlushVault PROVE FollowInv'
<1>1. /\ pc = "flush" /\ pc' = "measure" /\ pad' = pad
      /\ UNCHANGED <<source, config, ingests, taken, merged, pooled, batch>>
  BY DEF FlushVault
<1>2. Finishes
  BY <1>1, AfterRows DEF Finishes, After
<1>3. Marks'
  BY <1>1 DEF FollowInv, Marks, Kept, After
<1> QED BY <1>2, <1>3, FinishesFollows

\* What Measure records.
Measurement ==
  [loaded |-> Len(pad.events), redacted |-> counts, orphans |-> Orphans,
   templates |-> Cardinality(DOMAIN registry), evicted |-> Evicted, vault |-> config.vault]

LEMMA MeasureFollows == ASSUME FollowInv, Measure PROVE FollowInv'
<1>1. /\ pc = "measure" /\ pc' = "check" /\ pad' = [pad EXCEPT !["metrics"] = Measurement]
      /\ UNCHANGED <<source, config, ingests, taken, merged, pooled, batch>>
  BY DEF Measure, Measurement, redaction
<1>2. Finishes /\ pad'["metrics"] = Measurement /\ pad'["scored"] = pad["scored"]
  BY <1>1, AfterRows, RowFacts DEF Finishes, After, PadFields
<1>3. Measurement # None
  <2>1. "loaded" \in DOMAIN Measurement
    BY DEF Measurement
  <2> QED BY <2>1, NoneFacts
<1>4. Marks'
  BY <1>1, <1>2, <1>3, AfterRows DEF FollowInv, Marks, Finishes, Kept, After
<1> QED BY <1>2, <1>4, FinishesFollows

LEMMA CheckFollows == ASSUME FollowInv, Check PROVE FollowInv'
<1>1. PICK verdict : pad' = [pad EXCEPT !["health"] = verdict]
  BY DEF Check
<1>2. /\ pc = "check" /\ pc' = "idle"
      /\ UNCHANGED <<source, config, ingests, taken, merged, pooled, batch>>
  BY DEF Check, redaction
<1>3. /\ pad # None /\ pad' # None /\ DOMAIN pad' = PadFields /\ pad'.events = pad.events
      /\ pad'.source = pad.source /\ pad'.metrics = pad.metrics
      /\ pad'["scored"] = pad["scored"] /\ pad.metrics # None
  BY <1>1, <1>2, AfterRows, RowFacts DEF After, PadFields, FollowInv, Marks
<1>4. Shape' /\ taken' <= Len(source)'
  BY <1>2, <1>3 DEF FollowInv, Shape, Ahead, Places
<1>5. EventsFollowSource'
  BY <1>3, KeptFollows DEF EventsFollowSource, Measured
<1> QED BY <1>2, <1>4, <1>5, OutsideFollows DEF Kept, After, Loading

LEMMA NextFollows == FollowInv /\ [Next]_vars => FollowInv'
<1> SUFFICES ASSUME FollowInv, [Next]_vars PROVE FollowInv'
  OBVIOUS
<1>1. CASE Begin
  BY <1>1, BeginFollows
<1>2. CASE Step
  BY <1>2, CalibrateFollows, OpenFollows, CreateFollows, TakeFollows, MergeFollows, BreaksFollows,
     RedactHereFollows, RedactedFollows, TemplateFollows, StoredFollows, TailFollows,
     TemplatesFollow, SaveTreeFollows, ScoreFollows, FlushFollows, MeasureFollows, CheckFollows
  DEF Step
<1>3. CASE Dies
  BY <1>3, DiesFollows
<1>4. CASE Settled \/ UNCHANGED vars
  BY <1>4, StutterFollows DEF Settled
<1> QED BY <1>1, <1>2, <1>3, <1>4 DEF Next

LEMMA SpecFollows == Spec => []FollowInv
  BY InitFollows, NextFollows, PTL DEF Spec

\* For any sources and settings, however chunks, batches and slices are cut and wherever a pool
\* breaks or an ingest dies, what a scratchpad holds of its source is its first lines in order,
\* and all of them once it was measured (pipeline.py: ingest).
THEOREM ScratchpadFollowsSource == Spec => []EventsFollowSource
<1>1. FollowInv => EventsFollowSource
  BY KeptFollows
<1> QED BY <1>1, SpecFollows, PTL

-----------------------------------------------------------------------------
(* The numbers of the redaction.                                            *)

\* A line of a source is a record of how often it carries its value.
LinesCounted == \A i \in 1 .. Len(source) : source[i].copies \in Nat \ {0}

\* The placeholders each line of the source is given, and those of the first n.
SourceHits == [i \in 1 .. Len(source) |-> Hits(source[i])]
HitsTo(n) == Running(SourceHits, Len(source))[n]

\* How many lines of the source have been redacted so far.
Through == IF pc = "redact" THEN Loaded + Len(redacted) ELSE taken

LEMMA HitsFacts ==
  ASSUME NEW line, line.copies \in Nat \ {0}
  PROVE  /\ Hits(line) \in Nat
         /\ Hits(line) = IF Tokens(line) = {} THEN 0 ELSE line.copies
<1>1. Hits(line) = 0 \/ Hits(line) = line.copies
  BY DEF Hits
<1>2. Tokens(line) = {} <=> Hits(line) = 0
  BY DEF Tokens
<1> QED BY <1>1, <1>2

LEMMA HitsToFacts ==
  ASSUME IsSeq(source), LinesCounted
  PROVE  /\ Len(source) \in Nat /\ HitsTo(0) = 0
         /\ \A n \in 1 .. Len(source) : HitsTo(n) = HitsTo(n - 1) + Hits(source[n])
         /\ \A n \in 0 .. Len(source) : HitsTo(n) \in Nat
<1>1. Len(source) \in Nat
  BY ConcatFacts
<1>2. \A n \in 1 .. Len(source) : SourceHits[n] = Hits(source[n]) /\ Hits(source[n]) \in Nat
  BY HitsFacts DEF SourceHits, LinesCounted
<1>3. \A n \in 1 .. Len(source) : SourceHits[n] \in Nat
  BY <1>2
<1>4. /\ Running(SourceHits, Len(source))[0] = 0
      /\ \A n \in 1 .. Len(source) :
           Running(SourceHits, Len(source))[n]
             = Running(SourceHits, Len(source))[n - 1] + SourceHits[n]
      /\ \A n \in 0 .. Len(source) : Running(SourceHits, Len(source))[n] \in Nat
  BY ONLY <1>1, <1>3, RunningFacts
<1> QED BY <1>1, <1>2, <1>4 DEF HitsTo

LEMMA TotalIsRunning == ASSUME NEW w PROVE Total(w) = Running(w, Len(w))[Len(w)]
  BY DEF Total, Running

\* A row of numbers indexed from one is a sequence of that length.
LEMMA RowLength ==
  ASSUME NEW n \in Nat, NEW w, DOMAIN w = 1 .. n, w = [i \in 1 .. n |-> w[i]] PROVE Len(w) = n
<1> DEFINE S == {w[i] : i \in 1 .. n}
<1>1. w \in [1 .. n -> S]
  OBVIOUS
<1> HIDE DEF S
<1> QED BY <1>1, SeqDef, LenProperties

\* The tally of lines of the source is what they add to the placeholders before them.
LEMMA TallyOfLines ==
  ASSUME IsSeq(source), LinesCounted, NEW lines, IsSeq(lines), NEW k \in Nat,
         k + Len(lines) <= Len(source), \A i \in 1 .. Len(lines) : lines[i] = source[k + i]
  PROVE  HitsTo(k) + Tally(lines) = HitsTo(k + Len(lines)) /\ Tally(lines) \in Nat
<1> DEFINE m == Len(lines)
           v == [i \in DOMAIN lines |-> Hits(lines[i])]
           f == Running(v, m)
           T == {n \in Nat : n <= m => HitsTo(k) + f[n] = HitsTo(k + n)}
<1>1. m \in Nat /\ DOMAIN lines = 1 .. m
  BY AppendFacts
<1>2. Len(source) \in Nat
  BY ConcatFacts
<1>3. \A i \in 1 .. m : k + i \in 1 .. Len(source)
  BY <1>1, <1>2
<1>4. \A i \in 1 .. m : v[i] = Hits(source[k + i]) /\ v[i] \in Nat
  BY <1>1, <1>3, HitsFacts DEF LinesCounted
<1>5. Len(v) = m
  BY <1>1, RowLength
<1>6. Tally(lines) = f[m]
  BY <1>5, TotalIsRunning DEF Tally
<1>7. \A i \in 1 .. m : v[i] \in Nat
  BY <1>4
<1> HIDE DEF m, v
<1>8. f[0] = 0 /\ \A n \in 1 .. m : f[n] = f[n - 1] + v[n]
  BY <1>1, <1>7, RunningFacts
<1>9. \A n \in 0 .. m : f[n] \in Nat
  BY <1>1, <1>7, RunningFacts
<1> HIDE DEF f
<1>10. k + m <= Len(source)
  BY DEF m
<1>11. 0 \in T
  <2>1. k \in 0 .. Len(source) /\ k + 0 = k
    BY <1>1, <1>2, <1>10
  <2>2. HitsTo(k) \in Nat
    BY <2>1, HitsToFacts
  <2> QED BY <2>1, <2>2, <1>8
<1>12. ASSUME NEW n \in T PROVE n + 1 \in T
  <2> SUFFICES ASSUME n + 1 <= m PROVE HitsTo(k) + f[n + 1] = HitsTo(k + (n + 1))
    OBVIOUS
  <2>1. /\ n \in Nat /\ n + 1 \in 1 .. m /\ n \in 0 .. m /\ (n + 1) - 1 = n /\ n <= m
        /\ k + (n + 1) \in 1 .. Len(source) /\ k + (n + 1) - 1 = k + n
        /\ k + n \in 0 .. Len(source) /\ k \in 0 .. Len(source)
    BY <1>1, <1>2, <1>10
  <2>2. f[n + 1] = f[n] + v[n + 1] /\ f[n] \in Nat /\ v[n + 1] \in Nat
    BY <2>1, <1>7, <1>8, <1>9
  <2>3. HitsTo(k + (n + 1)) = HitsTo(k + n) + v[n + 1] /\ HitsTo(k) \in Nat
        /\ HitsTo(k + n) \in Nat
    BY <2>1, <1>4, HitsToFacts
  <2>4. HitsTo(k) + f[n] = HitsTo(k + n)
    BY <2>1
  <2> QED BY <2>2, <2>3, <2>4
<1>13. T = Nat
  <2> HIDE DEF T
  <2>1. T \in SUBSET Nat
    BY DEF T
  <2> QED BY <1>11, <1>12, <2>1, SetInduction
<1> QED BY <1>1, <1>6, <1>9, <1>13 DEF m

\* The next slice is the next lines of the source.
LEMMA SliceIsNext ==
  ASSUME FollowInv, pc = "redact", Parallel, Len(redacted) < Len(chunk)
  PROVE  /\ IsSeq(Slice) /\ Loaded + Len(redacted) + Len(Slice) <= Len(source)
         /\ Loaded \in Nat /\ Len(redacted) \in Nat /\ Len(Slice) \in Nat
         /\ \A i \in 1 .. Len(Slice) : Slice[i] = source[Loaded + Len(redacted) + i]
<1> DEFINE size == SliceSize
           m == size * merged
           n == IF m + size < Len(chunk) THEN m + size ELSE Len(chunk)
<1>1. /\ size \in Nat \ {0} /\ Len(chunk) \in Nat /\ merged \in Nat
      /\ IsSeq(chunk) /\ Len(redacted) = Reached /\ Loaded \in Nat /\ Len(source) \in Nat
      /\ Loaded + Len(chunk) = taken /\ taken <= Len(source)
      /\ \A i \in 1 .. Len(chunk) : chunk[i] = source[Loaded + i]
  BY SliceSizeFacts, SizeFacts DEF FollowInv, Shape, Ahead, Copies, Parallel, Loading
<1>2. m \in Nat /\ size * (merged + 1) = m + size
  BY <1>1
<1>3. Len(redacted) = m
  BY <1>1, <1>2 DEF Reached
<1>4. Slice = SubSeq(chunk, m + 1, n)
  BY <1>2 DEF Slice
<1>5. n \in Nat /\ m <= n /\ n <= Len(chunk)
  BY <1>1, <1>2, <1>3
<1> HIDE DEF size, m, n
<1>6. /\ IsSeq(Slice) /\ Len(Slice) = n - m
      /\ \A i \in 1 .. n - m : Slice[i] = chunk[m + i]
  BY <1>1, <1>2, <1>4, <1>5, PieceFacts
<1>7. Loaded + m + Len(Slice) <= Len(source) /\ Len(Slice) \in Nat
  BY <1>1, <1>2, <1>5, <1>6
<1>8. ASSUME NEW i \in 1 .. Len(Slice) PROVE Slice[i] = source[Loaded + m + i]
  <2>1. m + i \in 1 .. Len(chunk) /\ i \in 1 .. n - m /\ Loaded + (m + i) = Loaded + m + i
    BY <1>1, <1>2, <1>5, <1>6
  <2> QED BY <2>1, <1>1, <1>6
<1> QED BY <1>1, <1>2, <1>3, <1>6, <1>7, <1>8

\* Between two of its commits, an ingest's tally is the placeholders of its brief and of the
\* lines it has redacted; at the start of a chunk it is kept for the case that the pool breaks.
CountsInv ==
  /\ pc # "idle" => LinesCounted
  /\ pc \in {"calibrate", "open", "create"} => counts = 0
  /\ pc \in Kept => Cardinality(pad.brief) \in Nat
                    /\ counts = Cardinality(pad.brief) + HitsTo(Through)
  /\ pc = "redact" => before = Cardinality(pad.brief) + HitsTo(Loaded)
  /\ pc \in After => taken = Len(source)
  /\ pc = "check" => pad.metrics.redacted = counts
  /\ pc \notin Kept => CountsMatchText

\* The placeholders in the stored events are those of the lines they follow.
LEMMA TextTotal ==
  ASSUME IsSeq(source), LinesCounted, Follows(pad.events, 0), Len(pad.events) = Len(source)
  PROVE  LET placeholders(e) == IF e.tokens = {} THEN 0 ELSE e.line.copies
         IN  Total([i \in DOMAIN pad.events |-> placeholders(pad.events[i])])
               = HitsTo(Len(source))
<1> DEFINE placeholders(e) == IF e.tokens = {} THEN 0 ELSE e.line.copies
           w == [i \in DOMAIN pad.events |-> placeholders(pad.events[i])]
<1>1. DOMAIN pad.events = 1 .. Len(source) /\ Len(source) \in Nat
  BY AppendFacts DEF Follows
<1>2. ASSUME NEW i \in 1 .. Len(source) PROVE placeholders(pad.events[i]) = Hits(source[i])
  <2>1. pad.events[i].line = source[i] /\ pad.events[i].tokens = Tokens(source[i])
    BY <1>1 DEF Follows
  <2>2. source[i].copies \in Nat \ {0}
    BY DEF LinesCounted
  <2> QED BY <2>1, <2>2, HitsFacts
<1>3. w = SourceHits
  BY <1>1, <1>2 DEF SourceHits
<1>4. Len(SourceHits) = Len(source)
  BY <1>1, RowLength DEF SourceHits
<1> HIDE DEF w
<1>5. Total(w) = HitsTo(Len(source))
  BY <1>3, <1>4, TotalIsRunning DEF HitsTo
<1> QED BY <1>5 DEF w

LEMMA CountsHold == ASSUME FollowInv, CountsInv PROVE CountsMatchText
<1>1. CASE pc \notin Kept
  BY <1>1 DEF CountsInv
<1>2. CASE pc \in Kept
  <2> SUFFICES ASSUME Measured PROVE CountsMatchText
    BY DEF CountsMatchText
  <2>1. pc = "check"
    BY <1>2 DEF FollowInv, Marks, Measured
  <2>2. /\ IsSeq(source) /\ LinesCounted /\ Follows(pad.events, 0)
        /\ Len(pad.events) = Len(source)
        /\ pad.metrics.redacted = Cardinality(pad.brief) + HitsTo(Len(source))
    BY <1>2, <2>1 DEF FollowInv, CountsInv, Shape, Own, Ahead, Through, After
  <2> QED BY <2>2, TextTotal DEF CountsMatchText
<1> QED BY <1>1, <1>2

\* A step that redacts nothing.
CountsKept ==
  /\ UNCHANGED <<source, config, counts>> /\ pad'.brief = pad.brief
  /\ pc \in Kept /\ pc' \in Kept /\ Through' = Through

LEMMA KeptCounts ==
  ASSUME CountsInv, CountsKept,
         pc' = "redact" => before' = Cardinality(pad.brief) + HitsTo(Loaded'),
         pc' \in After => taken' = Len(source),
         pc' = "check" => pad'.metrics.redacted = counts
  PROVE  CountsInv'
<1>1. LinesCounted'
  BY DEF CountsInv, CountsKept, LinesCounted, Kept, Loading, After
<1>2. \A n : HitsTo(n)' = HitsTo(n)
  BY DEF CountsKept, HitsTo, SourceHits, Hits
<1>3. HitsTo(Through)' = HitsTo(Through)
  BY DEF CountsKept, HitsTo, SourceHits, Hits
<1>4. HitsTo(Loaded)' = HitsTo(Loaded')
  BY DEF CountsKept, HitsTo, SourceHits, Hits
<1> QED BY <1>1, <1>3, <1>4 DEF CountsInv, CountsKept, Kept, Loading, After


\* Before the scratchpad and after it.
LEMMA OutsideCounts ==
  ASSUME pc' \notin Kept, CountsMatchText', pc' # "idle" => LinesCounted' /\ counts' = 0
  PROVE  CountsInv'
  BY DEF CountsInv, Kept, Loading, After

LEMMA SourceCounted ==
  ASSUME NEW s \in Sources PROVE \A i \in 1 .. Len(s) : s[i].copies \in Nat \ {0}
  BY IngestAssumption

LEMMA CreateCounts ==
  ASSUME FollowInv, FollowInv', CountsInv, CreateIncident PROVE CountsInv'
<1>1. PICK b \in Briefs :
        LET brief == [secret |-> b, copies |-> 1]
        IN /\ pad' = [ingest |-> ingests, source |-> source, events |-> <<>>,
                      brief |-> Tokens(brief), templates |-> <<>>, scored |-> FALSE,
                      metrics |-> None, health |-> "unknown"]
           /\ counts' = counts + Hits(brief)
  BY DEF CreateIncident
<1> DEFINE brief == [secret |-> b, copies |-> 1]
<1>2. /\ pc = "create" /\ pc' = "read" /\ UNCHANGED <<source, config, taken>>
      /\ taken = 0 /\ counts = 0 /\ LinesCounted /\ IsSeq(source)
  BY DEF CreateIncident, FollowInv, Ahead, Shape, CountsInv
<1>3. pad'.brief = Tokens(brief)
  BY <1>1
<1>4. Cardinality(Tokens(brief)) = Hits(brief) /\ Hits(brief) \in Nat
  <2>1. brief.copies = 1
    OBVIOUS
  <2>2. Hits(brief) \in {0, 1}
    BY <2>1 DEF Hits
  <2>3. CASE Hits(brief) = 0
    BY <2>3, FS_EmptySet DEF Tokens
  <2>4. CASE Hits(brief) = 1
    <3>1. Tokens(brief) = {Token(brief.secret)}
      BY <2>4 DEF Tokens
    <3> QED BY <2>4, <3>1, FS_Singleton
  <2> QED BY <2>2, <2>3, <2>4
<1>5. LinesCounted' /\ HitsTo(0)' = 0
  <2>1. LinesCounted' /\ HitsTo(0)' = HitsTo(0)
    BY <1>2 DEF LinesCounted, HitsTo, SourceHits, Hits
  <2> QED BY <2>1, <1>2, HitsToFacts
<1>6. Through' = 0
  BY <1>2 DEF Through
<1>7. HitsTo(Through)' = 0
  BY <1>5, <1>6 DEF HitsTo, SourceHits, Hits
<1>8. Cardinality(pad'.brief) \in Nat /\ counts' = Cardinality(pad'.brief) + HitsTo(Through)'
  BY <1>1, <1>2, <1>3, <1>4, <1>7
<1> QED BY <1>2, <1>5, <1>8 DEF CountsInv, Kept, Loading, After

\* A step that redacts the next lines of the source.
LEMMA RedactedCounts ==
  ASSUME FollowInv, CountsInv, Redacts, UNCHANGED before,
         NEW lines, IsSeq(lines), Len(redacted) \in Nat, Loaded \in Nat,
         Loaded + Len(redacted) + Len(lines) <= Len(source),
         \A i \in 1 .. Len(lines) : lines[i] = source[Loaded + Len(redacted) + i],
         Len(redacted') = Len(redacted) + Len(lines),
         counts' = counts + Tally(lines)
  PROVE  CountsInv'
<1> DEFINE k == Loaded + Len(redacted)
           m == Len(lines)
<1>1. IsSeq(source) /\ LinesCounted
  BY DEF FollowInv, Shape, CountsInv, Redacts
<1>2. k \in Nat /\ m \in Nat /\ Through = k /\ Len(source) \in Nat
  BY <1>1, ConcatFacts DEF Through, Redacts
<1>3. Through' = k + m
  <2>1. Loaded' = Loaded /\ pc' = "redact"
    BY DEF Redacts, Loaded
  <2>2. Loaded + (Len(redacted) + m) = k + m
    BY <1>2
  <2> QED BY <2>1, <2>2 DEF Through
<1>4. HitsTo(k) + Tally(lines) = HitsTo(k + m) /\ Tally(lines) \in Nat
  BY <1>1, <1>2, TallyOfLines
<1> HIDE DEF k, m
<1>5. HitsTo(k) \in Nat
  <2>1. k \in 0 .. Len(source)
    BY <1>2 DEF k, m
  <2> QED BY <2>1, <1>1, HitsToFacts
<1>6. counts = Cardinality(pad.brief) + HitsTo(k) /\ Cardinality(pad.brief) \in Nat
  BY <1>2 DEF CountsInv, Redacts, Kept, Loading
<1>8. counts' = Cardinality(pad.brief) + HitsTo(k + m)
  BY <1>4, <1>5, <1>6
<1>9. HitsTo(Through)' = HitsTo(k + m) /\ HitsTo(Loaded)' = HitsTo(Loaded)
  BY <1>3 DEF Redacts, Loaded, HitsTo, SourceHits, Hits
<1>10. LinesCounted'
  BY <1>1 DEF LinesCounted, Redacts
<1> QED BY <1>6, <1>8, <1>9, <1>10 DEF CountsInv, Redacts, Kept, Loading, After

LEMMA MergeCounts == ASSUME FollowInv, CountsInv, MergeSlice PROVE CountsInv'
<1>1. /\ pc = "redact" /\ Parallel /\ Len(redacted) < Len(chunk) /\ Redacts
      /\ redacted' = redacted \o Slice /\ before' = before /\ counts' = counts + Tally(Slice)
  BY DEF MergeSlice, Joined, disk, templating, Redacts
<1> DEFINE t == Slice
<1>2. /\ IsSeq(t) /\ Loaded + Len(redacted) + Len(t) <= Len(source)
      /\ Loaded \in Nat /\ Len(redacted) \in Nat /\ Len(t) \in Nat
      /\ \A i \in 1 .. Len(t) : t[i] = source[Loaded + Len(redacted) + i]
  BY <1>1, SliceIsNext
<1>3. IsSeq(redacted)
  BY <1>1 DEF FollowInv, Ahead, Copies
<1>4. redacted' = redacted \o t /\ counts' = counts + Tally(t)
  BY <1>1
<1> HIDE DEF t
<1>5. Len(redacted \o t) = Len(redacted) + Len(t)
  BY ONLY <1>2, <1>3, ConcatFacts
<1>6. Len(redacted') = Len(redacted) + Len(t)
  BY <1>4, <1>5
<1> QED BY <1>1, <1>2, <1>4, <1>6, RedactedCounts

LEMMA RedactHereCounts == ASSUME FollowInv, CountsInv, RedactHere PROVE CountsInv'
<1> DEFINE line == chunk[Len(redacted) + 1]
           t == <<line>>
<1>1. /\ pc = "redact" /\ Len(redacted) < Len(chunk) /\ Redacts
      /\ redacted' = Append(redacted, line) /\ before' = before
      /\ counts' = counts + Hits(line)
  BY DEF RedactHere, templating, Redacts
<1>2. /\ IsSeq(redacted) /\ IsSeq(chunk) /\ Loaded + Len(chunk) = taken /\ taken <= Len(source)
      /\ \A i \in 1 .. Len(chunk) : chunk[i] = source[Loaded + i]
  BY <1>1 DEF FollowInv, Ahead, Copies
<1>3. Len(redacted) \in Nat /\ Len(chunk) \in Nat /\ Loaded \in Nat /\ Len(source) \in Nat
  BY <1>1, <1>2, ConcatFacts, SizeFacts DEF Loading
<1>4. /\ Len(redacted) + 1 \in 1 .. Len(chunk)
      /\ Loaded + Len(redacted) + 1 = Loaded + (Len(redacted) + 1)
      /\ Loaded + Len(redacted) + 1 <= Len(source)
  BY <1>1, <1>2, <1>3
<1>5. line = source[Loaded + Len(redacted) + 1]
  BY <1>2, <1>4
<1>6. IsSeq(t) /\ Len(t) = 1 /\ t[1] = line /\ DOMAIN t = 1 .. 1
  <2>1. t = Append(<<>>, line) /\ Len(<<>>) = 0
    OBVIOUS
  <2>2. IsSeq(Append(<<>>, line)) /\ Len(Append(<<>>, line)) = Len(<<>>) + 1
        /\ Append(<<>>, line)[Len(<<>>) + 1] = line
        /\ DOMAIN Append(<<>>, line) = 1 .. Len(<<>>) + 1
    BY EmptyIsSeq, AppendFacts
  <2> QED BY <2>1, <2>2
<1>7. Len(redacted') = Len(redacted) + 1
  BY <1>1, <1>2, AppendFacts
<1>8. line.copies \in Nat \ {0} /\ Hits(line) \in Nat
  <2>1. Loaded + Len(redacted) + 1 \in 1 .. Len(source)
    BY <1>3, <1>4
  <2>2. LinesCounted
    BY <1>1 DEF CountsInv
  <2> QED BY <1>5, <2>1, <2>2, HitsFacts DEF LinesCounted
<1> HIDE DEF line
<1>9. Tally(t) = Hits(line)
  <2> DEFINE v == [i \in DOMAIN t |-> Hits(t[i])]
  <2>1. v[1] = Hits(line) /\ Len(v) = 1
    BY <1>6, RowLength
  <2> HIDE DEF v
  <2>2. \A n \in 1 .. 1 : v[n] \in Nat
    BY <2>1, <1>8
  <2>3. Running(v, 1)[0] = 0 /\ Running(v, 1)[1] = Running(v, 1)[1 - 1] + v[1]
    BY <2>2, RunningFacts
  <2>4. Running(v, 1)[1] = Hits(line)
    BY <2>1, <2>3, <1>8
  <2> QED BY <2>1, <2>4, TotalIsRunning DEF Tally, v
<1> HIDE DEF t
<1>10. \A i \in 1 .. Len(t) : t[i] = source[Loaded + Len(redacted) + i]
  BY <1>5, <1>6
<1> QED BY <1>1, <1>3, <1>4, <1>6, <1>7, <1>9, <1>10, RedactedCounts

LEMMA BreaksCounts == ASSUME FollowInv, CountsInv, PoolBreaks PROVE CountsInv'
<1>1. /\ Redacts /\ redacted' = <<>> /\ counts' = before /\ before' = before
  BY DEF PoolBreaks, Recount, Redacts, disk, templating
<1>2. Loaded \in Nat /\ Loaded' = Loaded
  BY <1>1, SizeFacts DEF Redacts, Loading, Loaded
<1>3. Through' = Loaded
  BY <1>1, <1>2 DEF Through, Redacts
<1>4. HitsTo(Through)' = HitsTo(Loaded) /\ HitsTo(Loaded)' = HitsTo(Loaded)
  BY <1>1, <1>2, <1>3 DEF Redacts, HitsTo, SourceHits, Hits
<1>5. LinesCounted'
  BY <1>1 DEF CountsInv, Redacts, LinesCounted
<1> QED BY <1>1, <1>4, <1>5 DEF CountsInv, Redacts, Kept, Loading, After

\* The steps of a load that redact nothing.
LEMMA LoadCounts ==
  ASSUME FollowInv, CountsInv,
         TakeChunk \/ ChunkRedacted \/ TemplateLine \/ ChunkStored \/ StoreTail
  PROVE  CountsInv'
<1> USE DEF disk, redaction, templating, CountsKept, Kept, Loading, After
<1>1. CASE TakeChunk
  <2>1. /\ pc = "read" /\ pc' = "redact" /\ redacted' = <<>> /\ before' = counts
        /\ UNCHANGED <<source, config, counts, pad, batch>>
    BY <1>1 DEF TakeChunk
  <2>2. Loaded' = taken /\ Through = taken /\ taken \in Nat
    BY <2>1 DEF FollowInv, Ahead, Shape, Loaded, Through
  <2>3. Through' = taken
    BY <2>1, <2>2 DEF Through
  <2>4. counts = Cardinality(pad.brief) + HitsTo(taken)
    BY <2>1, <2>2 DEF CountsInv
  <2> QED BY <2>1, <2>2, <2>3, <2>4, KeptCounts
<1>2. CASE ChunkRedacted
  <2>1. /\ pc = "redact" /\ pc' = "template" /\ Len(redacted) = Len(chunk)
        /\ UNCHANGED <<source, config, counts, pad, batch, taken>>
    BY <1>2 DEF ChunkRedacted
  <2>2. Through' = Through
    BY <2>1 DEF FollowInv, Ahead, Through
  <2> QED BY <2>1, <2>2, KeptCounts
<1>3. CASE TemplateLine
  <2>1. pc = "template" /\ pc' = "template" /\ UNCHANGED <<source, config, counts, taken>>
    BY <1>3 DEF TemplateLine
  <2>2. pad'.brief = pad.brief
    <3>1. DOMAIN pad = PadFields
      BY <2>1 DEF FollowInv, Shape, Own
    <3>2. pad' = pad \/ \E row : pad' = [pad EXCEPT !["events"] = row]
      BY <1>3 DEF TemplateLine
    <3> QED BY <3>1, <3>2, RowFacts DEF PadFields
  <2>3. Through' = Through
    BY <2>1 DEF Through
  <2> QED BY <2>1, <2>2, <2>3, KeptCounts
<1>4. CASE ChunkStored
  <2>1. pc = "template" /\ pc' = "read" /\ UNCHANGED <<source, config, counts, pad, taken>>
    BY <1>4 DEF ChunkStored
  <2> QED BY <2>1, KeptCounts DEF Through
<1>5. CASE StoreTail
  <2>1. /\ pc = "read" /\ pc' = "templates" /\ taken = Len(source)
        /\ UNCHANGED <<source, config, counts, taken>>
        /\ \E row : pad' = [pad EXCEPT !["events"] = row]
    BY <1>5 DEF StoreTail
  <2>2. pad'.brief = pad.brief
    BY <2>1, RowFacts DEF FollowInv, Shape, Own, PadFields
  <2>3. Through' = Through
    BY <2>1 DEF Through
  <2> QED BY <2>1, <2>2, <2>3, KeptCounts
<1> QED BY <1>1, <1>2, <1>3, <1>4, <1>5

\* The steps after it.
LEMMA AfterCounts ==
  ASSUME FollowInv, CountsInv, StoreTemplates \/ SaveTree \/ Score \/ FlushVault \/ Measure
  PROVE  CountsInv'
<1>1. /\ pc \in After \ {"check"} /\ pc' \in After
      /\ UNCHANGED <<source, config, counts, taken>>
      /\ pc' = "check" <=> Measure
  BY DEF StoreTemplates, SaveTree, Score, FlushVault, Measure, redaction, After
<1>2. pad # None /\ DOMAIN pad = PadFields
  BY <1>1, AfterRows
<1>3. pad'.brief = pad.brief
  <2>1. \/ pad' = pad
        \/ \E row : \E f \in PadFields \ {"brief"} : pad' = [pad EXCEPT ![f] = row]
    BY DEF StoreTemplates, SaveTree, Score, FlushVault, Measure, PadFields
  <2> QED BY <1>2, <2>1, RowFacts DEF PadFields
<1>4. Through' = Through
  BY <1>1 DEF Through, After
<1>5. Measure => pad'.metrics.redacted = counts
  <2> HAVE Measure
  <2>1. pad' = [pad EXCEPT !["metrics"] = Measurement]
    BY DEF Measure, Measurement
  <2>2. pad'["metrics"] = Measurement
    BY <1>2, <2>1, RowFacts DEF PadFields
  <2> QED BY <2>2 DEF Measurement
<1>6. CountsKept
  BY <1>1, <1>3, <1>4 DEF CountsKept, Kept
<1>7. pc' # "redact" /\ taken' = Len(source)
  BY <1>1 DEF CountsInv, After
<1> QED BY <1>1, <1>5, <1>6, <1>7, KeptCounts

LEMMA CountsStep == FollowInv /\ FollowInv' /\ CountsInv /\ [Next]_vars => CountsInv'
<1> SUFFICES ASSUME FollowInv, FollowInv', CountsInv, [Next]_vars PROVE CountsInv'
  OBVIOUS
<1> USE DEF disk, redaction, templating
<1>1. CASE Begin
  <2>1. LinesCounted' /\ counts' = 0 /\ pc' \in {"calibrate", "open"}
    BY <1>1, SourceCounted DEF Begin, LinesCounted
  <2>2. CountsMatchText'
    BY <1>1, CountsHold DEF Begin, CountsMatchText, Measured
  <2> QED BY <2>1, <2>2, OutsideCounts DEF Kept, Loading, After
<1>2. CASE Calibrate \/ Open
  <2>1. /\ pc \in {"calibrate", "open"} /\ pc' \in {"open", "create"} /\ source' = source
        /\ counts' = 0 /\ (pad' = pad \/ pad' = None)
    BY <1>2 DEF Calibrate, Open, CountsInv
  <2>2. LinesCounted'
    BY <2>1 DEF CountsInv, LinesCounted
  <2>3. CountsMatchText'
    BY <2>1, CountsHold DEF CountsMatchText, Measured
  <2> QED BY <2>1, <2>2, <2>3, OutsideCounts DEF Kept, Loading, After
<1>3. CASE Check
  <2>1. pc = "check" /\ pc' = "idle" /\ \E row : pad' = [pad EXCEPT !["health"] = row]
    BY <1>3 DEF Check
  <2>2. /\ pad' # None /\ pad # None
        /\ \A f \in {"metrics", "brief", "events"} : pad'[f] = pad[f]
    BY <2>1, AfterRows, RowFacts DEF After, PadFields
  <2>3. CountsMatchText'
    BY <2>2, CountsHold DEF CountsMatchText, Measured
  <2> QED BY <2>1, <2>3, OutsideCounts DEF Kept, Loading, After
<1>4. CASE Dies
  <2>1. pc' = "idle" /\ pad' = pad
    BY <1>4 DEF Dies
  <2>2. CountsMatchText'
    BY <2>1, CountsHold DEF CountsMatchText, Measured
  <2> QED BY <2>1, <2>2, OutsideCounts DEF Kept, Loading, After
<1>5. CASE Settled \/ UNCHANGED vars
  <2>1. UNCHANGED vars
    BY <1>5 DEF Settled
  <2>2. HitsTo(Through)' = HitsTo(Through) /\ HitsTo(Loaded)' = HitsTo(Loaded)
    BY <2>1 DEF vars, Through, Loaded, HitsTo, SourceHits, Hits
  <2> QED BY <2>1, <2>2 DEF vars, CountsInv, LinesCounted, CountsMatchText, Measured
<1> QED
  BY <1>1, <1>2, <1>3, <1>4, <1>5, CreateCounts, MergeCounts, BreaksCounts, RedactHereCounts,
     LoadCounts, AfterCounts
  DEF Next, Step

LEMMA SpecCounts == Spec => []CountsInv
<1>1. Init => CountsInv
  BY DEF Init, CountsInv, Kept, Loading, After, CountsMatchText, Measured
<1>2. FollowInv /\ FollowInv' /\ CountsInv /\ [Next]_vars => CountsInv'
  BY CountsStep
<1> QED BY <1>1, <1>2, SpecFollows, PTL DEF Spec

\* For any sources, settings, chunk and pool sizes, wherever the pool breaks and whatever
\* calibration redacted before, the number of placeholders a measured scratchpad reports is the
\* number its stored text carries.
THEOREM PlaceholdersAreCounted == Spec => []CountsMatchText
<1>1. FollowInv /\ CountsInv => CountsMatchText
  BY CountsHold
<1> QED BY <1>1, SpecCounts, SpecFollows, PTL

-----------------------------------------------------------------------------
(* The vault.                                                               *)

\* The placeholders of the first n lines, and of all.
TextTo(n) == UNION {Tokens(source[i]) : i \in 1 .. n}
Brief == IF pc \in Kept THEN pad.brief ELSE {}

\* What the vault holds, committed or not.
Vaulted == vaultFile \cup pending.tokens

\* An ingest with a vault redacts in this process, so that its vault has been handed every
\* placeholder of the text redacted so far; what it has beyond those calibration gave it, which
\* reads no line that the load does not.
VaultInv ==
  /\ pc # "idle" /\ pooled => ~config.vault
  /\ "tokens" \in DOMAIN pending
  /\ pad # None => pad.ingest \in Nat /\ pad.ingest <= ingests
  /\ pc \in {"calibrate", "open"} => pad = None \/ pad.ingest < ingests
  /\ pc = "create" => pad = None
  /\ pc # "idle" /\ config.vault => Vaulted \subseteq TextTo(Len(source)) \cup Brief
  /\ pc \in Kept /\ config.vault => TextTo(Through) \cup Brief \subseteq Vaulted
  /\ pc \in {"measure", "check"} /\ config.vault => pending.tokens = {}
  /\ pc = "check" => pad.metrics.vault = config.vault
  /\ pc \notin Kept => VaultMatchesText

LEMMA VaultHolds == ASSUME FollowInv, CountsInv, VaultInv PROVE VaultMatchesText
<1>1. CASE pc \notin Kept
  BY <1>1 DEF VaultInv
<1>2. CASE pc \in Kept
  <2> SUFFICES ASSUME Measured, pad.metrics.vault PROVE VaultMatchesText
    BY DEF VaultMatchesText
  <2>1. pc = "check" /\ config.vault
    BY <1>2 DEF FollowInv, Marks, Measured, VaultInv
  <2>2. Through = Len(source) /\ pending.tokens = {} /\ Brief = pad.brief
    BY <1>2, <2>1 DEF CountsInv, VaultInv, Through, After, Brief
  <2>3. vaultFile = TextTo(Len(source)) \cup pad.brief
    BY <1>2, <2>1, <2>2 DEF VaultInv, Vaulted
  <2>4. Len(pad.events) = Len(source) /\ IsSeq(pad.events) /\ Len(source) \in Nat
        /\ \A i \in 1 .. Len(source) : pad.events[i].tokens = Tokens(source[i])
    <3>1. Follows(pad.events, 0) /\ Len(pad.events) = Len(source) /\ IsSeq(source)
      BY <1>2, <2>1 DEF FollowInv, Own, Ahead, Shape, After
    <3>2. Len(source) \in Nat
      BY <3>1, ConcatFacts
    <3> QED BY <3>1, <3>2 DEF Follows
  <2> DEFINE text == UNION {pad.events[i].tokens : i \in 1 .. Len(pad.events)}
  <2>5. text = TextTo(Len(source))
    BY <2>4 DEF TextTo
  <2> HIDE DEF text
  <2>6. vaultFile = pad.brief \cup text
    BY <2>3, <2>5
  <2> QED BY <2>6 DEF VaultMatchesText, text
<1> QED BY <1>1, <1>2

\* What the redactor hands the vault is in it.
LEMMA RecordedIsVaulted ==
  ASSUME NEW line, Recorded(line)
  PROVE  /\ config.vault => Vaulted' = Vaulted \cup Tokens(line)
         /\ "tokens" \in DOMAIN pending => "tokens" \in DOMAIN pending'
<1>0. CASE ~config.vault
  BY <1>0 DEF Recorded
<1> SUFFICES ASSUME config.vault
             PROVE  Vaulted' = Vaulted \cup Tokens(line) /\ "tokens" \in DOMAIN pending'
  BY <1>0
<1> DEFINE n == pending.records + Hits(line)
<1>1. CASE n >= CommitInterval
  <2>1. vaultFile' = vaultFile \cup (pending.tokens \cup Tokens(line)) /\ pending'.tokens = {}
        /\ "tokens" \in DOMAIN pending'
    BY <1>1 DEF Recorded
  <2> QED BY <2>1 DEF Vaulted
<1>2. CASE ~(n >= CommitInterval)
  <2>1. vaultFile' = vaultFile /\ pending'.tokens = pending.tokens \cup Tokens(line)
        /\ "tokens" \in DOMAIN pending'
    BY <1>2 DEF Recorded
  <2> QED BY <2>1 DEF Vaulted
<1> QED BY <1>1, <1>2

\* Once the scratchpad is over with, or is an earlier ingest's.
LEMMA OutsideVault ==
  ASSUME VaultInv, "tokens" \in DOMAIN pending', pc' \notin Kept, VaultMatchesText',
         ingests' = ingests,
         pad' = None \/ (pad'.ingest = pad.ingest /\ pad # None),
         \/ pc' = "idle"
         \/ pad' = None
         \/ pad'.ingest < ingests' /\ pc' = "open",
         pc' # "idle" => /\ pc # "idle" /\ config' = config /\ (pooled' => pooled)
                         /\ config.vault => Vaulted' \subseteq TextTo(Len(source))'
  PROVE  VaultInv'
<1>1. Brief' = {}
  BY DEF Brief
<1> QED BY <1>1 DEF VaultInv, Kept, Loading, After

LEMMA TextKept ==
  ASSUME UNCHANGED <<source, config, ingests>> PROVE \A n : TextTo(n)' = TextTo(n)
  BY DEF TextTo, Tokens, Hits, Token

\* A step of the load: its vault is handed the lines it redacts.
LEMMA KeptVault ==
  ASSUME VaultInv, "tokens" \in DOMAIN pending', pc \in Kept, pc' \in Kept,
         UNCHANGED <<source, config, ingests>>,
         pooled' => pooled,
         pad' # None, pad # None, pad'.brief = pad.brief, pad'.ingest = pad.ingest,
         config.vault => TextTo(Through') \subseteq TextTo(Through) \cup Vaulted',
         config.vault => Vaulted \subseteq Vaulted',
         config.vault => Vaulted' \subseteq Vaulted \cup TextTo(Len(source)),
         pc' \in {"measure", "check"} /\ config.vault => pending'.tokens = {},
         pc' = "check" => pad'.metrics.vault = config.vault
  PROVE  VaultInv'
<1>1. Brief' = Brief
  BY DEF Brief
<1>2. TextTo(Through)' = TextTo(Through') /\ TextTo(Len(source))' = TextTo(Len(source))
  BY DEF TextTo, Tokens, Hits, Token
<1> QED BY <1>1, <1>2 DEF VaultInv, Kept, Loading, After

LEMMA CreateVault ==
  ASSUME FollowInv, FollowInv', VaultInv, CreateIncident PROVE VaultInv'
<1>1. PICK b \in Briefs :
        LET brief == [secret |-> b, copies |-> 1]
        IN /\ pad' = [ingest |-> ingests, source |-> source, events |-> <<>>,
                      brief |-> Tokens(brief), templates |-> <<>>, scored |-> FALSE,
                      metrics |-> None, health |-> "unknown"]
           /\ Recorded(brief)
  BY DEF CreateIncident
<1> DEFINE brief == [secret |-> b, copies |-> 1]
<1>2. /\ pc = "create" /\ pc' = "read" /\ UNCHANGED <<source, config, ingests, taken, pooled>>
      /\ taken = 0 /\ pad' # None
  BY DEF CreateIncident, FollowInv, Ahead, Own, Kept, Loading
<1>3. pad'.brief = Tokens(brief) /\ pad'.ingest = ingests
  BY <1>1
<1>4. Through' = 0 /\ Brief' = Tokens(brief)
  BY <1>2, <1>3 DEF Through, Brief, Kept, Loading
<1>5. TextTo(Through)' = {}
  BY <1>4 DEF TextTo
<1>6. TextTo(Len(source))' = TextTo(Len(source))
  BY <1>2 DEF TextTo, Tokens, Hits, Token
<1>7. /\ config.vault => Vaulted' = Vaulted \cup Tokens(brief)
      /\ "tokens" \in DOMAIN pending'
  <2>1. Recorded(brief)
    BY <1>1
  <2> HIDE DEF brief
  <2> QED BY <2>1, RecordedIsVaulted DEF VaultInv
<1>8. config.vault => Vaulted \subseteq TextTo(Len(source))
  BY <1>2 DEF VaultInv, Brief, Kept, Loading, After
<1>9. ingests \in Nat
  BY DEF FollowInv, Shape
<1> HIDE DEF brief
<1>10. config.vault => /\ Vaulted' \subseteq TextTo(Len(source))' \cup Brief'
                       /\ TextTo(Through)' \cup Brief' \subseteq Vaulted'
  BY <1>4, <1>5, <1>6, <1>7, <1>8
<1> QED BY <1>2, <1>3, <1>7, <1>9, <1>10 DEF VaultInv, Kept, Loading, After

LEMMA CalibrateVault ==
  ASSUME FollowInv, CountsInv, VaultInv, Calibrate PROVE VaultInv'
<1> DEFINE shown(from, to) == UNION {Tokens(source[i]) : i \in from .. to}
<1>1. /\ pc = "calibrate" /\ pc' = "open" /\ UNCHANGED <<pad, source, config, ingests, pooled>>
  BY DEF Calibrate
<1>2. PICK n \in 0 .. Len(source) : \E k \in 0 .. n :
        IF config.vault THEN /\ vaultFile' = vaultFile \cup shown(1, k)
                             /\ pending' = [pending EXCEPT !.tokens = shown(k + 1, n)]
                        ELSE UNCHANGED <<vaultFile, pending>>
  BY DEF Calibrate
<1>3. PICK k \in 0 .. n :
        config.vault => /\ vaultFile' = vaultFile \cup shown(1, k)
                        /\ pending' = [pending EXCEPT !.tokens = shown(k + 1, n)]
  BY <1>2
<1>4. Len(source) \in Nat
  BY ConcatFacts DEF FollowInv, Shape
<1>5. shown(1, k) \subseteq TextTo(Len(source)) /\ shown(k + 1, n) \subseteq TextTo(Len(source))
  <2>1. 1 .. k \subseteq 1 .. Len(source) /\ k + 1 .. n \subseteq 1 .. Len(source)
    BY <1>4
  <2> QED BY <2>1 DEF TextTo
<1> HIDE DEF shown
<1>6. /\ config.vault => pending'.tokens = shown(k + 1, n)
      /\ "tokens" \in DOMAIN pending'
  <2>1. CASE config.vault
    BY <2>1, <1>3 DEF VaultInv
  <2>2. CASE ~config.vault
    BY <2>2, <1>2 DEF VaultInv
  <2> QED BY <2>1, <2>2
<1>7. config.vault => vaultFile \subseteq TextTo(Len(source))
  BY <1>1 DEF VaultInv, Vaulted, Brief, Kept, Loading, After
<1>8. config.vault => Vaulted' \subseteq TextTo(Len(source))
  BY <1>3, <1>5, <1>6, <1>7 DEF Vaulted
<1>9. TextTo(Len(source))' = TextTo(Len(source))
  BY <1>1 DEF TextTo, Tokens, Hits, Token
<1>10. VaultMatchesText'
  BY <1>1 DEF VaultInv, VaultMatchesText, Measured
<1> QED BY <1>1, <1>6, <1>8, <1>9, <1>10, OutsideVault DEF VaultInv, Kept, Loading, After

\* The steps of a redaction: with a vault, line after line in this process.
LEMMA RedactVault ==
  ASSUME FollowInv, FollowInv', CountsInv, VaultInv, MergeSlice \/ PoolBreaks \/ RedactHere
  PROVE  VaultInv'
<1>1. /\ pc = "redact" /\ pc' = "redact" /\ UNCHANGED <<pad, source, config, ingests, batch>>
      /\ pooled' => pooled
  BY DEF MergeSlice, PoolBreaks, RedactHere, disk, templating
<1>2. pad # None /\ Loaded' = Loaded
  BY <1>1 DEF FollowInv, Own, Kept, Loading, Loaded
<1>3. CASE MergeSlice \/ PoolBreaks
  <2>1. UNCHANGED <<vaultFile, pending>> /\ Parallel
    BY <1>3 DEF MergeSlice, PoolBreaks, disk
  <2>2. ~config.vault
    BY <1>1, <2>1 DEF Parallel, VaultInv
  <2> QED BY <1>1, <1>2, <2>1, <2>2, KeptVault DEF VaultInv, Kept, Loading
<1>4. CASE RedactHere
  <2> DEFINE line == chunk[Len(redacted) + 1]
  <2>1. /\ Len(redacted) < Len(chunk) /\ redacted' = Append(redacted, line) /\ Recorded(line)
    BY <1>4 DEF RedactHere
  <2>2. /\ IsSeq(redacted) /\ IsSeq(chunk) /\ Loaded + Len(chunk) = taken /\ taken <= Len(source)
        /\ \A i \in 1 .. Len(chunk) : chunk[i] = source[Loaded + i]
    BY <1>1 DEF FollowInv, Ahead, Copies
  <2>3. Len(redacted) \in Nat /\ Len(chunk) \in Nat /\ Loaded \in Nat /\ Len(source) \in Nat
    BY <1>1, <2>2, ConcatFacts, SizeFacts DEF Loading
  <2>4. /\ Len(redacted) + 1 \in 1 .. Len(chunk)
        /\ Loaded + (Len(redacted) + 1) \in 1 .. Len(source)
    BY <2>1, <2>2, <2>3
  <2>5. line = source[Loaded + (Len(redacted) + 1)]
    BY <2>2, <2>4
  <2>6. Len(redacted') = Len(redacted) + 1
    BY <2>1, <2>2, AppendFacts
  <2>7. Through = Loaded + Len(redacted) /\ Through' = Loaded + (Len(redacted) + 1)
    BY <1>1, <1>2, <2>6 DEF Through
  <2> HIDE DEF line
  <2>8. Tokens(line) \subseteq TextTo(Len(source))
    BY <2>4, <2>5 DEF TextTo
  <2>9. TextTo(Through') \subseteq TextTo(Through) \cup Tokens(line)
    <3>1. \A i \in 1 .. Through' : i \in 1 .. Through \/ i = Loaded + (Len(redacted) + 1)
      BY <2>3, <2>7
    <3> QED BY <3>1, <2>5 DEF TextTo
  <2>10. /\ config.vault => Vaulted' = Vaulted \cup Tokens(line)
         /\ "tokens" \in DOMAIN pending'
    BY <2>1, RecordedIsVaulted DEF VaultInv
  <2> QED BY <1>1, <1>2, <2>8, <2>9, <2>10, KeptVault DEF Kept, Loading
<1> QED BY <1>3, <1>4

\* The other steps between the incident's row and the measurement.
LEMMA OtherVault ==
  ASSUME FollowInv, FollowInv', CountsInv, VaultInv,
         \/ TakeChunk \/ ChunkRedacted \/ TemplateLine \/ ChunkStored \/ StoreTail
         \/ StoreTemplates \/ SaveTree \/ Score \/ FlushVault \/ Measure
  PROVE  VaultInv'
<1> USE DEF disk, redaction, templating
<1>1. /\ pc \in Kept /\ pc' \in Kept /\ UNCHANGED <<source, config, ingests>>
      /\ pooled' => pooled
  <2>1. CASE StoreTemplates \/ SaveTree \/ Score \/ FlushVault \/ Measure
    BY <2>1 DEF StoreTemplates, SaveTree, Score, FlushVault, Measure, Kept, After
  <2>2. CASE TakeChunk
    BY <2>2 DEF TakeChunk, Kept, Loading, After
  <2>3. CASE ChunkRedacted
    BY <2>3 DEF ChunkRedacted, Kept, Loading, After
  <2>4. CASE TemplateLine
    BY <2>4 DEF TemplateLine, Kept, Loading, After
  <2>5. CASE ChunkStored
    BY <2>5 DEF ChunkStored, Kept, Loading, After
  <2>6. CASE StoreTail
    BY <2>6 DEF StoreTail, Kept, Loading, After
  <2> QED BY <2>1, <2>2, <2>3, <2>4, <2>5, <2>6
<1>2. pad # None /\ DOMAIN pad = PadFields /\ pad' # None
  BY <1>1 DEF FollowInv, Shape, Own
<1>3. pad'.brief = pad.brief /\ pad'.ingest = pad.ingest
  <2>1. \/ pad' = pad
        \/ \E row : \E f \in PadFields \ {"brief", "ingest"} : pad' = [pad EXCEPT ![f] = row]
    BY DEF TakeChunk, ChunkRedacted, TemplateLine, ChunkStored, StoreTail, StoreTemplates,
           SaveTree, Score, FlushVault, Measure, PadFields
  <2> QED BY <1>2, <2>1, RowFacts DEF PadFields
<1>4. Through' = Through
  <2>1. CASE TakeChunk
    <3>1. /\ pc = "read" /\ pc' = "redact" /\ redacted' = <<>> /\ UNCHANGED <<pad, batch>>
      BY <2>1 DEF TakeChunk
    <3>2. Loaded' = taken /\ taken \in Nat
      BY <3>1 DEF FollowInv, Ahead, Shape, Loaded
    <3> QED BY <3>1, <3>2 DEF Through
  <2>2. CASE ChunkRedacted
    <3>1. /\ pc = "redact" /\ pc' = "template" /\ Len(redacted) = Len(chunk) /\ taken' = taken
      BY <2>2 DEF ChunkRedacted
    <3> QED BY <3>1 DEF FollowInv, Ahead, Through
  <2>3. CASE ~TakeChunk /\ ~ChunkRedacted
    <3>1. pc # "redact" /\ pc' # "redact" /\ taken' = taken
      BY <2>3 DEF TemplateLine, ChunkStored, StoreTail, StoreTemplates, SaveTree, Score,
                  FlushVault, Measure
    <3> QED BY <3>1 DEF Through
  <2> QED BY <2>1, <2>2, <2>3
<1>5. CASE FlushVault
  <2>1. /\ config.vault => vaultFile' = vaultFile \cup pending.tokens
        /\ pending' = [tokens |-> {}, records |-> 0] /\ pc' = "measure"
    BY <1>5 DEF FlushVault
  <2>2. pending'.tokens = {} /\ "tokens" \in DOMAIN pending'
    BY <2>1
  <2>3. config.vault => Vaulted' = Vaulted
    BY <2>1, <2>2 DEF Vaulted
  <2> QED BY <1>1, <1>2, <1>3, <1>4, <2>1, <2>2, <2>3, KeptVault
<1>6. CASE ~FlushVault
  <2>1. /\ UNCHANGED <<vaultFile, pending>> /\ pc # "flush"
        /\ pc' \in {"measure", "check"} => pc = "measure" /\ Measure
    BY <1>6 DEF TakeChunk, ChunkRedacted, TemplateLine, ChunkStored, StoreTail, StoreTemplates,
                SaveTree, Score, Measure
  <2>2. Measure => pad'.metrics.vault = config.vault
    <3> HAVE Measure
    <3>1. pad' = [pad EXCEPT !["metrics"] = Measurement]
      BY DEF Measure, Measurement
    <3>2. pad'["metrics"] = Measurement
      BY <1>2, <3>1, RowFacts DEF PadFields
    <3> QED BY <3>2 DEF Measurement
  <2>3. Vaulted' = Vaulted
    BY <2>1 DEF Vaulted
  <2>4. pc' \in {"measure", "check"} /\ config.vault => pending'.tokens = {}
    BY <2>1 DEF VaultInv
  <2> QED BY <1>1, <1>2, <1>3, <1>4, <2>1, <2>2, <2>3, <2>4, KeptVault DEF VaultInv
<1> QED BY <1>5, <1>6

LEMMA VaultStep ==
  FollowInv /\ FollowInv' /\ CountsInv /\ VaultInv /\ [Next]_vars => VaultInv'
<1> SUFFICES ASSUME FollowInv, FollowInv', CountsInv, VaultInv, [Next]_vars PROVE VaultInv'
  OBVIOUS
<1> USE DEF disk, redaction, templating
<1>1. CASE Begin
  <2>1. /\ pc = "idle" /\ pc' \in {"calibrate", "open"} /\ pad' = pad /\ ingests' = ingests + 1
        /\ pooled' => ~config'.vault
        /\ config'.vault => vaultFile' = {}
        /\ pending' = [tokens |-> {}, records |-> 0]
    BY <1>1 DEF Begin, VaultAtStart
  <2>2. ingests \in Nat
    BY DEF FollowInv, Shape
  <2>3. pad # None => pad.ingest \in Nat /\ pad.ingest < ingests' /\ pad.ingest # ingests'
    BY <2>1, <2>2 DEF VaultInv
  <2>4. VaultMatchesText'
    BY <2>1, <2>3 DEF VaultMatchesText, Measured
  <2>5. config'.vault => Vaulted' = {}
    BY <2>1 DEF Vaulted
  <2>6. "tokens" \in DOMAIN pending'
    BY <2>1
  <2> QED BY <2>1, <2>2, <2>3, <2>4, <2>5, <2>6 DEF VaultInv, Kept, Loading, After
<1>2. CASE Open
  <2>1. /\ pc = "open" /\ pc' = "create" /\ pad' = None
        /\ UNCHANGED <<vaultFile, pending, source, config, ingests, pooled>>
    BY <1>2 DEF Open
  <2>2. VaultMatchesText'
    BY <2>1 DEF VaultMatchesText, Measured
  <2>3. Vaulted' = Vaulted /\ Brief = {} /\ TextTo(Len(source))' = TextTo(Len(source))
    BY <2>1 DEF Vaulted, Brief, TextTo, Tokens, Hits, Token, Kept, Loading, After
  <2> QED BY <2>1, <2>2, <2>3, OutsideVault DEF VaultInv, Kept, Loading, After
<1>3. CASE Check
  <2>1. /\ pc = "check" /\ pc' = "idle" /\ \E row : pad' = [pad EXCEPT !["health"] = row]
        /\ UNCHANGED <<vaultFile, pending, ingests>>
    BY <1>3 DEF Check
  <2>2. /\ pad' # None /\ pad # None
        /\ \A f \in {"metrics", "brief", "events", "ingest"} : pad'[f] = pad[f]
    BY <2>1, AfterRows, RowFacts DEF After, PadFields
  <2>3. VaultMatchesText'
    BY <2>1, <2>2, VaultHolds DEF VaultMatchesText, Measured
  <2> QED BY <2>1, <2>2, <2>3, OutsideVault DEF VaultInv, Kept, Loading, After
<1>4. CASE Dies
  <2>1. /\ pc' = "idle" /\ UNCHANGED <<pad, vaultFile, ingests>>
        /\ pending' = [tokens |-> {}, records |-> 0]
    BY <1>4 DEF Dies
  <2>2. VaultMatchesText'
    BY <2>1, VaultHolds DEF VaultMatchesText, Measured
  <2>3. "tokens" \in DOMAIN pending'
    BY <2>1
  <2> QED BY <2>1, <2>2, <2>3, OutsideVault DEF VaultInv, Kept, Loading, After
<1>5. CASE Settled \/ UNCHANGED vars
  <2>1. UNCHANGED vars
    BY <1>5 DEF Settled
  <2>2. /\ TextTo(Through)' = TextTo(Through) /\ TextTo(Len(source))' = TextTo(Len(source))
        /\ Vaulted' = Vaulted /\ Brief' = Brief
    BY <2>1 DEF vars, Through, Loaded, Vaulted, Brief, TextTo, Tokens, Hits, Token
  <2>3. VaultMatchesText' <=> VaultMatchesText
    BY <2>1 DEF vars, VaultMatchesText, Measured
  <2> QED BY <2>1, <2>2, <2>3 DEF vars, VaultInv
<1> QED
  BY <1>1, <1>2, <1>3, <1>4, <1>5, CalibrateVault, CreateVault, RedactVault, OtherVault
  DEF Next, Step

\* For any sources and settings, and wherever the vault's commits fall, the vault of the ingest
\* that filled a scratchpad reveals every placeholder of its text and brief and nothing else.
THEOREM VaultRevealsText == Spec => []VaultMatchesText
<1>1. Init => VaultInv
  BY DEF Init, VaultInv, Kept, Loading, After, VaultMatchesText, Measured
<1>2. FollowInv /\ FollowInv' /\ CountsInv /\ VaultInv /\ [Next]_vars => VaultInv'
  BY VaultStep
<1>3. FollowInv /\ CountsInv /\ VaultInv => VaultMatchesText
  BY VaultHolds
<1> QED BY <1>1, <1>2, <1>3, SpecFollows, SpecCounts, PTL DEF Spec

-----------------------------------------------------------------------------
(* The templates.                                                           *)

\* The i-th of some events and of a batch after them.
At(events, more, i) == IF i <= Len(events) THEN events[i] ELSE more[i - Len(events)]

\* The template of the i-th line loaded, and the lines of a template.
TemplateAt(i) == At(pad.events, batch, i).template
LinesOf(t) == {i \in 1 .. Loaded : TemplateAt(i) = t}

\* Every line loaded is under a template of the registry, which counts it there once; the
\* registry is what is stored of the templates.
TemplatesInv ==
  /\ pc \in {"calibrate", "open", "create"} => registry = <<>>
  /\ pc \in Kept => /\ \A i \in 1 .. Loaded : TemplateAt(i) \in DOMAIN registry
                    /\ \A t \in DOMAIN registry : registry[t] = Cardinality(LinesOf(t))
  /\ pc \in After => batch = <<>>
  /\ pc \in After \ {"templates"} => pad.templates = registry
  /\ pc = "check" => pad.metrics.orphans = 0
  /\ pc \notin Kept => TemplatesAddUp

\* A stored batch is where it was among the events.
LEMMA StoredAt ==
  ASSUME NEW events, IsSeq(events), NEW more, IsSeq(more)
  PROVE  /\ Len(events) \in Nat /\ Len(more) \in Nat
         /\ Len(events \o more) = Len(events) + Len(more)
         /\ \A i \in 1 .. Len(events) + Len(more) : At(events \o more, <<>>, i) = At(events, more, i)
<1> DEFINE m == Len(events)
           n == Len(more)
           all == events \o more
<1>1. /\ m \in Nat /\ n \in Nat /\ Len(all) = m + n
      /\ \A i \in 1 .. m : all[i] = events[i]
      /\ \A i \in 1 .. n : all[m + i] = more[i]
  BY ConcatFacts
<1> HIDE DEF all, m, n
<1>2. ASSUME NEW i \in 1 .. m + n PROVE all[i] = IF i <= m THEN events[i] ELSE more[i - m]
  <2>1. CASE i <= m
    BY <2>1, <1>1
  <2>2. CASE ~(i <= m)
    <3>1. i - m \in 1 .. n /\ m + (i - m) = i
      BY <2>2, <1>1
    <3> QED BY <2>2, <3>1, <1>1
  <2> QED BY <2>1, <2>2
<1>3. \A i \in 1 .. m + n : i <= Len(all)
  BY <1>1
<1> QED BY <1>1, <1>2, <1>3 DEF At, all, m, n

\* An event that joins the batch is the last of all.
LEMMA GrownAt ==
  ASSUME NEW events, IsSeq(events), NEW more, IsSeq(more), NEW e
  PROVE  /\ Len(events) \in Nat /\ Len(more) \in Nat /\ IsSeq(Append(more, e))
         /\ Len(Append(more, e)) = Len(more) + 1
         /\ \A i \in 1 .. Len(events) + Len(more) : At(events, Append(more, e), i) = At(events, more, i)
         /\ At(events, Append(more, e), Len(events) + Len(more) + 1) = e
<1> DEFINE m == Len(events)
           n == Len(more)
           g == Append(more, e)
<1>1. /\ m \in Nat /\ n \in Nat /\ Len(g) = n + 1 /\ IsSeq(g)
      /\ \A i \in 1 .. n : g[i] = more[i]
      /\ g[n + 1] = e
  <2>1. /\ IsSeq(g) /\ n \in Nat /\ DOMAIN more = 1 .. n /\ Len(g) = n + 1
        /\ \A i \in DOMAIN more : g[i] = more[i]
        /\ g[n + 1] = e
    BY AppendFacts
  <2>2. m \in Nat
    BY ConcatFacts
  <2> QED BY <2>1, <2>2
<1> HIDE DEF g, m, n
<1>2. ASSUME NEW i \in 1 .. m + n, ~(i <= m) PROVE g[i - m] = more[i - m]
  <2>1. i - m \in 1 .. n
    BY <1>1, <1>2
  <2> QED BY <2>1, <1>1
<1>3. ~(m + n + 1 <= m) /\ (m + n + 1) - m = n + 1
  BY <1>1
<1> QED BY <1>1, <1>2, <1>3 DEF At, g, m, n

\* What templating a line does to the lines loaded.
LEMMA TemplatedAt ==
  ASSUME FollowInv, TemplateLine
  PROVE  LET id == Clustered(Head(redacted).shape).id
         IN  /\ registry' = Counted(id) /\ Loaded \in Nat /\ Loaded' = Loaded + 1
             /\ \A i \in 1 .. Loaded + 1 :
                  TemplateAt(i)' = IF i = Loaded + 1 THEN id ELSE TemplateAt(i)
<1> DEFINE line == Head(redacted)
           id == Clustered(line.shape).id
           e == Event(line, id)
           grown == Append(batch, e)
           all == pad.events \o grown
<1>1. /\ pc = "template" /\ registry' = Counted(id)
      /\ batch' = IF Len(grown) >= BatchSize THEN <<>> ELSE grown
      /\ pad' = IF Len(grown) >= BatchSize THEN [pad EXCEPT !["events"] = all] ELSE pad
  BY DEF TemplateLine
<1>2. /\ DOMAIN pad = PadFields /\ IsSeq(pad.events) /\ IsSeq(batch)
  BY <1>1 DEF FollowInv, Shape, Own, Follows, Kept, Loading
<1>3. e.template = id
  BY DEF Event
<1> HIDE DEF e
<1> DEFINE m == Len(pad.events)
           n == Len(batch)
           g == Len(grown)
<1>4. /\ m \in Nat /\ n \in Nat /\ IsSeq(grown) /\ g = n + 1 /\ Loaded = m + n
      /\ \A i \in 1 .. m + n : At(pad.events, grown, i) = At(pad.events, batch, i)
      /\ At(pad.events, grown, m + n + 1) = e
  <2>1. /\ m \in Nat /\ n \in Nat /\ IsSeq(grown) /\ g = n + 1
        /\ \A i \in 1 .. m + n : At(pad.events, grown, i) = At(pad.events, batch, i)
        /\ At(pad.events, grown, m + n + 1) = e
    <3> DEFINE ev == pad.events
    <3>1. IsSeq(ev) /\ IsSeq(batch)
      BY <1>2
    <3> HIDE DEF ev
    <3>2. /\ Len(ev) \in Nat /\ n \in Nat /\ IsSeq(grown) /\ g = n + 1
          /\ \A i \in 1 .. Len(ev) + n : At(ev, grown, i) = At(ev, batch, i)
          /\ At(ev, grown, Len(ev) + n + 1) = e
      BY ONLY <3>1, GrownAt
    <3> QED BY <3>2 DEF ev
  <2> QED BY <2>1 DEF Loaded
<1> HIDE DEF grown
<1>5. /\ Len(all) = m + g
      /\ \A i \in 1 .. m + g : At(all, <<>>, i) = At(pad.events, grown, i)
  BY ONLY <1>2, <1>4, StoredAt
<1> HIDE DEF all
<1>6. Loaded \in Nat /\ m + g = Loaded + 1
  <2> HIDE DEF m, n, g
  <2> QED BY <1>4
<1>7. /\ Loaded' = Loaded + 1
      /\ \A i \in 1 .. Loaded + 1 : TemplateAt(i)' = At(pad.events, grown, i).template
  <2>1. CASE Len(grown) >= BatchSize
    <3>1. batch' = <<>> /\ pad'["events"] = all
      BY <2>1, <1>1, <1>2, RowFacts DEF PadFields
    <3>2. Len(<<>>) = 0
      OBVIOUS
    <3>3. Loaded' = Len(all) + 0
      BY <3>1, <3>2 DEF Loaded
    <3>4. \A i : TemplateAt(i)' = At(all, <<>>, i).template
      BY <3>1 DEF TemplateAt, At
    <3> QED BY <3>3, <3>4, <1>5, <1>6
  <2>2. CASE ~(Len(grown) >= BatchSize)
    <3>1. batch' = grown /\ pad' = pad
      BY <2>2, <1>1
    <3>2. Loaded' = m + g
      BY <3>1 DEF Loaded
    <3>3. \A i : TemplateAt(i)' = At(pad.events, grown, i).template
      BY <3>1 DEF TemplateAt, At
    <3> QED BY <3>2, <3>3, <1>6
  <2> QED BY <2>1, <2>2
<1>8. ASSUME NEW i \in 1 .. Loaded + 1
      PROVE  At(pad.events, grown, i).template
               = IF i = Loaded + 1 THEN id ELSE TemplateAt(i)
  <2>1. CASE i = Loaded + 1
    BY <2>1, <1>3, <1>4
  <2>2. CASE i # Loaded + 1
    <3>1. i \in 1 .. m + n
      BY <2>2, <1>4, <1>6
    <3> QED BY <2>2, <3>1, <1>4 DEF TemplateAt
  <2> QED BY <2>1, <2>2
<1> QED BY <1>1, <1>6, <1>7, <1>8

LEMMA TemplateLineCounts ==
  ASSUME FollowInv, FollowInv', TemplatesInv, TemplateLine PROVE TemplatesInv'
<1> DEFINE id == Clustered(Head(redacted).shape).id
<1>1. /\ pc = "template" /\ pc' = "template"
      /\ registry' = Counted(id) /\ Loaded \in Nat /\ Loaded' = Loaded + 1
      /\ \A i \in 1 .. Loaded + 1 :
           TemplateAt(i)' = IF i = Loaded + 1 THEN id ELSE TemplateAt(i)
  BY TemplatedAt DEF TemplateLine
<1> HIDE DEF id
<1>2. /\ \A i \in 1 .. Loaded : TemplateAt(i) \in DOMAIN registry
      /\ \A t \in DOMAIN registry : registry[t] = Cardinality(LinesOf(t))
  BY <1>1 DEF TemplatesInv, Kept, Loading
<1>3. /\ DOMAIN registry' = DOMAIN registry \cup {id}
      /\ \A t \in DOMAIN registry' :
           registry'[t] = (IF t \in DOMAIN registry THEN registry[t] ELSE 0)
                            + (IF t = id THEN 1 ELSE 0)
  BY <1>1 DEF Counted
<1>4. \A i \in 1 .. Loaded + 1 : i # Loaded + 1 => i \in 1 .. Loaded
  BY <1>1
<1>5. 1 .. Loaded \subseteq 1 .. Loaded + 1 /\ Loaded + 1 \in 1 .. Loaded + 1
      /\ Loaded + 1 \notin 1 .. Loaded
  BY <1>1
<1>6. \A i \in 1 .. Loaded + 1 : TemplateAt(i)' \in DOMAIN registry'
  BY <1>1, <1>2, <1>3, <1>4
<1>7. ASSUME NEW t \in DOMAIN registry' PROVE registry'[t] = Cardinality(LinesOf(t)')
  <2>1. IsFiniteSet(LinesOf(t)) /\ Cardinality(LinesOf(t)) \in Nat
    <3>1. IsFiniteSet(1 .. Loaded)
      BY <1>1, FS_Interval
    <3> QED BY <3>1, FS_Subset, FS_CardinalityType DEF LinesOf
  <2>2. LinesOf(t)' = {i \in 1 .. Loaded + 1 : TemplateAt(i)' = t}
    BY <1>1 DEF LinesOf
  <2>3. (IF t \in DOMAIN registry THEN registry[t] ELSE 0) = Cardinality(LinesOf(t))
    <3>1. CASE t \in DOMAIN registry
      BY <3>1, <1>2
    <3>2. CASE t \notin DOMAIN registry
      <4>1. LinesOf(t) = {}
        BY <3>2, <1>2 DEF LinesOf
      <4> QED BY <3>2, <4>1, FS_EmptySet
    <3> QED BY <3>1, <3>2
  <2>4. CASE t = id
    <3>1. LinesOf(t)' = LinesOf(t) \cup {Loaded + 1} /\ Loaded + 1 \notin LinesOf(t)
      BY <2>2, <2>4, <1>1, <1>4, <1>5 DEF LinesOf
    <3>2. Cardinality(LinesOf(t)') = Cardinality(LinesOf(t)) + 1
      BY <3>1, <2>1, FS_AddElement
    <3>3. registry'[t] = (IF t \in DOMAIN registry THEN registry[t] ELSE 0) + 1
      BY <2>4, <1>3
    <3> QED BY <3>2, <3>3, <2>3
  <2>5. CASE t # id
    <3>1. LinesOf(t)' = LinesOf(t)
      BY <2>2, <2>5, <1>1, <1>4, <1>5 DEF LinesOf
    <3>2. registry'[t] = (IF t \in DOMAIN registry THEN registry[t] ELSE 0) + 0
      BY <2>5, <1>3
    <3> QED BY <3>1, <3>2, <2>1, <2>3
  <2> QED BY <2>4, <2>5
<1>8. \A i \in 1 .. Loaded' : TemplateAt(i)' \in DOMAIN registry'
  BY <1>1, <1>6
<1> QED BY <1>1, <1>7, <1>8 DEF TemplatesInv, Kept, Loading, After

\* A step that templates nothing.
LEMMA KeptTemplates ==
  ASSUME TemplatesInv, pc \in Kept, pc' \in Kept, registry' = registry, Loaded' = Loaded,
         \A i \in 1 .. Loaded : TemplateAt(i)' = TemplateAt(i),
         pc' \in After => batch' = <<>>,
         pc' \in After \ {"templates"} => pad'.templates = registry,
         pc' = "check" => pad'.metrics.orphans = 0
  PROVE  TemplatesInv'
<1>1. \A t : LinesOf(t)' = LinesOf(t)
  BY DEF LinesOf
<1> QED BY <1>1 DEF TemplatesInv, Kept, Loading, After

\* The events of a scratchpad whose load is over.
LEMMA StoredTemplates ==
  ASSUME FollowInv, TemplatesInv, pc \in After
  PROVE  /\ Len(pad.events) \in Nat /\ Loaded = Len(pad.events)
         /\ \A i \in 1 .. Len(pad.events) : TemplateAt(i) = pad.events[i].template
         /\ \A i \in 1 .. Len(pad.events) : pad.events[i].template \in DOMAIN registry
         /\ \A t \in DOMAIN registry :
              registry[t] = Cardinality({i \in 1 .. Len(pad.events) : pad.events[i].template = t})
<1>1. batch = <<>> /\ pc \in Kept /\ IsSeq(pad.events)
  BY DEF TemplatesInv, FollowInv, Own, Follows, Kept
<1>2. Len(pad.events) \in Nat /\ Len(batch) = 0
  BY <1>1, ConcatFacts
<1>3. Loaded = Len(pad.events)
  BY <1>2 DEF Loaded
<1>4. \A i \in 1 .. Len(pad.events) : TemplateAt(i) = pad.events[i].template
  BY <1>2 DEF TemplateAt, At
<1>5. \A t : LinesOf(t) = {i \in 1 .. Len(pad.events) : pad.events[i].template = t}
  BY <1>3, <1>4 DEF LinesOf
<1> QED BY <1>1, <1>2, <1>3, <1>4, <1>5 DEF TemplatesInv

LEMMA TemplatesHold == ASSUME FollowInv, TemplatesInv PROVE TemplatesAddUp
<1>1. CASE pc \notin Kept
  BY <1>1 DEF TemplatesInv
<1>2. CASE pc \in Kept
  <2> SUFFICES ASSUME Measured PROVE TemplatesAddUp
    BY DEF TemplatesAddUp
  <2>1. pc = "check"
    BY <1>2 DEF FollowInv, Marks, Measured
  <2>2. pad.metrics.orphans = 0 /\ pad.templates = registry /\ pc \in After
    BY <2>1 DEF TemplatesInv, After
  <2> QED BY <2>2, StoredTemplates DEF TemplatesAddUp
<1> QED BY <1>1, <1>2

\* The other steps between the incident's row and the measurement.
LEMMA OtherTemplates ==
  ASSUME FollowInv, FollowInv', TemplatesInv,
         \/ TakeChunk \/ MergeSlice \/ PoolBreaks \/ RedactHere \/ ChunkRedacted \/ ChunkStored
         \/ SaveTree \/ FlushVault
  PROVE  TemplatesInv'
<1>1. /\ pc \in Kept /\ pc' \in Kept /\ UNCHANGED <<pad, batch, registry>>
      /\ pc' \in After => pc \in After \ {"templates"}
      /\ pc' # "check"
  <2> USE DEF disk, redaction, templating, Kept, Loading, After
  <2>1. CASE TakeChunk
    BY <2>1 DEF TakeChunk
  <2>2. CASE MergeSlice \/ PoolBreaks
    BY <2>2 DEF MergeSlice, PoolBreaks
  <2>3. CASE RedactHere
    BY <2>3 DEF RedactHere
  <2>4. CASE ChunkRedacted \/ ChunkStored
    BY <2>4 DEF ChunkRedacted, ChunkStored
  <2>5. CASE SaveTree \/ FlushVault
    BY <2>5 DEF SaveTree, FlushVault
  <2> QED BY <2>1, <2>2, <2>3, <2>4, <2>5
<1>2. Loaded' = Loaded /\ \A i : TemplateAt(i)' = TemplateAt(i)
  BY <1>1 DEF Loaded, TemplateAt, At
<1> QED BY <1>1, <1>2, KeptTemplates DEF TemplatesInv

LEMMA TailTemplates == ASSUME FollowInv, FollowInv', TemplatesInv, StoreTail PROVE TemplatesInv'
<1> DEFINE all == pad.events \o batch
<1>1. /\ pc = "read" /\ pc' = "templates" /\ batch' = <<>> /\ registry' = registry
      /\ pad' = [pad EXCEPT !["events"] = all]
  BY DEF StoreTail, templating
<1>2. DOMAIN pad = PadFields /\ IsSeq(pad.events) /\ IsSeq(batch)
  BY <1>1 DEF FollowInv, Shape, Own, Follows, Kept, Loading
<1>3. /\ Len(pad.events) \in Nat /\ Len(batch) \in Nat /\ Len(all) = Len(pad.events) + Len(batch)
      /\ \A i \in 1 .. Len(pad.events) + Len(batch) :
           At(all, <<>>, i) = At(pad.events, batch, i)
  <2> DEFINE ev == pad.events
  <2>1. IsSeq(ev) /\ IsSeq(batch)
    BY <1>2
  <2> HIDE DEF ev
  <2>2. /\ Len(ev) \in Nat /\ Len(batch) \in Nat /\ Len(ev \o batch) = Len(ev) + Len(batch)
        /\ \A i \in 1 .. Len(ev) + Len(batch) : At(ev \o batch, <<>>, i) = At(ev, batch, i)
    BY ONLY <2>1, StoredAt
  <2> QED BY <2>2 DEF ev
<1> HIDE DEF all
<1>4. pad'["events"] = all
  BY <1>1, <1>2, RowFacts DEF PadFields
<1>5. Loaded' = Len(all) + Len(<<>>)
  BY <1>1, <1>4 DEF Loaded
<1>6. Loaded' = Loaded
  <2>1. Len(<<>>) = 0
    OBVIOUS
  <2> QED BY <1>3, <1>5, <2>1 DEF Loaded
<1>7. \A i : TemplateAt(i)' = At(all, <<>>, i).template
  BY <1>1, <1>4 DEF TemplateAt, At
<1>8. \A i \in 1 .. Loaded : TemplateAt(i)' = TemplateAt(i)
  BY <1>3, <1>7 DEF TemplateAt, Loaded
<1> QED BY <1>1, <1>6, <1>8, KeptTemplates DEF Kept, Loading, After

LEMMA AfterTemplates ==
  ASSUME FollowInv, FollowInv', TemplatesInv, StoreTemplates \/ Score \/ Measure
  PROVE  TemplatesInv'
<1>1. /\ pc \in After \ {"check"} /\ pc' \in After \ {"templates"}
      /\ UNCHANGED <<batch, registry>>
      /\ pc' = "check" => Measure
      /\ pc = "templates" => StoreTemplates
  BY DEF StoreTemplates, Score, Measure, templating, After
<1>2. DOMAIN pad = PadFields
  BY <1>1, AfterRows
<1>3. pad'["events"] = pad["events"]
  <2>1. \E row : \E f \in PadFields \ {"events"} : pad' = [pad EXCEPT ![f] = row]
    BY DEF StoreTemplates, Score, Measure, PadFields
  <2> QED BY <1>2, <2>1, RowFacts DEF PadFields
<1>4. pad'.templates = registry
  <2>1. CASE StoreTemplates
    <3>1. pad' = [pad EXCEPT !["templates"] = registry]
      BY <2>1 DEF StoreTemplates, Summaries
    <3>2. pad'["templates"] = registry
      BY <1>2, <3>1, RowFacts DEF PadFields
    <3> QED BY <3>2
  <2>2. CASE ~StoreTemplates
    <3>1. \E row : \E f \in {"scored", "metrics"} : pad' = [pad EXCEPT ![f] = row]
      BY <2>2 DEF Score, Measure
    <3>2. pad'["templates"] = pad["templates"]
      BY <1>2, <3>1, RowFacts DEF PadFields
    <3> QED BY <2>2, <1>1, <3>2 DEF TemplatesInv
  <2> QED BY <2>1, <2>2
<1>5. Measure => pad'.metrics.orphans = 0
  <2> HAVE Measure
  <2>1. pad' = [pad EXCEPT !["metrics"] = Measurement] /\ pc = "measure"
    BY DEF Measure, Measurement
  <2>2. pad'["metrics"] = Measurement
    BY <1>2, <2>1, RowFacts DEF PadFields
  <2>3. pad.templates = registry
    BY <2>1 DEF TemplatesInv, After
  <2>4. \A i \in 1 .. Len(pad.events) : pad.events[i].template \in DOMAIN registry
    BY <1>1, StoredTemplates
  <2>5. Orphans = Cardinality({})
    <3>1. {i \in 1 .. Len(pad.events) : pad.events[i].template \notin DOMAIN pad.templates} = {}
      BY <2>3, <2>4
    <3> QED BY <3>1 DEF Orphans
  <2> QED BY <2>2, <2>5, FS_EmptySet DEF Measurement
<1>6. Loaded' = Loaded /\ \A i : TemplateAt(i)' = TemplateAt(i)
  BY <1>1, <1>3 DEF Loaded, TemplateAt, At
<1> QED BY <1>1, <1>4, <1>5, <1>6, KeptTemplates DEF TemplatesInv, Kept

\* Before the scratchpad and after it.
LEMMA OutsideTemplates ==
  ASSUME pc' \notin Kept, TemplatesAddUp', pc' # "idle" => registry' = <<>>
  PROVE  TemplatesInv'
  BY DEF TemplatesInv, Kept, Loading, After

LEMMA CreateTemplates ==
  ASSUME FollowInv, FollowInv', TemplatesInv, CreateIncident PROVE TemplatesInv'
<1>1. PICK brief :
        pad' = [ingest |-> ingests, source |-> source, events |-> <<>>, brief |-> brief,
                templates |-> <<>>, scored |-> FALSE, metrics |-> None, health |-> "unknown"]
  BY DEF CreateIncident
<1>2. pc = "create" /\ pc' = "read" /\ batch' = batch /\ registry' = registry
  BY DEF CreateIncident, templating
<1>3. pad'.events = <<>> /\ batch' = <<>> /\ registry' = <<>>
  BY <1>1, <1>2 DEF FollowInv, Ahead, TemplatesInv
<1>4. Loaded' = 0 /\ DOMAIN registry' = {}
  BY <1>3 DEF Loaded
<1> QED BY <1>2, <1>4 DEF TemplatesInv, Kept, Loading, After

LEMMA TemplatesStep == FollowInv /\ FollowInv' /\ TemplatesInv /\ [Next]_vars => TemplatesInv'
<1> SUFFICES ASSUME FollowInv, FollowInv', TemplatesInv, [Next]_vars PROVE TemplatesInv'
  OBVIOUS
<1> USE DEF disk, redaction, templating
<1>1. CASE Begin
  <2>1. registry' = <<>> /\ pc' \in {"calibrate", "open"} /\ pad' = pad
    BY <1>1 DEF Begin
  <2>2. TemplatesAddUp'
    BY <2>1, TemplatesHold DEF TemplatesAddUp, Measured
  <2> QED BY <2>1, <2>2, OutsideTemplates DEF Kept, Loading, After
<1>2. CASE Calibrate \/ Open
  <2>1. /\ pc \in {"calibrate", "open"} /\ pc' \in {"open", "create"} /\ registry' = registry
        /\ (pad' = pad \/ pad' = None)
    BY <1>2 DEF Calibrate, Open
  <2>2. TemplatesAddUp'
    BY <2>1, TemplatesHold DEF TemplatesAddUp, Measured
  <2>3. registry' = <<>>
    BY <2>1 DEF TemplatesInv
  <2> QED BY <2>1, <2>2, <2>3, OutsideTemplates DEF Kept, Loading, After
<1>3. CASE Check
  <2>1. pc = "check" /\ pc' = "idle" /\ \E row : pad' = [pad EXCEPT !["health"] = row]
    BY <1>3 DEF Check
  <2>2. /\ pad' # None /\ pad # None
        /\ \A f \in {"metrics", "events", "templates"} : pad'[f] = pad[f]
    BY <2>1, AfterRows, RowFacts DEF After, PadFields
  <2>3. TemplatesAddUp'
    BY <2>2, TemplatesHold DEF TemplatesAddUp, Measured
  <2> QED BY <2>1, <2>3, OutsideTemplates DEF Kept, Loading, After
<1>4. CASE Dies
  <2>1. pc' = "idle" /\ pad' = pad
    BY <1>4 DEF Dies
  <2>2. TemplatesAddUp'
    BY <2>1, TemplatesHold DEF TemplatesAddUp, Measured
  <2> QED BY <2>1, <2>2, OutsideTemplates DEF Kept, Loading, After
<1>5. CASE Settled \/ UNCHANGED vars
  <2>1. UNCHANGED vars
    BY <1>5 DEF Settled
  <2>2. Loaded' = Loaded /\ (\A i : TemplateAt(i)' = TemplateAt(i))
        /\ (\A t : LinesOf(t)' = LinesOf(t))
    BY <2>1 DEF vars, Loaded, TemplateAt, At, LinesOf
  <2>3. TemplatesAddUp' <=> TemplatesAddUp
    BY <2>1 DEF vars, TemplatesAddUp, Measured
  <2> QED BY <2>1, <2>2, <2>3 DEF vars, TemplatesInv
<1> QED
  BY <1>1, <1>2, <1>3, <1>4, <1>5, CreateTemplates, TemplateLineCounts, OtherTemplates,
     TailTemplates, AfterTemplates
  DEF Next, Step

\* For any sources and settings, and however many clusters Drain3 evicted, every stored event is
\* under a stored template and each stored count is the number of the events under it.
THEOREM TemplatesCountTheirEvents == Spec => []TemplatesAddUp
<1>1. Init => TemplatesInv
  BY DEF Init, TemplatesInv, Kept, Loading, After, TemplatesAddUp, Measured
<1>2. FollowInv /\ FollowInv' /\ TemplatesInv /\ [Next]_vars => TemplatesInv'
  BY TemplatesStep
<1>3. FollowInv /\ TemplatesInv => TemplatesAddUp
  BY TemplatesHold
<1> QED BY <1>1, <1>2, <1>3, SpecFollows, PTL DEF Spec

-----------------------------------------------------------------------------
(* Drain3's tree.                                                           *)

TreeOK(t) ==
  /\ DOMAIN t = {"live", "next", "capacity"}
  /\ IsSeq(t.live) /\ t.next \in Nat /\ t.capacity \in Nat \ {0}
  /\ \A i \in 1 .. Len(t.live) : t.live[i].id \in Nat /\ t.live[i].id < t.next
  /\ \A i, j \in 1 .. Len(t.live) : t.live[i].id = t.live[j].id => i = j

\* Of some clusters, least recently used first, those an ingest used are the last ones; and when
\* one it used is gone, so are all that it did not use.
UsedLast(live, used) ==
  /\ \A i, j \in 1 .. Len(live) : i < j /\ live[i].id \in used => live[j].id \in used
  /\ \A t \in used : \/ \E i \in 1 .. Len(live) : live[i].id = t
                     \/ \A i \in 1 .. Len(live) : live[i].id \in used

TreeInv ==
  /\ TreeOK(tree) /\ (snapshot # None => TreeOK(snapshot))
  /\ pc \in {"calibrate", "open", "create"} => registry = <<>>
  /\ pc # "idle" => /\ \A t \in DOMAIN registry : t \in Nat /\ t < tree.next
                    /\ UsedLast(tree.live, DOMAIN registry)
  /\ pc = "check" => pad.metrics.evicted = Evicted

\* A cluster that is used becomes the last one.
LEMMA TouchFacts ==
  ASSUME NEW s, IsSeq(s), NEW k \in 1 .. Len(s)
  PROVE  LET u == Append(RemoveAt(s, k), s[k])
         IN  /\ Len(s) \in Nat /\ IsSeq(u) /\ Len(u) = Len(s)
             /\ \A i \in 1 .. Len(s) :
                  u[i] = s[IF i < k THEN i ELSE IF i < Len(s) THEN i + 1 ELSE k]
<1> DEFINE n == Len(s)
           a == SubSeq(s, 0 + 1, k - 1)
           b == SubSeq(s, k + 1, n)
           r == a \o b
           e == s[k]
           u == Append(r, e)
<1>1. n \in Nat /\ k \in Nat /\ k - 1 \in Nat /\ k <= n /\ k - 1 <= n /\ 0 <= k - 1
  BY ConcatFacts
<1>2. IsSeq(a) /\ Len(a) = k - 1 /\ \A i \in 1 .. k - 1 : a[i] = s[0 + i]
  <2>1. IsSeq(a) /\ Len(a) = (k - 1) - 0 /\ \A i \in 1 .. (k - 1) - 0 : a[i] = s[0 + i]
    BY <1>1, PieceFacts
  <2> QED BY <2>1, <1>1
<1>3. IsSeq(b) /\ Len(b) = n - k /\ \A i \in 1 .. n - k : b[i] = s[k + i]
  BY <1>1, PieceFacts
<1>4. RemoveAt(s, k) = r
  BY DEF RemoveAt
<1> HIDE DEF a, b
<1>5. /\ IsSeq(r) /\ Len(r) = (k - 1) + (n - k)
      /\ \A i \in 1 .. k - 1 : r[i] = a[i]
      /\ \A i \in 1 .. n - k : r[(k - 1) + i] = b[i]
  <2>1. /\ IsSeq(r) /\ Len(r) = Len(a) + Len(b)
        /\ \A i \in 1 .. Len(a) : r[i] = a[i]
        /\ \A i \in 1 .. Len(b) : r[Len(a) + i] = b[i]
    <3>1. IsSeq(a) /\ IsSeq(b)
      BY <1>2, <1>3
    <3> QED BY ONLY <3>1, ConcatFacts
  <2> HIDE DEF r
  <2> QED BY <2>1, <1>2, <1>3
<1> HIDE DEF r
<1>6. /\ IsSeq(u) /\ Len(u) = Len(r) + 1 /\ DOMAIN r = 1 .. Len(r)
      /\ \A i \in DOMAIN r : u[i] = r[i]
      /\ u[Len(r) + 1] = e
  <2> HIDE DEF e
  <2>1. IsSeq(r)
    BY <1>5
  <2> QED BY ONLY <2>1, AppendFacts
<1> HIDE DEF u, n
<1>7. Len(r) = n - 1 /\ Len(u) = n
  BY <1>1, <1>5, <1>6
<1>8. ASSUME NEW i \in 1 .. n
      PROVE  u[i] = s[IF i < k THEN i ELSE IF i < n THEN i + 1 ELSE k]
  <2>1. CASE i < k
    <3>1. i \in 1 .. k - 1 /\ i \in 1 .. n - 1 /\ 0 + i = i
      BY <2>1, <1>1
    <3> QED BY <2>1, <3>1, <1>2, <1>5, <1>6, <1>7
  <2>2. CASE ~(i < k) /\ i < n
    <3> DEFINE j == i - (k - 1)
    <3>1. j \in 1 .. n - k /\ (k - 1) + j = i /\ i \in 1 .. n - 1 /\ k + j = i + 1
      BY <2>2, <1>1
    <3> HIDE DEF j
    <3>2. u[i] = r[i] /\ r[(k - 1) + j] = b[j] /\ b[j] = s[k + j]
      BY <3>1, <1>3, <1>5, <1>6, <1>7
    <3> QED BY <2>2, <3>1, <3>2
  <2>3. CASE ~(i < k) /\ ~(i < n)
    <3>1. i = (n - 1) + 1
      BY <2>3, <1>1
    <3> QED BY <2>3, <3>1, <1>6, <1>7
  <2> QED BY <2>1, <2>2, <2>3
<1> QED BY <1>1, <1>4, <1>6, <1>7, <1>8 DEF u, n

\* What is left of s without its first m.
Dropped(s, m, r) == IsSeq(r) /\ Len(r) = Len(s) - m /\ \A i \in 1 .. Len(s) - m : r[i] = s[m + i]

LEMMA DropFacts ==
  ASSUME NEW s, IsSeq(s), NEW over \in Int, over <= Len(s)
  PROVE  \E m \in 0 .. Len(s) :
           Dropped(s, m, IF over > 0 THEN SubSeq(s, over + 1, Len(s)) ELSE s)
<1> DEFINE n == Len(s)
           p == SubSeq(s, over + 1, n)
<1>1. n \in Nat
  BY ConcatFacts
<1>2. CASE over > 0
  <2>1. over \in 0 .. n
    BY <1>1, <1>2
  <2>2. IsSeq(p) /\ Len(p) = n - over /\ \A i \in 1 .. n - over : p[i] = s[over + i]
    BY <1>1, <2>1, PieceFacts
  <2> HIDE DEF p
  <2> QED BY <1>2, <2>1, <2>2 DEF Dropped, p
<1>3. CASE ~(over > 0)
  <2>1. 0 \in 0 .. n /\ Dropped(s, 0, s)
    BY <1>1 DEF Dropped
  <2> QED BY <1>3, <2>1
<1> QED BY <1>2, <1>3

\* Using a cluster leaves the ones used last.
LEMMA TouchedUse ==
  ASSUME NEW s, IsSeq(s), NEW k \in 1 .. Len(s), NEW used, UsedLast(s, used),
         \A i, j \in 1 .. Len(s) : s[i].id = s[j].id => i = j
  PROVE  LET u == Append(RemoveAt(s, k), s[k])
         IN  /\ Len(s) \in Nat /\ IsSeq(u) /\ Len(u) = Len(s)
             /\ \A i \in 1 .. Len(u) : \E j \in 1 .. Len(s) : u[i] = s[j]
             /\ \A i, j \in 1 .. Len(u) : u[i].id = u[j].id => i = j
             /\ UsedLast(u, used \cup {s[k].id})
<1> DEFINE n == Len(s)
           u == Append(RemoveAt(s, k), s[k])
           at(i) == IF i < k THEN i ELSE IF i < n THEN i + 1 ELSE k
           D == used \cup {s[k].id}
<1>1. n \in Nat /\ IsSeq(u) /\ Len(u) = n /\ \A i \in 1 .. n : u[i] = s[at(i)]
  BY TouchFacts
<1> HIDE DEF u
<1> HIDE DEF n
<1>2. k \in 1 .. n /\ \A i, j \in 1 .. n : s[i].id = s[j].id => i = j
  BY DEF n
<1>3. \A i \in 1 .. n : at(i) \in 1 .. n
  BY <1>1, <1>2
<1>4. \A i, j \in 1 .. n : at(i) = at(j) => i = j
  BY <1>1, <1>2
<1>5. u[n] = s[k] /\ n \in 1 .. n /\ \A i \in 1 .. n : i # n => at(i) # k
  BY <1>1, <1>2
<1>6. \A i, j \in 1 .. n : i < j /\ j # n => at(i) < at(j) /\ i # n
  BY <1>1, <1>2
<1>7. \A j \in 1 .. n : \E i \in 1 .. n : at(i) = j
  <2> TAKE j \in 1 .. n
  <2>1. CASE j < k
    BY <2>1, <1>1, <1>2
  <2>2. CASE j = k
    <3>1. at(n) = k
      BY <1>1, <1>2
    <3> QED BY <2>2, <3>1, <1>5
  <2>3. CASE ~(j < k) /\ j # k
    <3>1. j - 1 \in 1 .. n /\ at(j - 1) = j
      BY <2>3, <1>1, <1>2
    <3> QED BY <3>1
  <2> QED BY <2>1, <2>2, <2>3
<1> HIDE DEF at
<1>8. UsedLast(s, used) /\ \A i \in 1 .. n : u[i] = s[at(i)]
  BY <1>1
<1>9. ASSUME NEW i \in 1 .. n, NEW j \in 1 .. n, i < j, u[i].id \in D PROVE u[j].id \in D
  <2>1. CASE j = n
    BY <2>1, <1>5
  <2>2. CASE j # n
    <3>1. at(i) < at(j) /\ at(i) # k
      BY <2>2, <1>5, <1>6, <1>9
    <3>2. s[at(i)].id \in used
      BY <3>1, <1>2, <1>3, <1>8, <1>9
    <3>3. s[at(j)].id \in used
      BY <3>1, <3>2, <1>3 DEF UsedLast, n
    <3> QED BY <3>3, <1>8
  <2> QED BY <2>1, <2>2
<1>10. ASSUME NEW t \in D
       PROVE  (\E i \in 1 .. n : u[i].id = t) \/ (\A i \in 1 .. n : u[i].id \in D)
  <2>1. CASE t = s[k].id
    BY <2>1, <1>5
  <2>2. CASE \E j \in 1 .. n : s[j].id = t
    <3>1. PICK j \in 1 .. n : s[j].id = t
      BY <2>2
    <3>2. PICK i \in 1 .. n : at(i) = j
      BY <1>7
    <3>3. u[i] = s[j]
      BY <3>2, <1>8
    <3> QED BY <3>1, <3>3
  <2>3. CASE \A j \in 1 .. n : s[j].id \in used
    BY <2>3, <1>3, <1>8
  <2> QED BY <2>1, <2>2, <2>3 DEF UsedLast, n
<1>11. UsedLast(u, D)
  BY <1>1, <1>9, <1>10 DEF UsedLast
<1>12. ASSUME NEW i \in 1 .. n, NEW j \in 1 .. n, u[i].id = u[j].id PROVE i = j
  <2>1. at(i) \in 1 .. n /\ at(j) \in 1 .. n /\ s[at(i)].id = s[at(j)].id
    BY <1>3, <1>8, <1>12
  <2>2. at(i) = at(j)
    BY <2>1, <1>2
  <2> QED BY <2>2, <1>4
<1> HIDE DEF D
<1> QED BY <1>1, <1>3, <1>8, <1>11, <1>12 DEF u, n, D

\* So does a new cluster, whatever it pushes out.
LEMMA NewUse ==
  ASSUME NEW s, IsSeq(s), NEW m \in 0 .. Len(s), NEW r, Dropped(s, m, r),
         NEW used, UsedLast(s, used), NEW e,
         \A i, j \in 1 .. Len(s) : s[i].id = s[j].id => i = j,
         \A i \in 1 .. Len(s) : s[i].id # e.id
  PROVE  LET u == Append(r, e)
         IN  /\ IsSeq(u)
             /\ \A i \in 1 .. Len(u) : u[i] = e \/ \E j \in 1 .. Len(s) : u[i] = s[j]
             /\ \A i, j \in 1 .. Len(u) : u[i].id = u[j].id => i = j
             /\ UsedLast(u, used \cup {e.id})
<1> DEFINE n == Len(s)
           u == Append(r, e)
           D == used \cup {e.id}
           l == n - m
<1>1. /\ n \in Nat /\ IsSeq(u) /\ Len(u) = l + 1
      /\ \A i \in 1 .. l : u[i] = s[m + i]
      /\ u[l + 1] = e
  <2>1. /\ IsSeq(u) /\ Len(u) = Len(r) + 1 /\ DOMAIN r = 1 .. Len(r)
        /\ \A i \in DOMAIN r : u[i] = r[i]
        /\ u[Len(r) + 1] = e
    BY AppendFacts DEF Dropped
  <2>2. n \in Nat
    BY ConcatFacts
  <2>3. Len(r) = l /\ \A i \in 1 .. l : r[i] = s[m + i]
    BY DEF Dropped
  <2> HIDE DEF u, l
  <2> QED BY <2>1, <2>2, <2>3
<1> HIDE DEF u
<1>2. m \in Nat /\ l \in Nat /\ l = n - m
  BY <1>1
<1> HIDE DEF l
<1> HIDE DEF n
<1>3. /\ \A i \in 1 .. l : m + i \in 1 .. n
      /\ \A i \in 1 .. l + 1 : i \in 1 .. l \/ i = l + 1
      /\ \A i \in 1 .. n : i > m => i - m \in 1 .. l /\ m + (i - m) = i
  <2>1. n \in Nat
    BY <1>1
  <2> QED BY ONLY <1>2, <2>1
<1>4. /\ \A i, j \in 1 .. n : s[i].id = s[j].id => i = j
      /\ \A i \in 1 .. n : s[i].id # e.id
      /\ \A i, j \in 1 .. n : i < j /\ s[i].id \in used => s[j].id \in used
      /\ \A t \in used : \/ \E i \in 1 .. n : s[i].id = t
                         \/ \A i \in 1 .. n : s[i].id \in used
  BY DEF n, UsedLast
<1>5. ASSUME NEW i \in 1 .. l + 1, NEW j \in 1 .. l + 1, i < j, u[i].id \in D PROVE u[j].id \in D
  <2>1. CASE j = l + 1
    BY <2>1, <1>1
  <2>2. CASE j # l + 1
    <3>1. i \in 1 .. l /\ j \in 1 .. l /\ m + i < m + j
      BY <2>2, <1>2, <1>5
    <3>2. s[m + i].id \in used
      BY <3>1, <1>1, <1>3, <1>4, <1>5
    <3>3. s[m + j].id \in used
      BY <3>1, <3>2, <1>3, <1>4
    <3> QED BY <3>1, <3>3, <1>1
  <2> QED BY <2>1, <2>2
<1>6. ASSUME NEW t \in D
      PROVE  (\E i \in 1 .. l + 1 : u[i].id = t) \/ (\A i \in 1 .. l + 1 : u[i].id \in D)
  <2>1. CASE t = e.id
    <3>1. l + 1 \in 1 .. l + 1
      BY <1>2
    <3> QED BY <2>1, <3>1, <1>1
  <2>2. ASSUME NEW i \in 1 .. n, s[i].id = t, i > m PROVE \E j \in 1 .. l + 1 : u[j].id = t
    <3>1. i - m \in 1 .. l /\ i - m \in 1 .. l + 1 /\ m + (i - m) = i
      BY <2>2, <1>2, <1>3
    <3> QED BY <3>1, <2>2, <1>1
  <2>3. ASSUME NEW i \in 1 .. n, s[i].id = t, ~(i > m), t \in used
        PROVE  \A j \in 1 .. l + 1 : u[j].id \in D
    <3>1. \A j \in 1 .. l : i < m + j
      BY <2>3, <1>2
    <3>2. \A j \in 1 .. l : s[m + j].id \in used
      BY <3>1, <2>3, <1>3, <1>4
    <3> QED BY <3>2, <1>1, <1>3
  <2>4. CASE \A i \in 1 .. n : s[i].id \in used
    BY <2>4, <1>1, <1>3
  <2> QED BY <2>1, <2>2, <2>3, <2>4, <1>4
<1>7. UsedLast(u, D)
  BY <1>1, <1>5, <1>6 DEF UsedLast
<1>8. ASSUME NEW i \in 1 .. l + 1, NEW j \in 1 .. l + 1, u[i].id = u[j].id PROVE i = j
  <2>1. CASE i \in 1 .. l /\ j \in 1 .. l
    <3>1. m + i = m + j
      BY <2>1, <1>1, <1>3, <1>4, <1>8
    <3> QED BY <2>1, <3>1, <1>2
  <2>2. CASE ~(i \in 1 .. l /\ j \in 1 .. l)
    BY <2>2, <1>1, <1>3, <1>4, <1>8
  <2> QED BY <2>1, <2>2
<1>9. \A i \in 1 .. Len(u) : u[i] = e \/ \E j \in 1 .. n : u[i] = s[j]
  BY <1>1, <1>3
<1> HIDE DEF D
<1> QED BY <1>1, <1>7, <1>8, <1>9 DEF u, n, D

LEMMA ClusteredFacts ==
  ASSUME TreeOK(tree), NEW shape, NEW used, UsedLast(tree.live, used),
         \A t \in used : t \in Nat /\ t < tree.next
  PROVE  LET c == Clustered(shape)
         IN  /\ TreeOK(c.tree) /\ UsedLast(c.tree.live, used \cup {c.id})
             /\ \A t \in used \cup {c.id} : t \in Nat /\ t < c.tree.next
<1> DEFINE s == tree.live
           n == tree.next
           hits == {i \in 1 .. Len(s) : s[i].shape = shape}
           k == CHOOSE i \in hits : TRUE
           touched == Append(RemoveAt(s, k), s[k])
           over == Len(s) + 1 - tree.capacity
           e == [id |-> n, shape |-> shape]
           kept == IF over > 0 THEN SubSeq(s, over + 1, Len(s)) ELSE s
           grown == Append(kept, e)
           c == Clustered(shape)
           OK(live, next) ==
             /\ IsSeq(live) /\ next \in Nat
             /\ \A i \in 1 .. Len(live) : live[i].id \in Nat /\ live[i].id < next
             /\ \A i, j \in 1 .. Len(live) : live[i].id = live[j].id => i = j
<1>1. /\ OK(s, n) /\ Len(s) \in Nat /\ over \in Int /\ over <= Len(s)
      /\ DOMAIN tree = {"live", "next", "capacity"} /\ tree.capacity \in Nat \ {0}
  <2>1. OK(s, n) /\ tree.capacity \in Nat \ {0}
        /\ DOMAIN tree = {"live", "next", "capacity"}
    BY DEF TreeOK
  <2>2. Len(s) \in Nat
    BY <2>1, ConcatFacts
  <2> QED BY <2>1, <2>2
<1>2. CASE hits # {}
  <2>1. k \in hits
    BY <1>2
  <2>2. c.id = s[k].id /\ c.tree = [tree EXCEPT !["live"] = touched]
    BY <1>2 DEF Clustered
  <2>3. c.tree.live = touched /\ c.tree.next = n /\ c.tree.capacity = tree.capacity
        /\ DOMAIN c.tree = DOMAIN tree
    BY <2>2, <1>1
  <2> HIDE DEF c, hits, k
  <2>4. k \in 1 .. Len(s)
    BY <2>1 DEF hits
  <2>5. /\ IsSeq(touched)
        /\ \A i \in 1 .. Len(touched) : \E j \in 1 .. Len(s) : touched[i] = s[j]
        /\ \A i, j \in 1 .. Len(touched) : touched[i].id = touched[j].id => i = j
        /\ UsedLast(touched, used \cup {s[k].id})
    <3> HIDE DEF touched, s
    <3> QED BY <1>1, <2>4, TouchedUse DEF touched, s
  <2> HIDE DEF touched
  <2>6. OK(touched, n)
    <3>1. \A i \in 1 .. Len(touched) : touched[i].id \in Nat /\ touched[i].id < n
      BY <2>5, <1>1
    <3> QED BY <3>1, <2>5, <1>1
  <2>7. TreeOK(c.tree)
    BY <2>3, <2>6, <1>1 DEF TreeOK
  <2>8. \A t \in used \cup {s[k].id} : t \in Nat /\ t < n
    BY <2>4, <1>1
  <2> QED BY <2>2, <2>3, <2>5, <2>7, <2>8 DEF c
<1>3. CASE hits = {}
  <2>1. c.id = n /\ c.tree = [[tree EXCEPT !["live"] = grown] EXCEPT !["next"] = n + 1]
    BY <1>3 DEF Clustered
  <2>2. c.tree.live = grown /\ c.tree.next = n + 1 /\ c.tree.capacity = tree.capacity
        /\ DOMAIN c.tree = DOMAIN tree
    BY <2>1, <1>1
  <2> HIDE DEF c
  <2>3. \A i \in 1 .. Len(s) : s[i].id # e.id
    BY <1>1
  <2>4. e.id = n
    OBVIOUS
  <2>5. /\ IsSeq(grown)
        /\ \A i \in 1 .. Len(grown) : grown[i] = e \/ \E j \in 1 .. Len(s) : grown[i] = s[j]
        /\ \A i, j \in 1 .. Len(grown) : grown[i].id = grown[j].id => i = j
        /\ UsedLast(grown, used \cup {e.id})
    <3> HIDE DEF over, e
    <3>1. /\ UsedLast(s, used) /\ IsSeq(s) /\ over \in Int /\ over <= Len(s)
          /\ \A i, j \in 1 .. Len(s) : s[i].id = s[j].id => i = j
          /\ \A i \in 1 .. Len(s) : s[i].id # e.id
      BY <1>1, <2>3
    <3>2. PICK m \in 0 .. Len(s) : Dropped(s, m, kept)
      BY <3>1, DropFacts
    <3> HIDE DEF s, kept
    <3> QED BY ONLY <3>1, <3>2, NewUse
  <2> HIDE DEF grown, over, kept
  <2>6. OK(grown, n + 1)
    <3>1. \A i \in 1 .. Len(s) : s[i].id \in Nat /\ s[i].id < n + 1
      BY <1>1
    <3>2. n \in Nat /\ n + 1 \in Nat /\ n < n + 1
      BY <1>1
    <3> HIDE DEF e, s, n
    <3>3. \A i \in 1 .. Len(grown) : grown[i].id \in Nat /\ grown[i].id < n + 1
      BY <2>4, <2>5, <3>1, <3>2
    <3> QED BY <3>2, <3>3, <2>5
  <2>7. TreeOK(c.tree)
    BY <2>2, <2>6, <1>1 DEF TreeOK
  <2>8. \A t \in used \cup {n} : t \in Nat /\ t < n + 1
    BY <1>1
  <2> QED BY <2>1, <2>2, <2>4, <2>5, <2>7, <2>8 DEF c
<1> QED BY <1>2, <1>3

\* The number the code subtracts its way to is the number of the templates that are gone.
LEMMA EvictedIsGone ==
  ASSUME TreeInv, pc # "idle"
  PROVE  Evicted = Cardinality({t \in DOMAIN registry :
                                  \A i \in 1 .. Len(tree.live) : tree.live[i].id # t})
<1> DEFINE s == tree.live
           n == Len(s)
           D == DOMAIN registry
           ids == {s[i].id : i \in 1 .. n}
           gone == {t \in D : \A i \in 1 .. n : s[i].id # t}
<1>1. /\ IsSeq(s) /\ tree.next \in Nat
      /\ \A i, j \in 1 .. n : s[i].id = s[j].id => i = j
      /\ \A t \in D : t \in Nat /\ t < tree.next
      /\ UsedLast(s, D)
  BY DEF TreeInv, TreeOK
<1>2. n \in Nat
  BY <1>1, ConcatFacts
<1>3. IsFiniteSet(D) /\ Cardinality(D) \in Nat
  <2>1. D \subseteq 0 .. tree.next
    BY <1>1
  <2>2. IsFiniteSet(0 .. tree.next)
    BY <1>1, FS_Interval
  <2> HIDE DEF D
  <2> QED BY <2>1, <2>2, FS_Subset, FS_CardinalityType
<1>4. IsFiniteSet(ids) /\ Cardinality(ids) = n
  <2> DEFINE f == [i \in 1 .. n |-> s[i].id]
  <2>1. IsFiniteSet(1 .. n) /\ Cardinality(1 .. n) = n
    BY <1>2, FS_Interval
  <2>2. f \in Bijection(1 .. n, ids)
    <3>1. \A i \in 1 .. n : f[i] = s[i].id /\ f[i] \in ids
      OBVIOUS
    <3>2. f \in Injection(1 .. n, ids)
      BY <3>1, <1>1 DEF Injection, IsInjective
    <3>3. f \in Surjection(1 .. n, ids)
      BY <3>1 DEF Surjection
    <3> QED BY <3>2, <3>3 DEF Bijection
  <2>3. ExistsBijection(1 .. n, ids)
    BY <2>2 DEF ExistsBijection
  <2> HIDE DEF f, ids
  <2> QED BY <2>1, <2>3, FS_Bijection
<1>5. gone = D \ ids
  OBVIOUS
<1>6. Evicted = IF Cardinality(D) > n THEN Cardinality(D) - n ELSE 0
  BY DEF Evicted
<1>7. CASE gone = {}
  <2>1. D \subseteq ids
    BY <1>5, <1>7
  <2> HIDE DEF D, ids, gone, n
  <2>2. Cardinality(D) <= n
    BY <2>1, <1>4, FS_Subset
  <2>3. Evicted = 0
    BY <2>2, <1>2, <1>3, <1>6
  <2>4. Cardinality(gone) = 0
    BY <1>7, FS_EmptySet
  <2>5. Evicted = Cardinality(gone)
    BY <2>3, <2>4
  <2> QED BY <2>5 DEF gone, D, n
<1>8. CASE gone # {}
  <2>1. ids \subseteq D
    BY <1>1, <1>8 DEF UsedLast
  <2> HIDE DEF D, ids, n
  <2>2. D \cap ids = ids
    BY <2>1
  <2>3. Cardinality(D \ ids) = Cardinality(D) - n
    BY <2>2, <1>3, <1>4, FS_Difference
  <2>4. IsFiniteSet(D \ ids) /\ D \ ids # {}
    BY <1>3, <1>5, <1>8, FS_Difference
  <2>5. Cardinality(D \ ids) # 0
    BY <2>4, FS_EmptySet
  <2>6. Cardinality(D \ ids) \in Nat
    BY <2>4, FS_CardinalityType
  <2>7. Cardinality(D) > n
    BY <2>3, <2>5, <2>6, <1>2, <1>3
  <2>8. Evicted = Cardinality(gone)
    BY <2>3, <2>7, <1>5, <1>6
  <2> QED BY <2>8 DEF gone, D, n
<1> QED BY <1>7, <1>8

\* A tree with no line of this ingest in it.
LEMMA UnusedTree ==
  ASSUME TreeOK(tree'), registry' = <<>>, snapshot' # None => TreeOK(snapshot'), pc' # "check"
  PROVE  TreeInv'
<1>1. DOMAIN registry' = {}
  OBVIOUS
<1>2. UsedLast(tree'.live, {})
  BY DEF UsedLast
<1> QED BY <1>1, <1>2 DEF TreeInv

LEMMA LimitedTree ==
  ASSUME NEW t, TreeOK(t), NEW c \in Nat \ {0} PROVE TreeOK([t EXCEPT !["capacity"] = c])
  BY DEF TreeOK

LEMMA NewTree == TreeOK(EmptyTree)
<1>1. MaxClusters \in Nat \ {0}
  BY IngestAssumption
<1>2. IsSeq(<<>>) /\ Len(<<>>) = 0
  BY EmptyIsSeq
<1> QED BY <1>1, <1>2 DEF TreeOK, EmptyTree

LEMMA CapacitiesArePositive == Capacities \subseteq Nat \ {0}
<1>1. MaxClusters \in Nat \ {0} /\ FewClusters \in Nat \ {0}
  BY IngestAssumption
<1>2. \A trial : Capacity(trial) \in {MaxClusters, FewClusters}
  BY DEF Capacity
<1> QED BY <1>1, <1>2 DEF Capacities

\* The steps that touch neither the tree nor what is saved of it.
LEMMA SameTree ==
  ASSUME TreeInv, UNCHANGED <<tree, snapshot, registry>>, pc # "idle",
         pc' \in {"calibrate", "open", "create"} => pc \in {"calibrate", "open", "create"},
         pc' = "check" => pad'.metrics.evicted = Evicted
  PROVE  TreeInv'
<1>1. Evicted' = Evicted
  BY DEF Evicted
<1>2. TreeOK(tree)' <=> TreeOK(tree)
  BY DEF TreeOK
<1> QED BY <1>1, <1>2 DEF TreeInv

LEMMA TreeStep == FollowInv /\ TreeInv /\ [Next]_vars => TreeInv'
<1> SUFFICES ASSUME FollowInv, TreeInv, [Next]_vars PROVE TreeInv'
  OBVIOUS
<1> USE DEF disk, redaction, templating
<1>1. CASE Begin \/ Dies
  <2>1. /\ tree' = EmptyTree /\ registry' = <<>> /\ snapshot' = snapshot /\ pc' # "check"
    BY <1>1 DEF Begin, Dies
  <2> QED BY <2>1, NewTree, UnusedTree DEF TreeInv
<1>2. CASE Calibrate
  <2>1. /\ pc = "calibrate" /\ pc' = "open" /\ UNCHANGED <<registry, snapshot>>
        /\ \E c \in Capacities : tree' = [tree EXCEPT !["capacity"] = c]
    BY <1>2 DEF Calibrate
  <2>2. TreeOK(tree')
    BY <2>1, CapacitiesArePositive, LimitedTree DEF TreeInv
  <2> QED BY <2>1, <2>2, UnusedTree DEF TreeInv
<1>3. CASE Open
  <2>1. pc = "open" /\ pc' = "create" /\ registry' = <<>>
    BY <1>3 DEF Open, TreeInv
  <2>2. CASE snapshot # None /\ snapshot' = snapshot
    <3>1. TreeOK(snapshot) /\ TreeOK(tree)
      BY <2>2 DEF TreeInv
    <3>2. \/ tree' = tree
          \/ \E c \in {snapshot.capacity, tree.capacity} :
               tree' = [snapshot EXCEPT !["capacity"] = c]
      BY <1>3 DEF Open
    <3>3. {snapshot.capacity, tree.capacity} \subseteq Nat \ {0}
      BY <3>1 DEF TreeOK
    <3>4. TreeOK(tree')
      BY <3>1, <3>2, <3>3, LimitedTree
    <3> QED BY <2>1, <2>2, <3>1, <3>4, UnusedTree
  <2>3. CASE tree' = tree /\ snapshot' = None
    BY <2>1, <2>3, UnusedTree DEF TreeInv
  <2> QED BY <1>3, <2>2, <2>3 DEF Open
<1>4. CASE TemplateLine
  <2> DEFINE shape == Head(redacted).shape
             c == Clustered(shape)
  <2>1. /\ pc = "template" /\ pc' = "template" /\ snapshot' = snapshot
        /\ tree' = c.tree /\ registry' = Counted(c.id)
    BY <1>4 DEF TemplateLine
  <2>2. DOMAIN registry' = DOMAIN registry \cup {c.id}
    BY <2>1 DEF Counted
  <2> HIDE DEF shape
  <2>3. /\ TreeOK(c.tree) /\ UsedLast(c.tree.live, DOMAIN registry \cup {c.id})
        /\ \A t \in DOMAIN registry \cup {c.id} : t \in Nat /\ t < c.tree.next
    <3> DEFINE used == DOMAIN registry
    <3>1. /\ TreeOK(tree) /\ UsedLast(tree.live, used)
          /\ \A t \in used : t \in Nat /\ t < tree.next
      BY <2>1 DEF TreeInv
    <3> HIDE DEF used
    <3>2. /\ TreeOK(c.tree) /\ UsedLast(c.tree.live, used \cup {c.id})
          /\ \A t \in used \cup {c.id} : t \in Nat /\ t < c.tree.next
      BY ONLY <3>1, ClusteredFacts
    <3> QED BY <3>2 DEF used
  <2> HIDE DEF c
  <2> QED BY <2>1, <2>2, <2>3 DEF TreeInv
<1>5. CASE SaveTree
  <2>1. /\ pc = "snapshot" /\ pc' = "score" /\ snapshot' = tree /\ UNCHANGED <<tree, registry>>
    BY <1>5 DEF SaveTree
  <2> QED BY <2>1 DEF TreeInv
<1>6. CASE Measure
  <2>1. /\ pc = "measure" /\ pc' = "check" /\ UNCHANGED <<tree, snapshot, registry>>
        /\ pad' = [pad EXCEPT !["metrics"] = Measurement]
    BY <1>6 DEF Measure, Measurement
  <2>2. DOMAIN pad = PadFields
    BY <2>1, AfterRows DEF After
  <2>3. pad'["metrics"] = Measurement
    BY <2>1, <2>2, RowFacts DEF PadFields
  <2>4. pad'.metrics.evicted = Evicted
    BY <2>3 DEF Measurement
  <2> QED BY <2>1, <2>4, SameTree
<1>7. CASE Check
  <2>1. pc' = "idle" /\ UNCHANGED <<tree, snapshot>>
    BY <1>7 DEF Check
  <2> QED BY <2>1 DEF TreeInv
<1>8. CASE CreateIncident \/ TakeChunk \/ MergeSlice \/ PoolBreaks \/ RedactHere
  <2>1. /\ UNCHANGED <<tree, snapshot, registry>> /\ pc # "idle"
        /\ pc' \notin {"calibrate", "open", "create", "check"}
    BY <1>8 DEF CreateIncident, TakeChunk, MergeSlice, PoolBreaks, RedactHere
  <2> QED BY <2>1, SameTree
<1>9. CASE ChunkRedacted \/ ChunkStored \/ StoreTail \/ StoreTemplates \/ Score \/ FlushVault
  <2>1. /\ UNCHANGED <<tree, snapshot, registry>> /\ pc # "idle"
        /\ pc' \notin {"calibrate", "open", "create", "check"}
    BY <1>9 DEF ChunkRedacted, ChunkStored, StoreTail, StoreTemplates, Score, FlushVault
  <2> QED BY <2>1, SameTree
<1>10. CASE Settled \/ UNCHANGED vars
  <2>1. UNCHANGED vars
    BY <1>10 DEF Settled
  <2>2. Evicted' = Evicted
    BY <2>1 DEF vars, Evicted
  <2> QED BY <2>1, <2>2 DEF vars, TreeInv
<1> QED
  BY <1>1, <1>2, <1>3, <1>4, <1>5, <1>6, <1>7, <1>8, <1>9, <1>10 DEF Next, Step

\* For any sources, cluster limits and earlier trees, the number of evicted templates, which the
\* code gets by subtracting two sizes, is the number of this source's templates that the tree no
\* longer holds: Drain3 evicts what was used longest ago, so that an earlier tree's clusters go
\* before any of this source does.
THEOREM EvictedAreCounted == Spec => []EvictionsAreExact
<1>1. Init => TreeInv
  <2> SUFFICES ASSUME Init PROVE TreeInv
    OBVIOUS
  <2>1. tree = EmptyTree /\ registry = <<>> /\ snapshot = None /\ pc = "idle"
    BY DEF Init
  <2> QED BY <2>1, NewTree DEF TreeInv
<1>2. FollowInv /\ TreeInv /\ [Next]_vars => TreeInv'
  BY TreeStep
<1>3. TreeInv => EvictionsAreExact
  <2> SUFFICES ASSUME TreeInv, pc = "check" PROVE EvictionsAreExact
    BY DEF EvictionsAreExact
  <2>1. pad.metrics.evicted = Evicted
    BY DEF TreeInv
  <2> QED BY <2>1, EvictedIsGone DEF EvictionsAreExact
<1> QED BY <1>1, <1>2, <1>3, SpecFollows, PTL DEF Spec

-----------------------------------------------------------------------------
(* What a reader of the scratchpad is promised.                             *)

\* The state of OneLogPerScratchpad.
Status == IF pad = None THEN "absent" ELSE IF Measured THEN "complete" ELSE "filling"
Log == IF pad = None THEN <<>> ELSE pad.source
Rows == IF pad = None THEN <<>> ELSE [i \in DOMAIN pad.events |-> pad.events[i].line]

\* What is made is made where nothing is, of a source.
PromiseInv == /\ pc = "create" => pad = None
              /\ pc # "idle" => source \in Sources

LEMMA InitPromise == Init => PromiseInv
  BY DEF Init, PromiseInv

LEMMA PromiseInvStep == PromiseInv /\ [Next]_vars => PromiseInv'
<1> SUFFICES ASSUME PromiseInv, [Next]_vars PROVE PromiseInv'
  OBVIOUS
<1>1. CASE Begin
  BY <1>1 DEF Begin, PromiseInv
<1>2. CASE Calibrate \/ Open \/ CreateIncident
  BY <1>2 DEF Calibrate, Open, CreateIncident, PromiseInv
<1>3. CASE TakeChunk \/ MergeSlice \/ PoolBreaks \/ RedactHere \/ ChunkRedacted
  BY <1>3 DEF TakeChunk, MergeSlice, PoolBreaks, RedactHere, ChunkRedacted, PromiseInv
<1>4. CASE TemplateLine \/ ChunkStored \/ StoreTail \/ StoreTemplates \/ SaveTree
  BY <1>4 DEF TemplateLine, ChunkStored, StoreTail, StoreTemplates, SaveTree, PromiseInv
<1>5. CASE Score \/ FlushVault \/ Measure \/ Check \/ Dies
  BY <1>5 DEF Score, FlushVault, Measure, Check, Dies, PromiseInv
<1>6. CASE Settled \/ UNCHANGED vars
  BY <1>6 DEF Settled, vars, disk, PromiseInv
<1> QED BY <1>1, <1>2, <1>3, <1>4, <1>5, <1>6 DEF Next, Step

\* The first n elements of a sequence, element by element.
LEMMA FirstOf ==
  ASSUME NEW s, IsSeq(s), NEW n \in Nat, n <= Len(s), NEW r, IsSeq(r), Len(r) = n,
         \A i \in 1 .. n : r[i] = s[i]
  PROVE  r = SubSeq(s, 1, n)
<1> DEFINE u == SubSeq(s, 0 + 1, n)
<1>1. IsSeq(u) /\ Len(u) = n - 0 /\ \A i \in 1 .. n - 0 : u[i] = s[0 + i]
  BY PieceFacts
<1>2. n - 0 = n /\ \A i \in 1 .. n : 0 + i = i
  OBVIOUS
<1>3. u = SubSeq(s, 1, n)
  OBVIOUS
<1> HIDE DEF u
<1>4. u = [i \in 1 .. n |-> u[i]] /\ r = [i \in 1 .. n |-> r[i]]
  BY <1>1, <1>2 DEF IsSeq
<1>5. \A i \in 1 .. n : u[i] = r[i]
  BY <1>1, <1>2
<1> QED BY <1>3, <1>4, <1>5

\* The lines of the events that follow a source.
LEMMA LinesFacts ==
  ASSUME NEW s, IsSeq(s), NEW events, IsSeq(events), Len(events) <= Len(s),
         \A i \in 1 .. Len(events) : events[i].line = s[i]
  PROVE  LET r == [i \in DOMAIN events |-> events[i].line]
         IN  /\ r = SubSeq(s, 1, Len(events))
             /\ Len(r) = Len(events) /\ Len(r) \in Nat /\ Len(s) \in Nat
             /\ Len(events) = Len(s) => r = s
<1> DEFINE n == Len(events)
           r == [i \in DOMAIN events |-> events[i].line]
<1>1. n \in Nat /\ DOMAIN events = 1 .. n /\ Len(s) \in Nat
  BY ConcatFacts DEF IsSeq
<1> HIDE DEF n
<1>2. \A i \in 1 .. n : r[i] = s[i]
  BY <1>1 DEF n
<1>3. r \in Seq(Elements(r)) /\ Len(r) = n
  BY <1>1 DEF Elements
<1> HIDE DEF r
<1>4. IsSeq(r) /\ Len(r) = n
  BY <1>3 DEF IsSeq
<1>5. r = SubSeq(s, 1, n)
  BY <1>1, <1>2, <1>4, FirstOf DEF n
<1>6. n = Len(s) => r = s
  <2> SUFFICES ASSUME n = Len(s) PROVE r = s
    OBVIOUS
  <2>1. r = [i \in 1 .. n |-> r[i]] /\ s = [i \in 1 .. n |-> s[i]]
    BY <1>4 DEF IsSeq
  <2> QED BY <2>1, <1>2
<1> QED BY <1>1, <1>4, <1>5, <1>6 DEF n, r

\* An ingest's own scratchpad.
LEMMA OwnRows ==
  ASSUME FollowInv, EventsFollowSource, pc \in Kept
  PROVE  /\ pad # None /\ pad.source = source /\ IsSeq(source) /\ IsSeq(pad.events)
         /\ Len(pad.events) <= Len(source)
         /\ \A i \in 1 .. Len(pad.events) : pad.events[i].line = source[i]
  BY DEF FollowInv, Shape, Own, Follows, EventsFollowSource

PromiseVars == <<Status, Log, Rows>>

LEMMA SamePad == pad' = pad => UNCHANGED PromiseVars
  BY DEF PromiseVars, Status, Log, Rows, Measured

\* A change to other tables than those of the events and the metrics.
LEMMA SameRows ==
  ASSUME pad # None, pad' # None, pad'.source = pad.source, pad'.events = pad.events,
         pad'.metrics = pad.metrics
  PROVE  UNCHANGED PromiseVars
  BY DEF PromiseVars, Status, Log, Rows, Measured

\* A step of the load stores some lines, or none.
LEMMA StorePromise ==
  ASSUME FollowInv, FollowInv', EventsFollowSource, EventsFollowSource',
         pc \in Kept, pc' \in Kept, source' = source,
         pad.metrics = None, pad'.metrics = None, Len(pad'.events) >= Len(pad.events)
  PROVE  Promise!Store \/ UNCHANGED PromiseVars
<1> DEFINE m == Len(pad.events)
           n == Len(pad'.events)
<1>1. /\ pad # None /\ pad.source = source /\ IsSeq(source) /\ IsSeq(pad.events)
      /\ m <= Len(source) /\ \A i \in 1 .. m : pad.events[i].line = source[i]
  BY OwnRows
<1>2. /\ pad' # None /\ pad'.source = source /\ IsSeq(pad'.events)
      /\ n <= Len(source) /\ \A i \in 1 .. n : pad'.events[i].line = source[i]
  BY DEF FollowInv, Own, Follows, EventsFollowSource
<1>3. Rows = SubSeq(source, 1, m) /\ Len(Rows) = m /\ m \in Nat /\ Len(source) \in Nat
  BY <1>1, LinesFacts DEF Rows
<1>4. Rows' = SubSeq(source, 1, n) /\ n \in Nat
  BY <1>1, <1>2, LinesFacts DEF Rows
<1>5. /\ Status = "filling" /\ Status' = "filling" /\ Log = source /\ Log' = source
  BY <1>1, <1>2 DEF Status, Measured, Log
<1>6. m <= n
  BY <1>3, <1>4
<1> HIDE DEF m, n
<1>7. CASE n = m
  BY <1>3, <1>4, <1>5, <1>7 DEF PromiseVars
<1>8. CASE n # m
  <2>1. n \in m + 1 .. Len(source)
    BY <1>2, <1>3, <1>4, <1>6, <1>8 DEF n
  <2>2. \E k \in Len(Rows) + 1 .. Len(Log) : Rows' = SubSeq(Log, 1, k)
    BY <1>3, <1>4, <1>5, <2>1
  <2> QED BY <1>5, <2>2 DEF Promise!Store, Status, Log, Rows
<1> QED BY <1>7, <1>8

LEMMA CreatePromise == ASSUME PromiseInv, CreateIncident PROVE Promise!Create
<1>1. pad = None /\ source \in Sources
  BY DEF PromiseInv, CreateIncident
<1>2. PICK brief :
        pad' = [ingest |-> ingests, source |-> source, events |-> <<>>, brief |-> brief,
                templates |-> <<>>, scored |-> FALSE, metrics |-> None, health |-> "unknown"]
  BY DEF CreateIncident
<1>3. DOMAIN pad' = PadFields /\ pad'.source = source /\ pad'.events = <<>> /\ pad'.metrics = None
  BY <1>2 DEF PadFields
<1>4. pad' # None
  BY <1>3, NoneFacts DEF PadFields
<1>5. [i \in DOMAIN pad'.events |-> pad'.events[i].line] = <<>>
  BY <1>3
<1>6. Status = "absent" /\ Status' = "filling" /\ Log' = source /\ Rows' = <<>>
  BY <1>1, <1>3, <1>4, <1>5 DEF Status, Log, Rows, Measured
<1> QED BY <1>1, <1>6 DEF Promise!Create, Status, Log, Rows

LEMMA OpenPromise == ASSUME Open PROVE Promise!Remove \/ UNCHANGED PromiseVars
<1>1. pad' = None
  BY DEF Open
<1>2. Status' = "absent" /\ Log' = <<>> /\ Rows' = <<>>
  BY <1>1 DEF Status, Log, Rows
<1>3. CASE pad = None
  BY <1>1, <1>3, SamePad
<1>4. CASE pad # None
  <2>1. Status # "absent"
    BY <1>4 DEF Status
  <2> QED BY <1>2, <2>1 DEF Promise!Remove, Status, Log, Rows
<1> QED BY <1>3, <1>4

LEMMA MeasurePromise ==
  ASSUME FollowInv, EventsFollowSource, Measure PROVE Promise!Complete
<1>1. /\ pc = "measure" /\ pc' = "check" /\ pad' = [pad EXCEPT !["metrics"] = Measurement]
  BY DEF Measure, Measurement
<1>2. /\ pad # None /\ pad' # None /\ pad'.source = pad.source /\ pad'.events = pad.events
      /\ pad'["metrics"] = Measurement
  BY <1>1, AfterRows, RowFacts DEF After, PadFields
<1>3. pad.metrics = None /\ pad'.metrics # None
  <2>1. "loaded" \in DOMAIN Measurement
    BY DEF Measurement
  <2>2. Measurement # None
    BY <2>1, NoneFacts
  <2> QED BY <1>1, <1>2, <2>2 DEF FollowInv, Marks, Kept, After
<1>4. Status = "filling" /\ Status' = "complete" /\ Log' = Log /\ Rows' = Rows
  BY <1>2, <1>3 DEF Status, Log, Rows, Measured
<1>5. Rows = Log
  <2>1. /\ pad # None /\ pad.source = source /\ IsSeq(source) /\ IsSeq(pad.events)
        /\ Len(pad.events) <= Len(source)
        /\ \A i \in 1 .. Len(pad.events) : pad.events[i].line = source[i]
    BY <1>1, OwnRows DEF Kept, After
  <2>2. Len(pad.events) = Len(source)
    BY <1>1 DEF FollowInv, Ahead, After
  <2> DEFINE events == pad.events
  <2>3. /\ IsSeq(source) /\ IsSeq(events) /\ Len(events) <= Len(source)
        /\ \A i \in 1 .. Len(events) : events[i].line = source[i]
        /\ Len(events) = Len(source)
    BY <2>1, <2>2
  <2> HIDE DEF events
  <2>4. [i \in DOMAIN events |-> events[i].line] = source
    BY ONLY <2>3, LinesFacts
  <2> QED BY <2>1, <2>4 DEF Log, Rows, events
<1> QED BY <1>4, <1>5 DEF Promise!Complete, Status, Log, Rows

\* Lines that are templated are stored behind those that were.
LEMMA TemplatePromise ==
  ASSUME FollowInv, FollowInv', EventsFollowSource, EventsFollowSource', TemplateLine
  PROVE  Promise!Store \/ UNCHANGED PromiseVars
<1> DEFINE e == Event(Head(redacted), Clustered(Head(redacted).shape).id)
           grown == Append(batch, e)
           all == pad.events \o grown
<1>1. /\ pc = "template" /\ pc' = "template" /\ source' = source
      /\ \/ pad' = [pad EXCEPT !["events"] = all]
         \/ pad' = pad
  BY DEF TemplateLine
<1> HIDE DEF e
<1>2. /\ DOMAIN pad = PadFields /\ pad # None /\ IsSeq(pad.events) /\ IsSeq(batch)
      /\ pad.metrics = None
  BY <1>1 DEF FollowInv, Shape, Own, Marks, Follows, Kept, Loading
<1>3. IsSeq(grown)
  BY <1>2, AppendFacts
<1> HIDE DEF grown
<1>4. Len(all) >= Len(pad.events)
  <2>1. Len(all) = Len(pad.events) + Len(grown) /\ Len(pad.events) \in Nat /\ Len(grown) \in Nat
    BY <1>2, <1>3, ConcatFacts
  <2> QED BY <2>1
<1> HIDE DEF all
<1>5. CASE pad' = [pad EXCEPT !["events"] = all]
  <2>1. pad'.events = all /\ pad'.metrics = None
    BY <1>2, <1>5, RowFacts DEF PadFields
  <2> QED BY <1>1, <1>2, <1>4, <2>1, StorePromise DEF Kept, Loading
<1>6. CASE pad' = pad
  BY <1>6, SamePad
<1> QED BY <1>1, <1>5, <1>6

LEMMA TailPromise ==
  ASSUME FollowInv, FollowInv', EventsFollowSource, EventsFollowSource', StoreTail
  PROVE  Promise!Store \/ UNCHANGED PromiseVars
<1> DEFINE all == pad.events \o batch
<1>1. /\ pc = "read" /\ pc' = "templates" /\ source' = source
      /\ pad' = [pad EXCEPT !["events"] = all]
  BY DEF StoreTail
<1>2. /\ DOMAIN pad = PadFields /\ pad # None /\ IsSeq(pad.events) /\ IsSeq(batch)
      /\ pad.metrics = None
  BY <1>1 DEF FollowInv, Shape, Own, Marks, Follows, Kept, Loading
<1>3. Len(all) >= Len(pad.events)
  <2>1. Len(all) = Len(pad.events) + Len(batch) /\ Len(pad.events) \in Nat /\ Len(batch) \in Nat
    BY <1>2, ConcatFacts
  <2> QED BY <2>1
<1> HIDE DEF all
<1>4. pad'.events = all /\ pad'.metrics = None
  BY <1>1, <1>2, RowFacts DEF PadFields
<1> QED BY <1>1, <1>2, <1>3, <1>4, StorePromise DEF Kept, Loading, After

\* The other tables, and the verdict.
LEMMA OtherTables ==
  ASSUME FollowInv, StoreTemplates \/ Score \/ Check PROVE UNCHANGED PromiseVars
<1>1. /\ pc \in After
      /\ \E f \in {"templates", "scored", "health"} : \E row : pad' = [pad EXCEPT ![f] = row]
  <2>1. CASE StoreTemplates
    <3>1. pad' = [pad EXCEPT !["templates"] = Summaries] /\ pc = "templates"
      BY <2>1 DEF StoreTemplates
    <3> QED BY <3>1 DEF After
  <2>2. CASE Score
    <3>1. pad' = [pad EXCEPT !["scored"] = TRUE] /\ pc = "score"
      BY <2>2 DEF Score
    <3> QED BY <3>1 DEF After
  <2>3. CASE Check
    <3>1. PICK verdict : pad' = [pad EXCEPT !["health"] = verdict]
      BY <2>3 DEF Check
    <3>2. pc = "check"
      BY <2>3 DEF Check
    <3> QED BY <3>1, <3>2 DEF After
  <2> QED BY <2>1, <2>2, <2>3
<1>2. PICK f \in {"templates", "scored", "health"} : \E row : pad' = [pad EXCEPT ![f] = row]
  BY <1>1
<1>3. pad # None /\ DOMAIN pad = PadFields /\ f \in PadFields
  BY <1>1, AfterRows DEF PadFields
<1>4. /\ pad' # None /\ pad'["source"] = pad["source"] /\ pad'["events"] = pad["events"]
      /\ pad'["metrics"] = pad["metrics"]
  BY <1>2, <1>3, RowFacts DEF PadFields
<1> QED BY <1>3, <1>4, SameRows

LEMMA PromiseStep ==
  ASSUME FollowInv, FollowInv', EventsFollowSource, EventsFollowSource', PromiseInv, [Next]_vars
  PROVE  [Promise!Next]_PromiseVars
<1>1. CASE UNCHANGED PromiseVars
  BY <1>1
<1>2. CASE Promise!Create \/ Promise!Store \/ Promise!Complete \/ Promise!Remove
  BY <1>2 DEF Promise!Next
<1>3. CASE Begin \/ Calibrate \/ Dies \/ Settled \/ UNCHANGED vars
  <2>1. pad' = pad
    BY <1>3 DEF Begin, Calibrate, Dies, Settled, vars, disk
  <2> QED BY <1>1, <2>1, SamePad
<1>4. CASE TakeChunk \/ MergeSlice \/ PoolBreaks \/ RedactHere \/ ChunkRedacted
  <2>1. pad' = pad
    BY <1>4 DEF TakeChunk, MergeSlice, PoolBreaks, RedactHere, ChunkRedacted, disk
  <2> QED BY <1>1, <2>1, SamePad
<1>5. CASE ChunkStored \/ SaveTree \/ FlushVault
  <2>1. pad' = pad
    BY <1>5 DEF ChunkStored, SaveTree, FlushVault, disk
  <2> QED BY <1>1, <2>1, SamePad
<1>6. CASE Open
  BY <1>1, <1>2, <1>6, OpenPromise
<1>7. CASE CreateIncident
  BY <1>2, <1>7, CreatePromise
<1>8. CASE TemplateLine \/ StoreTail
  BY <1>1, <1>2, <1>8, TemplatePromise, TailPromise
<1>9. CASE StoreTemplates \/ Score \/ Check
  BY <1>1, <1>9, OtherTables
<1>10. CASE Measure
  BY <1>2, <1>10, MeasurePromise
<1> QED BY <1>3, <1>4, <1>5, <1>6, <1>7, <1>8, <1>9, <1>10 DEF Next, Step

\* For any sources, settings and sizes, wherever a pool breaks or an ingest dies, what a
\* reader finds at the path changes as OneLogPerScratchpad says: one log, taken up in order,
\* complete when it says so, removed and never written over (pipeline.py: ingest).
THEOREM IngestKeepsPromise == Spec => FillsOneLog
<1>1. Init => Promise!Init
  <2> SUFFICES ASSUME Init PROVE Promise!Init
    OBVIOUS
  <2>1. pad = None
    BY DEF Init
  <2> QED BY <2>1 DEF Promise!Init
<1>2. FollowInv /\ FollowInv' /\ EventsFollowSource /\ EventsFollowSource' /\ PromiseInv
        /\ [Next]_vars => [Promise!Next]_PromiseVars
  BY PromiseStep
<1>3. Spec => []PromiseInv
  BY InitPromise, PromiseInvStep, PTL DEF Spec
<1> QED BY <1>1, <1>2, <1>3, SpecFollows, ScratchpadFollowsSource, PTL
       DEF Spec, FillsOneLog, Promise!Spec, PromiseVars, Status, Log, Rows
=============================================================================
