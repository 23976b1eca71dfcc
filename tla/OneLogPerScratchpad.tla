------------------------ MODULE OneLogPerScratchpad ------------------------
(***************************************************************************)
(* What an ingest promises whoever reads the scratchpad of an incident     *)
(* (pipeline.py: ingest): it is of one log, whose lines it takes up in     *)
(* their order and never loses or changes, it is complete once it says so, *)
(* and what is complete is only ever removed, never written over.  Ingest  *)
(* implements this, however it cuts, redacts and batches the lines.        *)
(***************************************************************************)
EXTENDS Integers, Sequences

CONSTANT Sources

VARIABLES
  status,  \* is there a scratchpad, and is its log complete
  log,     \* the log it is of, <<>> when there is none
  rows     \* the lines it holds

Init == status = "absent" /\ log = <<>> /\ rows = <<>>

Create ==
  /\ status = "absent"
  /\ status' = "filling" /\ log' \in Sources /\ rows' = <<>>

\* Some more lines, at least one.
Store ==
  /\ status = "filling"
  /\ \E n \in Len(rows) + 1 .. Len(log) : rows' = SubSeq(log, 1, n)
  /\ UNCHANGED <<status, log>>

Complete ==
  /\ status = "filling" /\ rows = log
  /\ status' = "complete"
  /\ UNCHANGED <<log, rows>>

\* By the next ingest, whether or not this one came to its end.
Remove ==
  /\ status # "absent"
  /\ status' = "absent" /\ log' = <<>> /\ rows' = <<>>

Next == Create \/ Store \/ Complete \/ Remove

Spec == Init /\ [][Next]_<<status, log, rows>>
=============================================================================
