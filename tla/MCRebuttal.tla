----------------------------- MODULE MCRebuttal -----------------------------
(* Instances of Rebuttal: the events are interchangeable.                   *)
EXTENDS Rebuttal, TLC

Symmetry == Permutations(Events)
=============================================================================
